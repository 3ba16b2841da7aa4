----------------------------- MODULE ReaperClock -----------------------------
(***************************************************************************)
(* The times of the collector and of the store, in units of one length:    *)
(* the ticker and the loop that serves it, the cutoffs, and the TTL of a   *)
(* record, for one owner's attempts, one after the other.  It is where the *)
(* constants meet (attempt_store.go:44, gcserver.go:36): a record must     *)
(* outlive the collector's delays, because it alone leads the collector to *)
(* the container.  Containers do not die here, Stop works and a call that  *)
(* rewrites a record is one step; AttemptLifecycle has those faults and    *)
(* interleavings, and no time.                                             *)
(***************************************************************************)
EXTENDS Integers

CONSTANTS
    IdleCutoff,    \* idleCutoff: of a running attempt, since LastActiveAt
    PassedGrace,   \* passedGrace: of a passed one, since FinishedAt
    TTL,           \* DefaultTTL: of a record, since its last Put
    Interval,      \* interval of the ticker
    TickTime,      \* the longest a tick takes
    WriteTime,     \* the longest from taking a time stamp to its Put
    MaxMissed      \* rounds in a row that fail before they reach the attempt

Round == Interval + TickTime

\* How late the collector may be.
Slack == Interval + 3 * TickTime + MaxMissed * Round

(***************************************************************************)
(* A handler is faster than the cutoffs, and the TTL is longer than they   *)
(* are by the collector's delays.  The code's cutoffs are 30 minutes, its  *)
(* TTL is 60 and its interval 1.                                           *)
(***************************************************************************)
ASSUME ClockAssumption ==
    /\ IdleCutoff \in Nat /\ PassedGrace \in Nat /\ TTL \in Nat
    /\ Interval \in Nat \ {0} /\ TickTime \in Nat /\ WriteTime \in Nat /\ MaxMissed \in Nat
    /\ WriteTime < IdleCutoff /\ WriteTime < PassedGrace
    /\ IdleCutoff + Slack <= TTL /\ PassedGrace + Slack <= TTL

VARIABLES
    container,  \* "up": it runs, and its Start has put the record in the store
    record,     \* the status of the record in the store, or "none"
    stamp,      \* the age of the time stamp the collector compares
    life,       \* what is left of the record's TTL
    fireIn,     \* until the ticker fires
    queued,     \* the age of the firing in the ticker's channel, or NoTick
    phase,      \* of the loop: it waits, scans, collects, visits the others
    late,       \* the age of the firing it serves
    left,       \* what is left of TickTime
    seen,       \* the status in the snapshot
    missed      \* rounds in a row that failed

clockVars == <<container, record, stamp, life, fireIn, queued, phase, late, left, seen, missed>>

recordVars == <<container, record, stamp, life>>
tickerVars == <<fireIn, queued>>
loopVars == <<phase, late, left, seen, missed>>

NoTick == -1

ClockTypeOK ==
    /\ container \in {"none", "up"}
    /\ record \in {"none", "running", "passed"}
    /\ stamp \in Nat /\ life \in 0 .. TTL
    /\ fireIn \in 0 .. Interval
    /\ queued \in Nat \cup {NoTick}
    /\ phase \in {"wait", "scan", "collect", "others"}
    /\ late \in Nat /\ left \in 0 .. TickTime
    /\ seen \in {"none", "running", "passed"}
    /\ missed \in 0 .. MaxMissed

ClockInit ==
    /\ container = "none" /\ record = "none" /\ stamp = 0 /\ life = 0
    /\ fireIn = Interval /\ queued = NoTick
    /\ phase = "wait" /\ late = 0 /\ left = 0 /\ seen = "none" /\ missed = 0

-----------------------------------------------------------------------------
(* Records.                                                                *)

\* Mutant: Put keeps what is left of the TTL.
PutRecord_KeepTTL(s, age) ==
    /\ record' = s /\ stamp' = age
    /\ life' = IF record = "none" THEN TTL ELSE life

\* Put sets the whole TTL again.
PutRecord(s, age) == record' = s /\ stamp' = age /\ life' = TTL

\* The container is stopped and the record deleted, or Delete fails, which
\* leaves the record to its TTL.
Ended ==
    /\ container' = "none"
    /\ \/ record' = "none" /\ stamp' = 0 /\ life' = 0
       \/ UNCHANGED <<record, stamp, life>>

\* Start runs the container and puts a record with the time it began.  What
\* the collector has in hand by then is an earlier attempt.
StartAttempt ==
    /\ container = "none"
    /\ container' = "up"
    /\ \E age \in 0 .. WriteTime : PutRecord("running", age)
    /\ seen' = "none"
    /\ UNCHANGED <<tickerVars, phase, late, left, missed>>

(***************************************************************************)
(* Heartbeat and Check rewrite the record they read with a new             *)
(* LastActiveAt, a check that passes with FinishedAt.  A heartbeat that    *)
(* reads a record already passed leaves FinishedAt as it is; one that read *)
(* it before the pass makes it running again.  Those of a record whose     *)
(* container is gone are left out: it would only stay longer.              *)
(***************************************************************************)
Rewrite ==
    /\ container = "up" /\ record # "none"
    /\ \/ \E s \in {"running", "passed"}, age \in 0 .. WriteTime : PutRecord(s, age)
       \/ record = "passed" /\ PutRecord("passed", stamp)
    /\ UNCHANGED <<container, tickerVars, loopVars>>

\* Terminate of a running attempt, or the Start that replaces a passed one.
Leave ==
    /\ container = "up" /\ record # "none"
    /\ Ended
    /\ UNCHANGED <<tickerVars, loopVars>>

\* The TTL ends.
ExpireRecord ==
    /\ record # "none" /\ life = 0
    /\ record' = "none" /\ stamp' = 0
    /\ UNCHANGED <<container, life, tickerVars, loopVars>>

-----------------------------------------------------------------------------
(* The ticker and the loop.                                                *)

\* The channel holds one firing; the ticker drops those it has no room for.
Fire ==
    /\ fireIn = 0
    /\ fireIn' = Interval
    /\ queued' = IF queued = NoTick THEN 0 ELSE queued
    /\ UNCHANGED <<recordVars, loopVars>>

\* The time the loop compares with is that of the firing, not its own.
Serve ==
    /\ phase = "wait" /\ queued # NoTick
    /\ phase' = "scan" /\ late' = queued /\ left' = TickTime
    /\ queued' = NoTick
    /\ UNCHANGED <<recordVars, fireIn, seen, missed>>

Cutoff(s) == IF s = "passed" THEN PassedGrace ELSE IdleCutoff

\* Mutant: passed attempts are left to their TTL.
Due_RunningOnly == record = "running" /\ stamp - late >= Cutoff(record)

Due == record # "none" /\ stamp - late >= Cutoff(record)

\* The Ping of a running attempt finds that its container is gone.
Dead == record = "running" /\ container = "none"

Scan ==
    /\ phase = "scan"
    /\ IF ~Dead /\ Due THEN phase' = "collect" /\ seen' = record /\ UNCHANGED missed
                       ELSE phase' = "others" /\ missed' = 0 /\ UNCHANGED seen
    /\ IF Dead THEN Ended ELSE UNCHANGED recordVars
    /\ UNCHANGED <<tickerVars, late, left>>

\* Terminate wants a running attempt and CleanupPassed a passed one, whatever
\* the record says by now otherwise.
Collect ==
    /\ phase = "collect"
    /\ IF record = seen THEN Ended ELSE UNCHANGED recordVars
    /\ phase' = "others" /\ seen' = "none" /\ missed' = 0
    /\ UNCHANGED <<tickerVars, late, left>>

\* Snapshot fails, or the first call of Terminate or CleanupPassed.
FailRound ==
    /\ phase \in {"scan", "collect"}
    /\ missed < MaxMissed
    /\ missed' = missed + 1
    /\ phase' = "others" /\ seen' = "none"
    /\ UNCHANGED <<recordVars, tickerVars, late, left>>

\* The round ends.
Rest ==
    /\ phase = "others"
    /\ phase' = "wait" /\ late' = 0 /\ left' = 0
    /\ UNCHANGED <<recordVars, tickerVars, seen, missed>>

\* A unit of time passes: firings, expiries and the loop are punctual, and a
\* tick takes no longer than TickTime.
Pass ==
    /\ fireIn > 0
    /\ record # "none" => life > 0
    /\ IF phase = "wait" THEN queued = NoTick ELSE left > 0
    /\ fireIn' = fireIn - 1
    /\ queued' = IF queued = NoTick THEN NoTick ELSE queued + 1
    /\ IF record = "none" THEN UNCHANGED <<stamp, life>>
                          ELSE stamp' = stamp + 1 /\ life' = life - 1
    /\ IF phase = "wait" THEN UNCHANGED <<late, left>>
                         ELSE late' = late + 1 /\ left' = left - 1
    /\ UNCHANGED <<container, record, phase, seen, missed>>

ClockNext ==
    \/ StartAttempt \/ Rewrite \/ Leave \/ ExpireRecord
    \/ Fire \/ Serve \/ Scan \/ Collect \/ FailRound \/ Rest
    \/ Pass

ClockSpec == ClockInit /\ [][ClockNext]_clockVars

-----------------------------------------------------------------------------
(***************************************************************************)
(* The record of a container that runs does not expire, so the collector   *)
(* will find it (DefaultTTL: twice the idle cutoff, so that a late         *)
(* collector does not make a record disappear).                            *)
(***************************************************************************)
NoneExpires == container = "up" => record # "none"

(***************************************************************************)
(* A container nobody uses is stopped within Slack of its cutoff, although *)
(* the ticker drops firings, the loop compares with the time of a firing   *)
(* that has waited, rounds fail, and handlers write while it looks.        *)
(***************************************************************************)
CollectedInTime == container = "up" => stamp < Cutoff(record) + Slack
=============================================================================
