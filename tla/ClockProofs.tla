---------------------------- MODULE ClockProofs ----------------------------
(***************************************************************************)
(* The collector comes in time, for every interval, cutoff, TTL and length *)
(* of a tick that ClockAssumption admits.                                  *)
(***************************************************************************)
EXTENDS ReaperClock, TLAPS

LEMMA ClockTypes == ClockSpec => []ClockTypeOK
<1>1. ClockInit => ClockTypeOK
  BY ClockAssumption DEF ClockInit, ClockTypeOK
<1>2. ClockTypeOK /\ [ClockNext]_clockVars => ClockTypeOK'
  <2> SUFFICES ASSUME ClockTypeOK, [ClockNext]_clockVars
               PROVE  ClockTypeOK'
    OBVIOUS
  <2> USE ClockAssumption DEF ClockTypeOK
  <2>1. CASE StartAttempt \/ Rewrite \/ Leave \/ ExpireRecord
    BY <2>1 DEF StartAttempt, Rewrite, Leave, ExpireRecord, PutRecord, Ended, tickerVars, loopVars
  <2>2. CASE Fire \/ Serve \/ Scan
    BY <2>2 DEF Fire, Serve, Scan, Ended, recordVars, loopVars, tickerVars, NoTick
  <2>3. CASE Collect \/ FailRound \/ Rest
    BY <2>3 DEF Collect, FailRound, Rest, Ended, recordVars, tickerVars
  <2>4. CASE Pass
    BY <2>4 DEF Pass, NoTick
  <2>5. CASE UNCHANGED clockVars
    BY <2>5 DEF clockVars
  <2> QED
    BY <2>1, <2>2, <2>3, <2>4, <2>5 DEF ClockNext
<1> QED
  BY <1>1, <1>2, PTL DEF ClockSpec

-----------------------------------------------------------------------------
\* The delay the rounds that may still fail add.
Spare == (MaxMissed - missed) * Round
AllMissed == MaxMissed * Round

LEMMA SpareFacts ==
    ASSUME ClockTypeOK
    PROVE  /\ Round \in Nat /\ AllMissed \in Nat /\ Spare \in Nat
           /\ Spare <= AllMissed
           /\ missed = 0 => Spare = AllMissed
           /\ missed < MaxMissed => (MaxMissed - (missed + 1)) * Round = Spare - Round
<1> DEFINE m == MaxMissed - missed
<1>1. m \in Nat /\ m <= MaxMissed /\ MaxMissed \in Nat /\ Round \in Nat
  BY ClockAssumption DEF ClockTypeOK, Round
<1>2. \A a, b, r \in Nat : a <= b => a * r \in Nat /\ a * r <= b * r
  <2> SUFFICES ASSUME NEW a \in Nat, NEW b \in Nat, NEW r \in Nat, a <= b
               PROVE  a * r \in Nat /\ a * r <= b * r
    OBVIOUS
  <2>1. b * r = a * r + (b - a) * r
    OBVIOUS
  <2>2. b - a \in Nat
    OBVIOUS
  <2>3. a * r \in Nat /\ (b - a) * r \in Nat
    BY <2>2
  <2> QED
    BY <2>1, <2>3
<1>3. \A a, r \in Nat : a > 0 => (a - 1) * r = a * r - r
  OBVIOUS
<1>4. Spare \in Nat /\ Spare <= AllMissed /\ AllMissed \in Nat
  BY <1>1, <1>2 DEF Spare, AllMissed
<1>5. missed = 0 => Spare = AllMissed
  BY <1>1 DEF Spare, AllMissed
<1>6. missed < MaxMissed => (MaxMissed - (missed + 1)) * Round = Spare - Round
  <2> SUFFICES ASSUME missed < MaxMissed
               PROVE  (MaxMissed - (missed + 1)) * Round = Spare - Round
    OBVIOUS
  <2>1. m > 0 /\ MaxMissed - (missed + 1) = m - 1
    BY ClockAssumption DEF ClockTypeOK
  <2> QED
    BY <1>1, <1>3, <2>1 DEF Spare
<1> QED
  BY <1>1, <1>4, <1>5, <1>6

-----------------------------------------------------------------------------
(***************************************************************************)
(* How far past its cutoff the attempt is, and for how long the collector  *)
(* can still leave it there: the round that will find it, when the firing  *)
(* it goes by is late enough, or the one after, each with the rounds that  *)
(* may fail first.                                                         *)
(***************************************************************************)
Past == stamp - Cutoff(record)

Soonest ==
    IF phase = "wait"
    THEN IF queued = NoTick THEN fireIn + TickTime + Spare
         ELSE IF Past >= queued THEN TickTime + Spare
         ELSE Interval + 2 * TickTime + AllMissed
    ELSE IF Past < late
    THEN left + AllMissed +
         (IF queued = NoTick THEN fireIn + TickTime
          ELSE IF Past >= queued THEN TickTime
          ELSE Interval + 2 * TickTime)
    ELSE IF phase = "others"
    THEN left + TickTime + Spare + (IF queued = NoTick THEN fireIn ELSE 0)
    ELSE left + Spare

InTime == container = "up" => stamp + life >= TTL /\ Past + Soonest < Slack

ClockInv ==
    /\ container = "up" => record # "none"
    /\ InTime
    /\ phase # "wait" => queued <= late
    /\ phase = "collect" /\ container = "up" => Past < late \/ seen = record

\* What the bounds are made of, in integers, so that the steps need no products.
LEMMA ClockNumbers ==
    ASSUME ClockTypeOK
    PROVE  /\ Past \in Int /\ Spare \in Nat /\ AllMissed \in Nat /\ Spare <= AllMissed
           /\ Round = Interval + TickTime
           /\ Slack = Interval + 3 * TickTime + AllMissed
           /\ Interval \in Nat /\ Interval > 0 /\ TickTime \in Nat /\ TTL \in Nat
           /\ Past = stamp - Cutoff(record) /\ Cutoff(record) \in Nat
           /\ Cutoff(record) + Slack <= TTL
<1> QED
  BY ClockAssumption, SpareFacts DEF ClockTypeOK, Past, Cutoff, Round, Slack, AllMissed

LEMMA HandlersKeepTime ==
    ASSUME ClockTypeOK, ClockTypeOK', ClockInv,
           StartAttempt \/ Rewrite \/ Leave \/ ExpireRecord
    PROVE  ClockInv'
<1> USE ClockAssumption DEF ClockTypeOK
<1>1. CASE StartAttempt \/ (Rewrite /\ stamp' \in 0 .. WriteTime)
  <2>1. /\ record' # "none" /\ life' = TTL /\ container' = "up" /\ stamp' \in 0 .. WriteTime
        /\ UNCHANGED <<fireIn, queued, phase, late, left, missed>>
    BY <1>1 DEF StartAttempt, Rewrite, PutRecord, ClockInv, tickerVars, loopVars
  <2>2. Past' < 0 /\ Past' \in Int
    <3>1. \A s : Cutoff(s) \in Nat /\ WriteTime < Cutoff(s)
      BY DEF Cutoff
    <3>2. Past' = stamp' - Cutoff(record')
      BY DEF Past
    <3> QED
      BY <2>1, <3>1, <3>2
  <2>3. Spare' = Spare
    BY <2>1 DEF Spare
  <2>4. Soonest' <= Slack /\ Soonest' \in Int
    <3> HIDE DEF Past
    <3> QED
      BY <2>1, <2>2, <2>3, ClockNumbers DEF Soonest, NoTick
  <2>5. Past' < late' /\ late' = late
    BY <2>1, <2>2
  <2>7. Past' + Soonest' < Slack
    BY <2>2, <2>4, ClockNumbers
  <2>8. InTime'
    <3>0. \A a, b \in Nat : a + b >= b
      OBVIOUS
    <3>1. stamp' + TTL >= TTL /\ life' = TTL
      BY <2>1, <3>0
    <3> QED
      BY <2>7, <3>1 DEF InTime
  <2> QED
    BY <2>1, <2>5, <2>8 DEF ClockInv
<1>2. CASE Rewrite /\ stamp' \notin 0 .. WriteTime
  <2>1. /\ record = "passed" /\ record' = "passed" /\ stamp' = stamp /\ life' = TTL
        /\ UNCHANGED <<container, fireIn, queued, phase, late, left, seen, missed>>
    BY <1>2 DEF Rewrite, PutRecord, tickerVars, loopVars
  <2>2. Past' = Past /\ Soonest' = Soonest
    BY <2>1 DEF Past, Soonest, Spare
  <2> QED
    BY <2>1, <2>2 DEF ClockInv, InTime
<1>3. CASE Leave
  BY <1>3 DEF Leave, Ended, ClockInv, InTime, tickerVars, loopVars
<1>4. CASE ExpireRecord /\ container = "none"
  BY <1>4 DEF ExpireRecord, ClockInv, InTime, tickerVars, loopVars
<1>5. CASE ExpireRecord /\ container = "up"
  <2>1. stamp >= TTL /\ Past + Soonest < Slack
    BY <1>5 DEF ExpireRecord, ClockInv, InTime
  <2>2. Soonest \in Nat
    <3> HIDE DEF Past
    <3> QED
      BY ClockNumbers DEF Soonest, NoTick
  <2>3. Past >= Slack
    BY <2>1, ClockNumbers
  <2> QED
    BY <2>1, <2>2, <2>3, ClockNumbers
<1> QED
  BY <1>1, <1>2, <1>3, <1>4, <1>5

LEMMA TickerKeepsTime ==
    ASSUME ClockTypeOK, ClockTypeOK', ClockInv, Fire \/ Serve
    PROVE  ClockInv'
<1> USE ClockNumbers DEF ClockTypeOK
<1>0. UNCHANGED recordVars /\ UNCHANGED <<seen, missed>> /\ Past' = Past /\ Spare' = Spare
  BY DEF Fire, Serve, recordVars, loopVars, Past, Spare
<1>1. CASE Fire
  <2>1. container = "up" => Past + Soonest' < Slack
    <3>1. /\ fireIn = 0 /\ fireIn' = Interval
          /\ queued' = IF queued = NoTick THEN 0 ELSE queued
          /\ UNCHANGED <<phase, late, left>>
      BY <1>1 DEF Fire, loopVars
    <3> QED
      BY <1>0, <3>1 DEF ClockInv, InTime, Soonest, NoTick
  <2> QED
    BY <1>0, <1>1, <2>1 DEF Fire, loopVars, recordVars, ClockInv, InTime, NoTick
<1>2. CASE Serve
  <2>1. container = "up" => Past + Soonest' < Slack
    BY <1>0, <1>2 DEF Serve, ClockInv, InTime, Soonest, NoTick
  <2> QED
    BY <1>0, <1>2, <2>1 DEF Serve, recordVars, ClockInv, InTime, NoTick
<1> QED
  BY <1>1, <1>2

LEMMA LoopKeepsTime ==
    ASSUME ClockTypeOK, ClockTypeOK', ClockInv, Scan \/ Collect \/ FailRound \/ Rest
    PROVE  ClockInv'
<1> USE ClockNumbers DEF ClockTypeOK
<1>1. CASE Scan
  <2>1. /\ phase = "scan" /\ UNCHANGED tickerVars /\ UNCHANGED <<late, left>>
        /\ container' = "up" => container = "up" /\ UNCHANGED recordVars /\ Past' = Past
    BY <1>1 DEF Scan, Dead, Ended, recordVars, Past
  <2>2. container = "up" => ~Dead /\ (Due <=> (record # "none" /\ Past >= late))
    BY DEF Due, Dead
  <2>3. CASE container' = "none"
    BY <1>1, <2>1, <2>3 DEF Scan, ClockInv, InTime, tickerVars
  <2>4. CASE container' = "up" /\ Due
    <3>1. phase' = "collect" /\ seen' = record /\ Spare' = Spare
      BY <1>1, <2>1, <2>2, <2>4 DEF Scan, Spare
    <3>2. Soonest' = Soonest
      BY <2>1, <2>4, <3>1 DEF Soonest, tickerVars
    <3> QED
      BY <2>1, <2>4, <3>1, <3>2 DEF ClockInv, InTime, recordVars, tickerVars
  <2>5. CASE container' = "up" /\ ~Due
    <3>1. phase' = "others" /\ Past < late
      BY <1>1, <2>1, <2>2, <2>5 DEF Scan, ClockInv
    <3>2. Soonest' = Soonest
      BY <2>1, <2>5, <3>1 DEF Soonest, tickerVars
    <3> QED
      BY <2>1, <2>5, <3>1, <3>2 DEF ClockInv, InTime, recordVars, tickerVars
  <2> QED
    BY <2>3, <2>4, <2>5
<1>2. CASE Collect
  <2>1. /\ phase = "collect" /\ phase' = "others"
        /\ UNCHANGED tickerVars /\ UNCHANGED <<late, left>>
    BY <1>2 DEF Collect
  <2>2. CASE container' = "none"
    BY <1>2, <2>1, <2>2 DEF Collect, ClockInv, InTime, tickerVars
  <2>3. CASE container' = "up"
    <3>1. UNCHANGED recordVars /\ Past' = Past /\ Past < late
      BY <1>2, <2>1, <2>3 DEF Collect, Ended, recordVars, Past, ClockInv
    <3>2. Soonest' = Soonest
      BY <2>1, <3>1 DEF Soonest, tickerVars
    <3> QED
      BY <2>1, <3>1, <3>2 DEF ClockInv, InTime, recordVars, tickerVars
  <2> QED
    BY <2>2, <2>3
<1>3. CASE FailRound
  <2>1. /\ phase \in {"scan", "collect"} /\ phase' = "others"
        /\ UNCHANGED recordVars /\ UNCHANGED tickerVars /\ UNCHANGED <<late, left>>
        /\ Past' = Past
    BY <1>3 DEF FailRound, recordVars, Past
  <2>2. Spare' = Spare - Round
    BY <1>3, SpareFacts DEF FailRound, Spare
  <2>3. container = "up" => Past + Soonest' < Slack
    BY <2>1, <2>2 DEF ClockInv, InTime, Soonest, tickerVars, NoTick
  <2> QED
    BY <2>1, <2>3 DEF ClockInv, InTime, recordVars, tickerVars
<1>4. CASE Rest
  <2>1. /\ phase = "others" /\ phase' = "wait"
        /\ UNCHANGED recordVars /\ UNCHANGED tickerVars
        /\ Past' = Past /\ Spare' = Spare
    BY <1>4 DEF Rest, recordVars, Past, Spare
  <2>2. container = "up" => Past + Soonest' < Slack
    BY <2>1 DEF ClockInv, InTime, Soonest, tickerVars, NoTick
  <2> QED
    BY <2>1, <2>2 DEF ClockInv, InTime, recordVars
<1> QED
  BY <1>1, <1>2, <1>3, <1>4

LEMMA PassingKeepsTime ==
    ASSUME ClockTypeOK, ClockTypeOK', ClockInv, Pass
    PROVE  ClockInv'
<1> USE ClockNumbers DEF ClockTypeOK
<1>1. UNCHANGED <<container, record, phase, seen, missed>> /\ Spare' = Spare
  BY DEF Pass, Spare
<1>2. CASE container = "none"
  BY <1>1, <1>2 DEF Pass, ClockInv, InTime, NoTick
<1>3. CASE container = "up"
  <2>0. record # "none"
    BY <1>3 DEF ClockInv
  <2>1. stamp' = stamp + 1 /\ life' = life - 1 /\ Past' = Past + 1
    BY <1>1, <2>0 DEF Pass, Past, Cutoff
  <2>2. Past' + Soonest' <= Past + Soonest
    <3>1. CASE phase = "wait"
      BY <1>1, <2>1, <3>1 DEF Pass, Soonest, NoTick
    <3>2. CASE phase # "wait"
      BY <1>1, <2>1, <3>2 DEF Pass, Soonest, NoTick
    <3> QED
      BY <3>1, <3>2
  <2>3. Soonest \in Int /\ Soonest' \in Int
    BY <1>1, <2>1 DEF Soonest
  <2> QED
    BY <1>1, <1>3, <2>0, <2>1, <2>2, <2>3 DEF Pass, ClockInv, InTime, NoTick
<1> QED
  BY <1>2, <1>3

LEMMA ClockInvariance == ClockSpec => [](ClockTypeOK /\ ClockInv)
<1>1. ClockInit => ClockInv
  BY DEF ClockInit, ClockInv, InTime
<1>2. ClockTypeOK /\ ClockTypeOK' /\ ClockInv /\ [ClockNext]_clockVars => ClockInv'
  <2> SUFFICES ASSUME ClockTypeOK, ClockTypeOK', ClockInv, [ClockNext]_clockVars
               PROVE  ClockInv'
    OBVIOUS
  <2>1. CASE UNCHANGED clockVars
    BY <2>1 DEF clockVars, ClockInv, InTime, Past, Soonest, Spare
  <2> QED
    BY <2>1, HandlersKeepTime, TickerKeepsTime, LoopKeepsTime, PassingKeepsTime DEF ClockNext
<1>3. ClockSpec => []ClockTypeOK
  BY ClockTypes
<1> QED
  BY <1>1, <1>2, <1>3, PTL DEF ClockSpec

\* The record of a container that runs does not expire before the collector
\* has taken it (attempt_store.go:44, gcserver.go:172).
THEOREM RecordsOutliveTheCollector == ClockSpec => []NoneExpires
<1>1. ClockInv => NoneExpires
  BY DEF ClockInv, NoneExpires
<1> QED
  BY <1>1, ClockInvariance, PTL

\* A container nobody uses is stopped within Slack of its cutoff.
THEOREM TheCollectorComesInTime == ClockSpec => []CollectedInTime
<1>1. ClockTypeOK /\ ClockInv => CollectedInTime
  <2> SUFFICES ASSUME ClockTypeOK, ClockInv, container = "up"
               PROVE  stamp < Cutoff(record) + Slack
    BY DEF CollectedInTime
  <2>1. Past + Soonest < Slack
    BY DEF ClockInv, InTime
  <2>2. Soonest \in Nat
    <3> HIDE DEF Past
    <3> QED
      BY ClockNumbers DEF Soonest, NoTick, ClockTypeOK
  <2>3. stamp - Cutoff(record) < Slack
    BY <2>1, <2>2, ClockNumbers
  <2> QED
    BY <2>3, ClockNumbers DEF ClockTypeOK
<1> QED
  BY <1>1, ClockInvariance, PTL
====
