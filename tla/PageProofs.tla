----------------------------- MODULE PageProofs -----------------------------
(***************************************************************************)
(* What the page shows is of its own scenario and was said by the service, *)
(* for any scenarios, attempts, clicks and answers lost or late; and an    *)
(* answer of the bundle with a machine of its own is about its own check.  *)
(***************************************************************************)
EXTENDS MCPage, SequenceTheorems, TLAPS

-----------------------------------------------------------------------------
(* Sequences of requests.                                                  *)

LEMMA SentSeq ==
    ASSUME NEW S, NEW n \in Seq(S), NEW req \in S,
           \A r \in S : [r EXCEPT !.heard = FALSE] \in S
    PROVE  Sent(n, req) \in Seq(S)
<1> DEFINE m == [k \in DOMAIN n |->
                   IF req.here /\ n[k].here /\ n[k].kind = req.kind
                   THEN [n[k] EXCEPT !.heard = FALSE] ELSE n[k]]
<1>1. n \in [1 .. Len(n) -> S] /\ Len(n) \in Nat /\ DOMAIN n = 1 .. Len(n)
  BY LenProperties
<1>2. \A k \in 1 .. Len(n) : n[k] \in S /\ [n[k] EXCEPT !.heard = FALSE] \in S
  BY <1>1
<1>3. m \in [1 .. Len(n) -> S]
  BY <1>1, <1>2
<1>4. m \in Seq(S)
  BY <1>1, <1>3
<1>5. Sent(n, req) = Append(m, req)
  BY DEF Sent
<1> HIDE DEF m
<1> QED
  BY <1>4, <1>5, AppendProperties

LEMMA SilencedSeq ==
    ASSUME NEW S, NEW n \in Seq(S), \A r \in S : Unheard(r) \in S
    PROVE  Silenced(n) \in Seq(S)
<1>1. n \in [1 .. Len(n) -> S] /\ Len(n) \in Nat /\ DOMAIN n = 1 .. Len(n)
  BY LenProperties
<1>2. Silenced(n) \in [1 .. Len(n) -> S]
  BY <1>1 DEF Silenced
<1> QED
  BY <1>1, <1>2

LEMMA DroppedSeq ==
    ASSUME NEW S, NEW n \in Seq(S), NEW k \in DOMAIN n
    PROVE  RemoveAt(n, k) \in Seq(S)
<1>1. Len(n) \in Nat /\ k \in 1 .. Len(n) /\ \A i \in 1 .. Len(n) : n[i] \in S
  BY LenProperties, ElementOfSeq
<1>2. SubSeq(n, 1, k - 1) \in Seq(S)
  <2>1. \A i \in 1 .. k - 1 : n[i] \in S
    BY <1>1
  <2> QED
    BY <1>1, <2>1, SubSeqProperties
<1>3. SubSeq(n, k + 1, Len(n)) \in Seq(S)
  <2>1. \A i \in k + 1 .. Len(n) : n[i] \in S
    BY <1>1
  <2> QED
    BY <1>1, <2>1, SubSeqProperties
<1> QED
  BY <1>2, <1>3, ConcatProperties DEF RemoveAt

LEMMA WiderSeq ==
    ASSUME NEW S, NEW T, S \subseteq T, NEW n \in Seq(S)
    PROVE  n \in Seq(T)
<1>1. n \in [1 .. Len(n) -> S] /\ Len(n) \in Nat
  BY LenProperties
<1>2. n \in [1 .. Len(n) -> T]
  BY <1>1
<1> QED
  BY <1>1, <1>2

-----------------------------------------------------------------------------
(* The invariant.                                                          *)

\* An attempt the service has issued.
Known(i) == i \in Id /\ rows[i].status # "none"
Solved(i) == i \in Id /\ rows[i].solved

\* A mutation in flight is of an attempt the service knows; an answer that
\* says passed is true.
Honest(r) ==
    /\ r.kind # "start" \/ r.ans = "running" => Known(r.id)
    /\ r.ans = "passed" => Solved(r.id)
    /\ r.kind = "terminate" => r.ans # "failed"

HonestRequest == {r \in Request : Honest(r)}

Service ==
    /\ rows \in [Id -> Row]
    /\ \A i \in Id : rows[i].status = "passed" => rows[i].solved

\* What the tab has been told by the poll.
Hears ==
    /\ seen \in [Id -> Statuses \cup {"none"}]
    /\ \A i \in Id : seen[i] = "passed" => Solved(i)
    /\ poll \in Fetch \cup {NoFetch}
    /\ poll # NoFetch => Known(poll.id) /\ (poll.ans = "passed" => Solved(poll.id))

Shown ==
    /\ cur.id # NoId => Known(cur.id)
    /\ cur.status # "none" => cur.id # NoId
    /\ cur.status = "passed" => Solved(cur.id) \/ Misplaced
    /\ page # NoPage /\ cur.id # NoId => cur.slug = page \/ stray

TabTypeOK == page \in Slug \cup {NoPage} /\ cur \in Held /\ stray \in BOOLEAN

PageInv == Service /\ Hears /\ TabTypeOK /\ Shown /\ net \in Seq(HonestRequest)

LEMMA PageInitInv == PageInit => PageInv
<1> SUFFICES ASSUME PageInit PROVE PageInv
  OBVIOUS
<1> USE PageAssumption
<1>1. Service
  <2>1. Unissued \in Row /\ Unissued.status = "none"
    BY DEF Unissued, Row
  <2> QED
    BY <2>1 DEF PageInit, Service
<1>2. Hears
  BY DEF PageInit, Hears
<1>3. TabTypeOK /\ Shown
  <2>1. Blank \in Held /\ Blank.id = NoId /\ Blank.status = "none"
    BY DEF Blank, Held, NoId
  <2> QED
    BY <2>1 DEF PageInit, TabTypeOK, Shown
<1>4. net \in Seq(HonestRequest)
  BY EmptySeq DEF PageInit
<1> QED
  BY <1>1, <1>2, <1>3, <1>4 DEF PageInv

-----------------------------------------------------------------------------
(* The service.                                                            *)

\* How a row may go on: issued stays issued, solved stays solved, passed is
\* solved.
GoesOn(r, q) ==
    /\ q \in Row
    /\ r.status # "none" => q.status # "none"
    /\ r.solved => q.solved
    /\ q.status = "passed" => q.solved

RowsGoOn == rows' \in [Id -> Row] /\ \A i \in Id : GoesOn(rows[i], rows'[i])

LEMMA RowsGrow ==
    ASSUME RowsGoOn
    PROVE  /\ Service'
           /\ \A i : (Known(i) => Known(i)') /\ (Solved(i) => Solved(i)')
           /\ HonestRequest \subseteq HonestRequest'
<1>1. Service'
  BY DEF RowsGoOn, GoesOn, Service
<1>2. \A i : Known(i) => Known(i)'
  BY DEF RowsGoOn, GoesOn, Known
<1>3. \A i : Solved(i) => Solved(i)'
  BY DEF RowsGoOn, GoesOn, Solved
<1>4. HonestRequest \subseteq HonestRequest'
  BY <1>2, <1>3 DEF HonestRequest, Honest
<1> QED
  BY <1>1, <1>2, <1>3, <1>4

\* A row that stays, is terminated, or gives its container back.
LEMMA RowSteps ==
    ASSUME NEW r \in Row, r.status = "passed" => r.solved
    PROVE  /\ GoesOn(r, r)
           /\ GoesOn(r, Terminated(r))
           /\ GoesOn(r, [r EXCEPT !.box = FALSE])
           /\ GoesOn(r, [r EXCEPT !.box = FALSE, !.cached = FALSE])
           /\ GoesOn(r, [r EXCEPT !.status = "passed", !.solved = TRUE])
<1>1. GoesOn(r, r)
  BY DEF GoesOn
<1>2. GoesOn(r, Terminated(r))
  BY DEF GoesOn, Terminated, Row, Statuses
<1>3. GoesOn(r, [r EXCEPT !.box = FALSE])
  BY DEF GoesOn, Row
<1>4. GoesOn(r, [r EXCEPT !.box = FALSE, !.cached = FALSE])
  BY DEF GoesOn, Row
<1>5. GoesOn(r, [r EXCEPT !.status = "passed", !.solved = TRUE])
  BY DEF GoesOn, Row, Statuses
<1> QED
  BY <1>1, <1>2, <1>3, <1>4, <1>5

\* One row goes on.
LEMMA OneRow ==
    ASSUME Service, NEW i, NEW q, rows' = [rows EXCEPT ![i] = q], i \in Id => GoesOn(rows[i], q)
    PROVE  RowsGoOn
<1>1. \A j \in Id : GoesOn(rows[j], rows[j])
  BY RowSteps DEF Service
<1>2. \A j \in Id : rows'[j] = IF j = i THEN q ELSE rows[j]
  BY DEF Service
<1>3. \A j \in Id : GoesOn(rows[j], rows'[j])
  BY <1>1, <1>2
<1>4. rows' \in [Id -> Row]
  BY <1>3 DEF Service, GoesOn
<1> QED
  BY <1>3, <1>4 DEF RowsGoOn

LEMMA RowsStay ==
    ASSUME Service, rows' = rows
    PROVE  RowsGoOn
<1>1. \A j \in Id : GoesOn(rows[j], rows[j])
  BY RowSteps DEF Service
<1> QED
  BY <1>1 DEF Service, RowsGoOn

\* A step of the service or of the network: what it has to show.
LEMMA ServiceStep ==
    ASSUME PageInv, RowsGoOn, UNCHANGED <<page, cur, poll, seen, stray>>,
           net' \in Seq(HonestRequest')
    PROVE  PageInv'
<1>1. /\ Service'
      /\ \A i : (Known(i) => Known(i)') /\ (Solved(i) => Solved(i)')
  BY RowsGrow
<1>2. Hears'
  BY <1>1 DEF PageInv, Hears
<1>3. TabTypeOK'
  BY DEF PageInv, TabTypeOK
<1>4. Misplaced => Misplaced'
  BY <1>1 DEF Misplaced, Solved
<1>5. Shown'
  BY <1>1, <1>4 DEF PageInv, Shown
<1> QED
  BY <1>1, <1>2, <1>3, <1>5 DEF PageInv

\* A step of the page.
LEMMA TabStep ==
    ASSUME PageInv, UNCHANGED <<rows, poll, seen>>, TabTypeOK', Shown',
           net' \in Seq(HonestRequest)
    PROVE  PageInv'
<1>1. Service' /\ Hears'
  BY DEF PageInv, Service, Hears, Known, Solved
<1>2. HonestRequest' = HonestRequest
  BY DEF HonestRequest, Honest, Known, Solved
<1> QED
  BY <1>1, <1>2 DEF PageInv

\* The requests in flight, one by one.
LEMMA InFlight ==
    ASSUME PageInv, NEW k \in DOMAIN net
    PROVE  net[k] \in Request /\ Honest(net[k]) /\ k \in 1 .. Len(net)
<1>1. k \in 1 .. Len(net)
  BY LenProperties DEF PageInv
<1>2. net[k] \in HonestRequest
  BY <1>1, ElementOfSeq DEF PageInv
<1> QED
  BY <1>1, <1>2 DEF HonestRequest

\* A request that was answered.
LEMMA AnswerKeeps ==
    ASSUME PageInv, RowsGoOn, NEW k \in DOMAIN net, NEW q \in Request, Honest(q)',
           net' = [net EXCEPT ![k] = q]
    PROVE  net' \in Seq(HonestRequest')
<1>1. net \in Seq(HonestRequest')
  BY RowsGrow, WiderSeq DEF PageInv
<1>2. q \in HonestRequest'
  BY DEF HonestRequest
<1> QED
  BY <1>1, <1>2, InFlight, ExceptSeq

LEMMA AnsweredKeeps ==
    ASSUME PageInv, RowsGoOn, NEW k \in DOMAIN net, NEW i, i = net[k].id,
           NEW ans \in {"passed", "terminated", "failed", "error"}, Answered(k, ans),
           ans = "passed" => Solved(i)', net[k].kind = "terminate" => ans # "failed"
    PROVE  net' \in Seq(HonestRequest')
<1>1. net[k] \in Request /\ Honest(net[k])
  BY InFlight
<1>2. PICK q \in Request : /\ q = [net[k] EXCEPT !.ans = ans]
                          /\ q.ans = ans /\ q.kind = net[k].kind /\ q.id = i
  <2> DEFINE p == [net[k] EXCEPT !.ans = ans]
  <2>1. p \in Request /\ p.ans = ans /\ p.kind = net[k].kind /\ p.id = net[k].id
    BY <1>1 DEF Request, Statuses
  <2> QED
    BY <2>1
<1>3. net' = [net EXCEPT ![k] = q]
  BY <1>2 DEF Answered
<1>4. q.kind # "start" => Known(q.id)
  BY <1>1, <1>2 DEF Honest
<1>5. (q.kind # "start" => Known(q.id)') /\ (q.ans = "passed" => Solved(q.id)')
  BY <1>2, <1>4, RowsGrow
<1>6. Honest(q)'
  BY <1>2, <1>5 DEF Honest
<1> QED
  BY <1>3, <1>6, AnswerKeeps

\* Start's answer.
LEMMA StartedKeeps ==
    ASSUME PageInv, RowsGoOn, NEW k \in DOMAIN net, NEW i \in Id, Known(i)', net[k].kind = "start",
           net' = [net EXCEPT ![k].id = i, ![k].ans = "running"]
    PROVE  net' \in Seq(HonestRequest')
<1>1. net[k] \in Request
  BY InFlight
<1>2. PICK q \in Request : /\ q = [net[k] EXCEPT !.id = i, !.ans = "running"]
                          /\ q.ans = "running" /\ q.kind = "start" /\ q.id = i
  <2> DEFINE p == [net[k] EXCEPT !.id = i, !.ans = "running"]
  <2>1. p \in Request /\ p.ans = "running" /\ p.kind = "start" /\ p.id = i
    BY <1>1 DEF Request, Statuses
  <2> QED
    BY <2>1
<1>3. net' = [net EXCEPT ![k] = q]
  BY <1>2
<1>4. Honest(q)'
  BY <1>2 DEF Honest
<1> QED
  BY <1>3, <1>4, AnswerKeeps

LEMMA ServeStartInv ==
    ASSUME PageInv, NEW k \in DOMAIN net, ServeStart(k),
           UNCHANGED <<page, cur, poll, seen, stray>>
    PROVE  PageInv'
<1> DEFINE s == net[k].slug
<1>1. net[k].kind = "start" /\ Service
  BY DEF ServeStart, PageInv
<1>2. s \in Slug \cup {NoPage}
  BY InFlight DEF Request
<1>3. /\ Ended(s) \in [Id -> Row]
      /\ \A j \in Id : GoesOn(rows[j], Ended(s)[j])
  <2>1. \A j \in Id : GoesOn(rows[j], rows[j]) /\ GoesOn(rows[j], Terminated(rows[j]))
    BY <1>1, RowSteps DEF Service
  <2>2. \A j \in Id : Ended(s)[j] = rows[j] \/ Ended(s)[j] = Terminated(rows[j])
    BY DEF Ended
  <2>3. \A j \in Id : GoesOn(rows[j], Ended(s)[j])
    BY <2>1, <2>2
  <2> QED
    BY <2>3 DEF Ended, GoesOn
<1>4. ASSUME NEW i \in Reusable(s), net' = [net EXCEPT ![k].id = i, ![k].ans = "running"], rows' = rows
      PROVE  PageInv'
  <2>1. RowsGoOn
    BY <1>1, <1>4, RowsStay
  <2>2. i \in Id /\ Known(i)
    BY DEF Reusable, Listed, Known
  <2>3. Known(i)'
    BY <2>1, <2>2, RowsGrow
  <2>4. net' \in Seq(HonestRequest')
    BY <1>1, <1>4, <2>1, <2>2, <2>3, StartedKeeps
  <2> QED
    BY <2>1, <2>4, ServiceStep
<1>5. ASSUME NEW i \in NextId, rows' = [Ended(s) EXCEPT ![i] = Issued(s)],
             net' = [net EXCEPT ![k].id = i, ![k].ans = "running"]
      PROVE  PageInv'
  <2>1. i \in Id /\ rows[i] = Unissued
    BY DEF NextId
  <2>2. Issued(s) \in Row /\ Issued(s).status = "running"
    BY <1>2 DEF Issued, Row, Statuses
  <2>3. GoesOn(rows[i], Issued(s))
    BY <2>1, <2>2 DEF GoesOn, Unissued
  <2> HIDE DEF s
  <2>4. \A j \in Id : rows'[j] = IF j = i THEN Issued(s) ELSE Ended(s)[j]
    BY <1>3, <1>5
  <2>5. RowsGoOn
    <3>1. \A j \in Id : GoesOn(rows[j], rows'[j])
      BY <1>3, <2>3, <2>4
    <3>2. rows' \in [Id -> Row]
      BY <1>3, <1>5, <2>2
    <3> QED
      BY <3>1, <3>2 DEF RowsGoOn
  <2>6. Known(i)'
    BY <2>1, <2>2, <2>4 DEF Known
  <2>7. net' \in Seq(HonestRequest')
    BY <1>1, <1>5, <2>1, <2>5, <2>6, StartedKeeps
  <2> QED
    BY <2>5, <2>7, ServiceStep
<1>6. CASE rows' = Ended(s) /\ Answered(k, "error")
  <2>1. RowsGoOn
    BY <1>3, <1>6 DEF RowsGoOn
  <2>2. net' \in Seq(HonestRequest')
    BY <1>1, <1>6, <2>1, AnsweredKeeps
  <2> QED
    BY <2>1, <2>2, ServiceStep
<1> QED
  BY <1>4, <1>5, <1>6 DEF ServeStart

LEMMA ServeCheckInv ==
    ASSUME PageInv, NEW k \in DOMAIN net, ServeCheck(k),
           UNCHANGED <<page, cur, poll, seen, stray>>
    PROVE  PageInv'
<1>0. PICK i : i = net[k].id
  OBVIOUS
<1>1. net[k].kind = "check" /\ Service
  BY DEF ServeCheck, PageInv
<1>2. Known(i)
  BY <1>0, <1>1, InFlight DEF Honest
<1>3. ASSUME NEW ans \in {"failed", "error"}, Answered(k, ans), rows' = rows
      PROVE  PageInv'
  <2>1. RowsGoOn
    BY <1>1, <1>3, RowsStay
  <2>2. net' \in Seq(HonestRequest')
    BY <1>0, <1>1, <1>3, <2>1, AnsweredKeeps
  <2> QED
    BY <2>1, <2>2, ServiceStep
<1>4. CASE /\ rows' = [rows EXCEPT ![i].status = "passed", ![i].solved = TRUE]
           /\ Answered(k, "passed")
  <2> DEFINE q == [rows[i] EXCEPT !.status = "passed", !.solved = TRUE]
  <2>1. i \in Id /\ rows[i] \in Row /\ (rows[i].status = "passed" => rows[i].solved)
    BY <1>1, <1>2 DEF Known, Service
  <2>2. GoesOn(rows[i], q) /\ q.solved
    BY <2>1, RowSteps DEF Row
  <2>3. rows' = [rows EXCEPT ![i] = q]
    BY <1>4
  <2> HIDE DEF q
  <2>4. RowsGoOn
    BY <1>1, <2>2, <2>3, OneRow
  <2>5. Solved(i)'
    BY <1>1, <2>1, <2>2, <2>3 DEF Solved, Service
  <2>6. net' \in Seq(HonestRequest')
    BY <1>0, <1>1, <1>4, <2>4, <2>5, AnsweredKeeps
  <2> QED
    BY <2>4, <2>6, ServiceStep
<1> QED
  BY <1>0, <1>3, <1>4 DEF ServeCheck

LEMMA ServeTerminateInv ==
    ASSUME PageInv, NEW k \in DOMAIN net, ServeTerminate(k),
           UNCHANGED <<page, cur, poll, seen, stray>>
    PROVE  PageInv'
<1>0. PICK i : i = net[k].id
  OBVIOUS
<1>1. net[k].kind = "terminate" /\ Service
  BY DEF ServeTerminate, PageInv
<1>2. Known(i) /\ i \in Id /\ rows[i] \in Row /\ (rows[i].status = "passed" => rows[i].solved)
  BY <1>0, <1>1, InFlight DEF Honest, Known, Service
<1>3. CASE rows[i].status # "running"
  <2>1. RowsGoOn
    BY <1>0, <1>1, <1>3, RowsStay DEF ServeTerminate
  <2>2. rows[i].status \in {"passed", "terminated"} /\ Answered(k, rows[i].status)
    BY <1>0, <1>2, <1>3 DEF ServeTerminate, Known, Row, Statuses
  <2>3. rows[i].status = "passed" => Solved(i)'
    BY <1>2, <2>1, RowsGrow DEF Solved
  <2>4. net' \in Seq(HonestRequest')
    BY <1>0, <1>1, <2>1, <2>2, <2>3, AnsweredKeeps
  <2> QED
    BY <2>1, <2>4, ServiceStep
<1>4. CASE rows[i].status = "running"
  <2>1. rows' = [rows EXCEPT ![i] = Terminated(rows[i])] /\ Answered(k, "terminated")
    BY <1>0, <1>4 DEF ServeTerminate
  <2>2. RowsGoOn
    BY <1>1, <1>2, <2>1, OneRow, RowSteps
  <2>3. net' \in Seq(HonestRequest')
    BY <1>0, <1>1, <2>1, <2>2, AnsweredKeeps
  <2> QED
    BY <2>2, <2>3, ServiceStep
<1> QED
  BY <1>3, <1>4

LEMMA ServeInv ==
    ASSUME PageInv, NEW k \in DOMAIN net, Serve(k)
    PROVE  PageInv'
BY ServeStartInv, ServeCheckInv, ServeTerminateInv DEF Serve

-----------------------------------------------------------------------------
(* The collector, the containers and the network.                          *)

LEMMA CollectInv ==
    ASSUME PageInv, NEW i \in Id, Collect(i) \/ Kill(i)
    PROVE  PageInv'
<1>1. Service /\ rows[i] \in Row /\ (rows[i].status = "passed" => rows[i].solved)
  BY DEF PageInv, Service
<1>2. PICK q : GoesOn(rows[i], q) /\ rows' = [rows EXCEPT ![i] = q]
  <2>1. CASE Collect(i)
    <3>1. GoesOn(rows[i], Terminated(rows[i]))
      BY <1>1, RowSteps
    <3>2. GoesOn(rows[i], [rows[i] EXCEPT !.box = FALSE, !.cached = FALSE])
      BY <1>1, RowSteps
    <3> QED
      BY <2>1, <3>1, <3>2 DEF Collect
  <2>2. CASE Kill(i)
    <3>1. GoesOn(rows[i], [rows[i] EXCEPT !.box = FALSE])
      BY <1>1, RowSteps
    <3> QED
      BY <2>2, <3>1 DEF Kill
  <2> QED
    BY <2>1, <2>2
<1>3. RowsGoOn
  BY <1>1, <1>2, OneRow
<1>4. UNCHANGED <<page, cur, poll, seen, stray, net>>
  BY DEF Collect, Kill
<1>5. net' \in Seq(HonestRequest')
  <2>1. net \in Seq(HonestRequest) /\ HonestRequest \subseteq HonestRequest'
    BY <1>3, RowsGrow DEF PageInv
  <2> QED
    BY <1>4, <2>1, WiderSeq
<1> QED
  BY <1>3, <1>4, <1>5, ServiceStep

\* A step that leaves the page's scenario and store alone.
LEMMA PollStep ==
    ASSUME PageInv, RowsGoOn, UNCHANGED <<page, cur, stray, net>>, Hears'
    PROVE  PageInv'
<1>1. /\ Service'
      /\ \A i : (Known(i) => Known(i)') /\ (Solved(i) => Solved(i)')
      /\ HonestRequest \subseteq HonestRequest'
  BY RowsGrow
<1>2. net' \in Seq(HonestRequest')
  <2>1. net \in Seq(HonestRequest')
    BY <1>1, WiderSeq DEF PageInv
  <2> QED
    BY <2>1
<1>3. TabTypeOK'
  BY DEF PageInv, TabTypeOK
<1>4. Misplaced => Misplaced'
  BY <1>1 DEF Misplaced, Solved
<1>5. Shown'
  BY <1>1, <1>4 DEF PageInv, Shown
<1> QED
  BY <1>1, <1>2, <1>3, <1>5 DEF PageInv

LEMMA LoseInv ==
    ASSUME PageInv, Lose
    PROVE  PageInv'
<1>1. RowsGoOn
  BY RowsStay DEF Lose, PageInv
<1>2. ASSUME NEW k \in DOMAIN net, Answered(k, "error"), UNCHANGED poll
      PROVE  PageInv'
  <2>1. net' \in Seq(HonestRequest')
    BY <1>1, <1>2, AnsweredKeeps
  <2> QED
    BY <1>1, <1>2, <2>1, ServiceStep DEF Lose
<1>3. CASE poll # NoFetch /\ poll' = [poll EXCEPT !.ans = "error"] /\ UNCHANGED net
  <2>1. poll \in Fetch /\ Known(poll.id)
    BY <1>3 DEF PageInv, Hears
  <2>2. poll' \in Fetch /\ poll'.id = poll.id /\ poll'.ans = "error"
    BY <1>3, <2>1 DEF Fetch
  <2>3. Hears'
    BY <2>1, <2>2 DEF PageInv, Hears, Lose, Known, Solved
  <2> QED
    BY <1>1, <1>3, <2>3, PollStep DEF Lose
<1> QED
  BY <1>2, <1>3 DEF Lose

\* GetAttempt answers with what the row says, after it ended a dead one.
LEMMA FetchingInv ==
    ASSUME PageInv, NEW i, Known(i), NEW try \in {1, 2}, Fetching(i, try),
           UNCHANGED <<page, cur, seen, stray, net>>
    PROVE  PageInv'
<1>1. i \in Id /\ rows[i] \in Row /\ rows[i].status \in Statuses
      /\ (rows[i].status = "passed" => rows[i].solved)
  BY DEF Known, PageInv, Service, Row
<1>2. RowsGoOn
  <2>1. GoesOn(rows[i], Terminated(rows[i]))
    BY <1>1, RowSteps
  <2> QED
    BY <2>1, RowsStay, OneRow DEF PageInv, Fetching, AfterGet
<1>3. \A j : (Known(j) => Known(j)') /\ (Solved(j) => Solved(j)')
  BY <1>2, RowsGrow
<1>4. PICK a \in Statuses \cup {"dead", "error"} :
         a = GetAnswer(i) /\ (a = "passed" => Solved(i))
  BY <1>1 DEF GetAnswer, Dead, Solved
<1>5. PICK p \in Fetch : poll' = p /\ p.id = i /\ (p.ans = "passed" => Solved(i))
  BY <1>1, <1>4 DEF Fetching, Fetch
<1>6. Hears'
  BY <1>3, <1>5 DEF PageInv, Hears
<1> QED
  BY <1>2, <1>6, PollStep

-----------------------------------------------------------------------------
(* What the page sends.                                                    *)

LEMMA HonestStays ==
    ASSUME NEW r \in HonestRequest
    PROVE  [r EXCEPT !.heard = FALSE] \in HonestRequest /\ Unheard(r) \in HonestRequest
<1>1. /\ [r EXCEPT !.heard = FALSE] \in Request
      /\ Unheard(r) \in Request
  BY DEF HonestRequest, Request, Unheard
<1>2. /\ Honest([r EXCEPT !.heard = FALSE])
      /\ Honest(Unheard(r))
  BY DEF HonestRequest, Request, Unheard, Honest
<1> QED
  BY <1>1, <1>2 DEF HonestRequest

LEMMA SentKeeps ==
    ASSUME NEW n \in Seq(HonestRequest)
    PROVE  /\ \A req \in HonestRequest : Sent(n, req) \in Seq(HonestRequest)
           /\ Silenced(n) \in Seq(HonestRequest)
           /\ \A k \in DOMAIN n : RemoveAt(n, k) \in Seq(HonestRequest)
<1>1. \A r \in HonestRequest : [r EXCEPT !.heard = FALSE] \in HonestRequest
                               /\ Unheard(r) \in HonestRequest
  BY HonestStays
<1> QED
  BY <1>1, SentSeq, SilencedSeq, DroppedSeq

LEMMA StartAsked ==
    ASSUME NEW s \in Slug \cup {NoPage}
    PROVE  Ask("start", s, NoId, "stay") \in HonestRequest
BY DEF Ask, HonestRequest, Honest, Request

LEMMA MutationAsked ==
    ASSUME NEW kind \in {"check", "terminate"}, NEW s \in Slug \cup {NoPage}, NEW i, Known(i),
           NEW then \in {"stay", "leave", "restart"}
    PROVE  /\ Ask(kind, s, i, then) \in HonestRequest
           /\ [Ask(kind, s, i, then) EXCEPT !.heard = FALSE] \in HonestRequest
<1>1. Ask(kind, s, i, then) \in HonestRequest
  BY DEF Ask, HonestRequest, Honest, Request, Known
<1> QED
  BY <1>1, HonestStays

\* The patch from the query cache: another status of the same attempt.
LEMMA RefreshedHeld ==
    ASSUME PageInv, NEW c \in Held, c.id # NoId => Known(c.id)
    PROVE  /\ Refreshed(c) \in Held
           /\ Refreshed(c).id = c.id /\ Refreshed(c).slug = c.slug
           /\ \/ Refreshed(c).status = c.status
              \/ /\ c.id # NoId
                 /\ Refreshed(c).status = "passed" => Solved(c.id)
<1>1. CASE c.id # NoId /\ seen[c.id] # "none"
  <2>1. c.id \in Id /\ seen[c.id] \in Statuses /\ (seen[c.id] = "passed" => Solved(c.id))
    BY <1>1 DEF PageInv, Hears, Known
  <2>2. Refreshed(c) = [c EXCEPT !.status = seen[c.id]]
    BY <1>1 DEF Refreshed
  <2> QED
    BY <1>1, <2>1, <2>2 DEF Held
<1>2. CASE ~(c.id # NoId /\ seen[c.id] # "none")
  BY <1>2 DEF Refreshed
<1> QED
  BY <1>1, <1>2

-----------------------------------------------------------------------------
(* What the user does.                                                     *)

\* The effect on the slug keeps the store of the same scenario and empties it
\* otherwise.
LEMMA KeptInv ==
    ASSUME PageInv, NEW s \in Slug, UNCHANGED <<rows, poll, seen, stray>>,
           page' = s, cur' = Refreshed(IF cur.slug = s THEN cur ELSE Blank),
           Click(Ask("start", s, NoId, "stay"))
    PROVE  PageInv'
<1>1. PICK c \in Held : /\ c = IF cur.slug = s THEN cur ELSE Blank
                        /\ c.id # NoId => c = cur /\ c.slug = s
  <2>1. cur \in Held
    BY DEF PageInv, TabTypeOK
  <2>2. Blank \in Held /\ Blank.id = NoId
    BY DEF Held, Blank
  <2> QED
    BY <2>1, <2>2
<1>2. /\ c.id # NoId => Known(c.id)
      /\ c.status # "none" => c.id # NoId
      /\ c.status = "passed" => Solved(c.id) \/ (stray /\ \E j \in Id \ {c.id} : rows[j].solved)
  BY <1>1 DEF PageInv, Shown, Misplaced, Blank
<1>3. /\ cur' \in Held
      /\ cur'.id = c.id /\ cur'.slug = c.slug
      /\ \/ cur'.status = c.status
         \/ c.id # NoId /\ (cur'.status = "passed" => Solved(c.id))
  BY <1>1, <1>2, RefreshedHeld
<1>4. net' \in Seq(HonestRequest)
  BY StartAsked, SentKeeps DEF Click, PageInv
<1>5. TabTypeOK'
  BY <1>3 DEF PageInv, TabTypeOK
<1>6. Shown'
  BY <1>1, <1>2, <1>3 DEF Shown, Misplaced, Known, Solved
<1> QED
  BY <1>4, <1>5, <1>6, TabStep

\* A handler that only sends, or leaves the page.
LEMMA SendInv ==
    ASSUME PageInv, UNCHANGED <<rows, poll, seen, stray, cur>>,
           page' \in {page, NoPage}, net' \in Seq(HonestRequest)
    PROVE  PageInv'
<1>1. TabTypeOK'
  BY DEF PageInv, TabTypeOK
<1>2. Shown'
  BY DEF PageInv, Shown, Misplaced, Known, Solved
<1> QED
  BY <1>1, <1>2, TabStep

LEMMA ShownIsKnown ==
    ASSUME PageInv
    PROVE  /\ cur.status # "none" => Known(cur.id)
           /\ cur.id # NoId => Known(cur.id)
           /\ page \in Slug \cup {NoPage}
           /\ net \in Seq(HonestRequest)
BY DEF PageInv, Shown, TabTypeOK

LEMMA UserInv ==
    ASSUME PageInv, User
    PROVE  PageInv'
<1>0. /\ cur.status # "none" => Known(cur.id)
      /\ cur.id # NoId => Known(cur.id)
      /\ page \in Slug \cup {NoPage}
      /\ net \in Seq(HonestRequest)
      /\ NoPage \in Slug \cup {NoPage}
  BY ShownIsKnown
<1>1. ASSUME NEW s \in Slug, Open(s) \/ Switch(s)
      PROVE  PageInv'
  <2>1. /\ page' = s /\ cur' = Refreshed(IF cur.slug = s THEN cur ELSE Blank)
        /\ Click(Ask("start", s, NoId, "stay"))
        /\ UNCHANGED <<rows, poll, seen, stray>>
    BY <1>1 DEF Open, Switch
  <2> QED
    BY <2>1, KeptInv
<1>2. CASE Leave
  BY <1>0, <1>2, SentKeeps, SendInv DEF Leave, Closed
<1>3. CASE Retry
  BY <1>0, <1>3, StartAsked, SentKeeps, SendInv DEF Retry, Click
<1>4. CASE Check
  <2>1. Known(cur.id)
    BY <1>0, <1>4 DEF Check, InUse
  <2>2. Ask("check", NoPage, cur.id, "stay") \in HonestRequest
    BY <1>0, <2>1, MutationAsked
  <2> QED
    BY <1>0, <1>4, <2>2, SentKeeps, SendInv DEF Check, Click
<1>5. CASE GiveUp
  <2>1. Known(cur.id)
    BY <1>0, <1>5 DEF GiveUp, InUse
  <2>2. Ask("terminate", NoPage, cur.id, "stay") \in HonestRequest
    BY <1>0, <2>1, MutationAsked
  <2> QED
    BY <1>0, <1>5, <2>2, SentKeeps, SendInv DEF GiveUp, Click
<1>6. CASE EndReview
  <2>1. Known(cur.id)
    BY <1>0, <1>6 DEF EndReview
  <2>2. Ask("terminate", NoPage, cur.id, "leave") \in HonestRequest
    BY <1>0, <2>1, MutationAsked
  <2> QED
    BY <1>0, <1>6, <2>2, SentKeeps, SendInv DEF EndReview, Click
<1>7. CASE Restart
  <2>1. [Ask("terminate", page, cur.id, "restart") EXCEPT !.heard = FALSE] \in HonestRequest
    BY <1>0, <1>7, MutationAsked DEF Restart
  <2>2. net' \in Seq(HonestRequest)
    BY <1>0, <1>7, <2>1, SentKeeps DEF Restart, Click
  <2>3. TabTypeOK'
    BY <1>7 DEF Restart, PageInv, TabTypeOK, Blank, Held
  <2>4. Shown'
    BY <1>7 DEF Restart, Shown, Blank
  <2> QED
    BY <1>7, <2>2, <2>3, <2>4, TabStep DEF Restart
<1>8. CASE GiveUpAndLeave
  <2>1. CASE cur.id = NoId
    BY <1>0, <1>8, <2>1, SentKeeps, SendInv DEF GiveUpAndLeave, Closed
  <2>2. CASE cur.id # NoId
    <3>1. Ask("terminate", NoPage, cur.id, "stay") \in HonestRequest
      BY <1>0, <2>2, MutationAsked
    <3>2. Sent(net, Ask("terminate", NoPage, cur.id, "stay")) \in Seq(HonestRequest)
      BY <1>0, <3>1, SentKeeps
    <3>3. net' \in Seq(HonestRequest)
      BY <1>8, <2>2, <3>2, SentKeeps DEF GiveUpAndLeave
    <3> QED
      BY <1>8, <3>3, SendInv DEF GiveUpAndLeave, Closed
  <2> QED
    BY <2>1, <2>2
<1>9. CASE CloseModal
  <2>1. PICK b \in BOOLEAN : cur' = [cur EXCEPT !.review = b]
    <3>1. cur.review \in BOOLEAN
      BY DEF PageInv, TabTypeOK, Held
    <3>2. (cur.review \/ (modal = "passed" /\ cur.id # NoId)) \in BOOLEAN
      BY <3>1
    <3> QED
      BY <1>9, <3>2 DEF CloseModal
  <2>2. /\ cur' \in Held /\ cur'.id = cur.id
        /\ cur'.slug = cur.slug /\ cur'.status = cur.status
    BY <2>1 DEF PageInv, TabTypeOK, Held
  <2>3. TabTypeOK'
    BY <1>9, <2>2 DEF CloseModal, PageInv, TabTypeOK
  <2>4. Shown'
    BY <1>9, <2>2 DEF CloseModal, PageInv, Shown, Misplaced, Known, Solved
  <2> QED
    BY <1>0, <1>9, <2>3, <2>4, TabStep DEF CloseModal
<1> QED
  BY <1>1, <1>2, <1>3, <1>4, <1>5, <1>6, <1>7, <1>8, <1>9 DEF User

-----------------------------------------------------------------------------
(* Answers.                                                                *)

LEMMA DeliverStartInv ==
    ASSUME PageInv, NEW k \in DOMAIN net, DeliverStart(k), UNCHANGED <<rows, poll, seen>>
    PROVE  PageInv'
<1>0. PICK r \in Request : r = net[k] /\ Honest(r)
  BY InFlight
<1>1. net' \in Seq(HonestRequest)
  BY SentKeeps DEF DeliverStart, Drop, PageInv
<1>2. CASE StartFailed(k)
  BY <1>1, <1>2, SendInv DEF StartFailed
<1>3. CASE StartOK(k)
  <2>1. Known(r.id) /\ r.id \in Id /\ r.slug \in Slug \cup {NoPage}
    BY <1>0, <1>3 DEF StartOK, Honest, Known, Request
  <2>2. PICK c \in Held : /\ c.id = r.id /\ c.slug = r.slug /\ c.status = "running"
                          /\ cur' = IF cur.id = r.id THEN c ELSE Refreshed(c)
    <3>1. cur.review \in BOOLEAN
      BY DEF PageInv, TabTypeOK, Held
    <3>2. PICK b \in BOOLEAN : b = (cur.id = r.id /\ cur.slug = r.slug /\ cur.review)
      BY <3>1
    <3>3. [id |-> r.id, slug |-> r.slug, status |-> "running", review |-> b] \in Held
      BY <2>1 DEF Held, Statuses
    <3> QED
      BY <1>0, <1>3, <3>2, <3>3 DEF StartOK
  <2>3. Known(c.id)
    BY <2>1, <2>2
  <2>4. /\ cur' \in Held /\ cur'.id = r.id /\ cur'.slug = r.slug
        /\ cur'.status = "passed" => Solved(r.id)
    BY <2>2, <2>3, RefreshedHeld
  <2>5. /\ page' = page /\ stray' \in BOOLEAN
        /\ page \notin {NoPage, r.slug} => stray'
    BY <1>0, <1>3 DEF StartOK, PageInv, TabTypeOK
  <2>6. TabTypeOK'
    BY <2>4, <2>5 DEF PageInv, TabTypeOK
  <2>7. Shown'
    <3>1. Known(cur.id)'
      BY <2>1, <2>4 DEF Known
    <3>2. cur'.status = "passed" => Solved(cur.id)'
      BY <2>4 DEF Solved
    <3>3. cur'.id # NoId
      BY <2>1, <2>4 DEF NoId, Id
    <3>4. page' # NoPage => cur'.slug = page' \/ stray'
      BY <2>4, <2>5
    <3> QED
      BY <3>1, <3>2, <3>3, <3>4 DEF Shown
  <2> QED
    BY <1>1, <2>6, <2>7, TabStep
<1> QED
  BY <1>2, <1>3 DEF DeliverStart

LEMMA DeliverCheckInv ==
    ASSUME PageInv, NEW k \in DOMAIN net, DeliverCheck(k), UNCHANGED <<rows, poll, seen>>
    PROVE  PageInv'
<1>0. PICK r \in Request : r = net[k] /\ Honest(r)
  BY InFlight
<1>1. net' \in Seq(HonestRequest)
  BY SentKeeps DEF DeliverCheck, Drop, PageInv
<1>2. PICK pass \in BOOLEAN :
         /\ pass => r.ans = "passed" /\ cur.id # NoId
         /\ cur' = IF pass THEN [cur EXCEPT !.status = "passed"] ELSE cur
         /\ stray' = (stray \/ (pass /\ (cur.id # r.id \/ cur.status = "terminated")))
  <2> DEFINE p == Told(r) /\ Passes(r) /\ cur.id # NoId
  <2>1. r.heard \in BOOLEAN
    BY DEF Request
  <2>2. p \in BOOLEAN
    BY <2>1 DEF Told, Passes
  <2>3. p => r.ans = "passed" /\ cur.id # NoId
    BY DEF Passes
  <2> QED
    BY <1>0, <2>2, <2>3 DEF DeliverCheck
<1>3. page' = page /\ stray' \in BOOLEAN /\ (stray => stray')
  BY <1>2 DEF DeliverCheck, PageInv, TabTypeOK
<1>4. /\ cur' \in Held /\ cur'.id = cur.id /\ cur'.slug = cur.slug
      /\ cur'.status = IF pass THEN "passed" ELSE cur.status
  BY <1>2 DEF PageInv, TabTypeOK, Held, Statuses
<1>5. TabTypeOK'
  BY <1>3, <1>4 DEF PageInv, TabTypeOK
<1>6. pass => Solved(cur.id) \/ (stray' /\ \E j \in Id \ {cur.id} : rows[j].solved)
  BY <1>0, <1>2, <1>3 DEF Honest, Solved
<1>7. Shown'
  BY <1>2, <1>3, <1>4, <1>6 DEF PageInv, Shown, Misplaced, Known, Solved
<1> QED
  BY <1>1, <1>5, <1>7, TabStep

LEMMA DeliverTerminateInv ==
    ASSUME PageInv, NEW k \in DOMAIN net, net[k].ans # "sent", DeliverTerminate(k),
           UNCHANGED <<rows, poll, seen>>
    PROVE  PageInv'
<1>0. PICK r \in Request : r = net[k] /\ Honest(r)
  BY InFlight
<1>1. net' \in Seq(HonestRequest) /\ page' \in {page, NoPage}
  <2>1. RemoveAt(net, k) \in Seq(HonestRequest)
    BY SentKeeps DEF PageInv
  <2>2. Silenced(RemoveAt(net, k)) \in Seq(HonestRequest)
    BY <2>1, SentKeeps
  <2> QED
    BY <2>1, <2>2 DEF DeliverTerminate, Drop, Closed
<1>2. PICK patch \in BOOLEAN :
         /\ patch => r.ans # "error" /\ cur.id # NoId
         /\ cur' = IF patch THEN [cur EXCEPT !.status = r.ans,
                                             !.review = @ /\ r.then # "leave"] ELSE cur
         /\ stray' = (stray \/ (patch /\ cur.id # r.id))
  <2> DEFINE p == Told(r) /\ cur.id # NoId
  <2>1. r.heard \in BOOLEAN
    BY DEF Request
  <2>2. p \in BOOLEAN
    BY <2>1 DEF Told
  <2>3. p => r.ans # "error" /\ cur.id # NoId
    BY DEF Told
  <2> QED
    BY <1>0, <2>2, <2>3 DEF DeliverTerminate
<1>3. stray' \in BOOLEAN /\ (stray => stray')
  BY <1>2 DEF PageInv, TabTypeOK
<1>4. patch => r.ans \in Statuses
  BY <1>0, <1>2 DEF DeliverTerminate, Honest, Request
<1>5. /\ cur' \in Held /\ cur'.id = cur.id /\ cur'.slug = cur.slug
      /\ cur'.status = IF patch THEN r.ans ELSE cur.status
  <2>1. CASE patch
    <3>1. cur.review \in BOOLEAN
      BY DEF PageInv, TabTypeOK, Held
    <3>2. PICK b \in BOOLEAN : b = (cur.review /\ r.then # "leave")
      BY <3>1
    <3>3. cur' = [cur EXCEPT !.status = r.ans, !.review = b]
      BY <1>2, <2>1, <3>2
    <3> QED
      BY <1>4, <2>1, <3>3 DEF PageInv, TabTypeOK, Held
  <2>2. CASE ~patch
    BY <1>2, <2>2 DEF PageInv, TabTypeOK
  <2> QED
    BY <2>1, <2>2
<1>6. TabTypeOK'
  BY <1>1, <1>3, <1>5 DEF PageInv, TabTypeOK
<1>7. patch /\ r.ans = "passed"
         => Solved(cur.id) \/ (stray' /\ \E j \in Id \ {cur.id} : rows[j].solved)
  BY <1>0, <1>2, <1>3 DEF Honest, Solved
<1>8. Shown'
  BY <1>1, <1>2, <1>3, <1>5, <1>7 DEF PageInv, Shown, Misplaced, Known, Solved
<1> QED
  BY <1>1, <1>6, <1>8, TabStep

LEMMA DeliverRestartInv ==
    ASSUME PageInv, NEW k \in DOMAIN net, DeliverRestart(k), UNCHANGED <<rows, poll, seen>>
    PROVE  PageInv'
<1>0. PICK r \in Request : r = net[k]
  BY InFlight
<1>1. net' \in Seq(HonestRequest)
  <2>1. r.slug \in Slug \cup {NoPage}
    BY DEF Request
  <2>2. Ask("start", r.slug, NoId, "stay") \in HonestRequest
    BY <2>1, StartAsked
  <2>3. Unheard(Ask("start", r.slug, NoId, "stay")) \in HonestRequest
    BY <2>2, HonestStays
  <2>4. RemoveAt(net, k) \in Seq(HonestRequest)
    BY SentKeeps DEF PageInv
  <2> QED
    BY <1>0, <2>2, <2>3, <2>4, SentKeeps DEF DeliverRestart
<1>2. page' = page /\ cur' = cur /\ stray' \in BOOLEAN /\ (stray => stray')
  <2>1. r.here \in BOOLEAN
    BY DEF Request
  <2> QED
    BY <1>0, <2>1 DEF DeliverRestart, PageInv, TabTypeOK
<1>3. TabTypeOK'
  BY <1>2 DEF PageInv, TabTypeOK
<1>4. Shown'
  BY <1>2 DEF PageInv, Shown, Misplaced, Known, Solved
<1> QED
  BY <1>1, <1>3, <1>4, TabStep

-----------------------------------------------------------------------------
(* The poll.                                                               *)

LEMMA PollToldInv ==
    ASSUME PageInv, poll # NoFetch, PollTold, UNCHANGED <<page, stray>>
    PROVE  PageInv'
<1>1. /\ Known(poll.id) /\ poll.id \in Id /\ poll.ans \in Statuses
      /\ poll.ans = "passed" => Solved(poll.id)
  BY DEF PageInv, Hears, PollTold, Known
<1>2. Service' /\ HonestRequest' = HonestRequest
  BY DEF PageInv, PollTold, Service, HonestRequest, Honest, Known, Solved
<1>3. Hears'
  <2>1. seen' \in [Id -> Statuses \cup {"none"}]
    BY <1>1 DEF PageInv, Hears, PollTold
  <2>2. \A j \in Id : seen'[j] = IF j = poll.id THEN poll.ans ELSE seen[j]
    BY DEF PageInv, Hears, PollTold
  <2>3. \A j \in Id : seen'[j] = "passed" => Solved(j)'
    BY <1>1, <2>2 DEF PageInv, Hears, PollTold, Solved
  <2> QED
    BY <2>1, <2>3 DEF Hears, PollTold
<1>4. \/ UNCHANGED cur
      \/ cur.id = poll.id /\ cur' = [cur EXCEPT !.status = poll.ans]
  BY DEF PollTold, Observed
<1>5. /\ cur' \in Held /\ cur'.id = cur.id /\ cur'.slug = cur.slug
      /\ \/ cur'.status = cur.status
         \/ cur.id = poll.id /\ cur'.status = poll.ans
  BY <1>1, <1>4 DEF PageInv, TabTypeOK, Held
<1>6. TabTypeOK'
  BY <1>5 DEF PageInv, TabTypeOK
<1>7. Shown'
  <2>1. UNCHANGED <<page, stray, rows>>
    BY DEF PollTold
  <2>2. (cur'.id # NoId => Known(cur.id)') /\ (cur'.status # "none" => cur'.id # NoId)
    BY <1>1, <1>5, <2>1 DEF PageInv, Shown, Known, NoId, Id
  <2>3. cur'.status = "passed" => Solved(cur.id)' \/ Misplaced'
    BY <1>1, <1>5, <2>1 DEF PageInv, Shown, Misplaced, Solved
  <2> QED
    BY <1>5, <2>1, <2>2, <2>3 DEF PageInv, Shown
<1> QED
  BY <1>2, <1>3, <1>6, <1>7 DEF PageInv, PollTold

LEMMA PollDeliverInv ==
    ASSUME PageInv, PollDeliver
    PROVE  PageInv'
<1>1. poll # NoFetch /\ Known(poll.id)
  BY DEF PollDeliver, PageInv, Hears
<1>2. CASE PollTold
  BY <1>1, <1>2, PollToldInv DEF PollDeliver
<1>3. CASE PollRetry
  BY <1>1, <1>3, FetchingInv DEF PollDeliver, PollRetry
<1>4. CASE poll' = NoFetch /\ UNCHANGED <<rows, seen>>
  <2>1. Service' /\ HonestRequest' = HonestRequest
    BY <1>4 DEF PageInv, Service, HonestRequest, Honest, Known, Solved
  <2>2. Hears'
    BY <1>4 DEF PageInv, Hears, Solved
  <2>3. CASE PollDropped
    <3>1. TabTypeOK' /\ Shown'
      BY <1>4, <2>3 DEF PollDropped, PollDeliver, PageInv, TabTypeOK, Shown, Misplaced, Known, Solved
    <3> QED
      BY <2>1, <2>2, <2>3, <3>1 DEF PageInv, PollDropped
  <2>4. CASE PollDead
    <3>1. page \in Slug \cup {NoPage} /\ net \in Seq(HonestRequest)
      BY ShownIsKnown
    <3>2. net' \in Seq(HonestRequest)
      BY <2>4, <3>1, StartAsked, SentKeeps DEF PollDead
    <3>3. TabTypeOK'
      BY <2>4 DEF PollDead, PollDeliver, PageInv, TabTypeOK, Blank, Held
    <3>4. Shown'
      BY <2>4 DEF PollDead, Shown, Blank
    <3> QED
      BY <2>1, <2>2, <3>2, <3>3, <3>4 DEF PageInv
  <2>5. CASE PollTold \/ PollRetry
    BY <1>2, <1>3, <2>5
  <2> QED
    BY <2>3, <2>4, <2>5 DEF PollDeliver
<1> QED
  BY <1>2, <1>3, <1>4 DEF PollDeliver, PollDropped, PollDead

-----------------------------------------------------------------------------
LEMMA PageStep == PageInv /\ [PageNext]_pageVars => PageInv'
<1> SUFFICES ASSUME PageInv, [PageNext]_pageVars PROVE PageInv'
  OBVIOUS
<1>1. CASE User
  BY <1>1, UserInv
<1>2. ASSUME NEW k \in DOMAIN net, Serve(k)
      PROVE  PageInv'
  BY <1>2, ServeInv
<1>3. ASSUME NEW k \in DOMAIN net, Deliver(k)
      PROVE  PageInv'
  <2>1. net[k].ans # "sent" /\ UNCHANGED <<rows, poll, seen>>
    BY <1>3 DEF Deliver
  <2> QED
    BY <1>3, <2>1, DeliverStartInv, DeliverCheckInv, DeliverTerminateInv, DeliverRestartInv
    DEF Deliver
<1>4. CASE PollSend
  <2>1. Known(cur.id)
    BY <1>4, ShownIsKnown DEF PollSend
  <2> QED
    BY <1>4, <2>1, FetchingInv DEF PollSend
<1>5. CASE PollDeliver
  BY <1>5, PollDeliverInv
<1>6. ASSUME NEW i \in Id, Collect(i) \/ Kill(i)
      PROVE  PageInv'
  BY <1>6, CollectInv
<1>7. CASE Lose
  BY <1>7, LoseInv
<1>8. CASE UNCHANGED pageVars
  <2>1. RowsGoOn
    BY <1>8, RowsStay DEF pageVars, PageInv
  <2>2. HonestRequest' = HonestRequest
    BY <1>8 DEF pageVars, HonestRequest, Honest, Known, Solved
  <2> QED
    BY <1>8, <2>1, <2>2, ServiceStep DEF pageVars, PageInv
<1> QED
  BY <1>1, <1>2, <1>3, <1>4, <1>5, <1>6, <1>7, <1>8 DEF PageNext

LEMMA PageInvariant == PageSpec => []PageInv
BY PageInitInv, PageStep, PTL DEF PageSpec

(***************************************************************************)
(* The attempt an open page works on is of the page's scenario, whatever   *)
(* the store held when the page was opened and however late the answers    *)
(* are, unless one was put where it does not belong (Scenario.tsx:140).    *)
(***************************************************************************)
THEOREM OwnScenarioShown == PageSpec => []OwnAttemptShown
<1>1. PageInv => OwnAttemptShown
  BY DEF PageInv, Shown, OwnAttemptShown
<1> QED
  BY <1>1, PageInvariant, PTL

(***************************************************************************)
(* A page that says passed shows an attempt the service judged as passed,  *)
(* whether the word came from a check, a terminate, the poll or the cache  *)
(* of the query (Scenario.tsx:200); or else an answer sent for another     *)
(* attempt was put into this one, and that attempt was judged as passed    *)
(* (Scenario.tsx:374).                                                     *)
(***************************************************************************)
THEOREM PassIsTrue == PageSpec => []PassShownIsReal
<1>1. PageInv => PassShownIsReal
  BY DEF PageInv, Shown, Solved, PassShownIsReal
<1> QED
  BY <1>1, PageInvariant, PTL

-----------------------------------------------------------------------------
(* The rest of the tab: the phase of its start, its modal, and what it has *)
(* in flight.                                                              *)

\* A check is answered with a judgement, or not at all.
Judgement == {"passed", "failed"}
AskedRequest == {r \in Request : r.kind = "check" => r.ans \in Judgement \cup {"sent", "error"}}

Stage ==
    /\ phase \in {"idle", "pending", "done", "error"}
    /\ starting \in Slug \cup {NoPage}
    /\ modal \in Judgement \cup {"none"}

Traffic == net \in Seq(AskedRequest) /\ Len(net) <= MaxInFlight

Counted == clicks \in 0 .. MaxClicks /\ mishaps \in 0 .. MaxMishaps

StageInv == Stage /\ Traffic /\ Counted

\* What is sent, silenced or dropped, and how much is in flight then.
LEMMA TrafficMoves ==
    ASSUME NEW n \in Seq(AskedRequest)
    PROVE  /\ \A req \in AskedRequest : /\ Sent(n, req) \in Seq(AskedRequest)
                                        /\ Len(Sent(n, req)) = Len(n) + 1
           /\ Silenced(n) \in Seq(AskedRequest) /\ Len(Silenced(n)) = Len(n)
           /\ \A k \in DOMAIN n : /\ RemoveAt(n, k) \in Seq(AskedRequest)
                                  /\ Len(RemoveAt(n, k)) = Len(n) - 1
<1>1. n \in [1 .. Len(n) -> AskedRequest] /\ Len(n) \in Nat /\ DOMAIN n = 1 .. Len(n)
  BY LenProperties
<1>2. \A r \in AskedRequest : [r EXCEPT !.heard = FALSE] \in AskedRequest
                              /\ Unheard(r) \in AskedRequest
  BY DEF AskedRequest, Request, Unheard
<1>3. ASSUME NEW req \in AskedRequest
      PROVE  Sent(n, req) \in Seq(AskedRequest) /\ Len(Sent(n, req)) = Len(n) + 1
  <2> DEFINE m == [k \in DOMAIN n |->
                     IF req.here /\ n[k].here /\ n[k].kind = req.kind
                     THEN [n[k] EXCEPT !.heard = FALSE] ELSE n[k]]
  <2>1. m \in [1 .. Len(n) -> AskedRequest]
    BY <1>1, <1>2
  <2>2. m \in Seq(AskedRequest) /\ Len(m) = Len(n)
    BY <1>1, <2>1, LenProperties
  <2>3. Sent(n, req) = Append(m, req)
    BY DEF Sent
  <2> HIDE DEF m
  <2> QED
    BY <2>2, <2>3, AppendProperties
<1>4. Silenced(n) \in Seq(AskedRequest) /\ Len(Silenced(n)) = Len(n)
  <2>1. Silenced(n) \in [1 .. Len(n) -> AskedRequest]
    BY <1>1, <1>2 DEF Silenced
  <2> QED
    BY <1>1, <2>1, LenProperties
<1>5. ASSUME NEW k \in DOMAIN n
      PROVE  RemoveAt(n, k) \in Seq(AskedRequest) /\ Len(RemoveAt(n, k)) = Len(n) - 1
  <2>1. RemoveAt(n, k) \in Seq(AskedRequest)
    BY DroppedSeq
  <2>2. k \in 1 .. Len(n) /\ \A i \in 1 .. Len(n) : n[i] \in AskedRequest
    BY <1>1
  <2>3. SubSeq(n, 1, k - 1) \in Seq(AskedRequest) /\ Len(SubSeq(n, 1, k - 1)) = k - 1
    BY <1>1, <2>2, SubSeqProperties
  <2>4. /\ SubSeq(n, k + 1, Len(n)) \in Seq(AskedRequest)
        /\ Len(SubSeq(n, k + 1, Len(n))) = Len(n) - k
    BY <1>1, <2>2, SubSeqProperties
  <2>5. Len(RemoveAt(n, k)) = Len(SubSeq(n, 1, k - 1)) + Len(SubSeq(n, k + 1, Len(n)))
    BY <2>3, <2>4, ConcatProperties DEF RemoveAt
  <2> QED
    BY <1>1, <2>1, <2>2, <2>3, <2>4, <2>5
<1> QED
  BY <1>3, <1>4, <1>5

LEMMA AskedRequests ==
    ASSUME NEW kind \in {"start", "check", "terminate"}, NEW s \in Slug \cup {NoPage},
           NEW i \in Id \cup {NoId}, NEW then \in {"stay", "leave", "restart"}
    PROVE  /\ Ask(kind, s, i, then) \in AskedRequest
           /\ [Ask(kind, s, i, then) EXCEPT !.heard = FALSE] \in AskedRequest
           /\ Unheard(Ask(kind, s, i, then)) \in AskedRequest
BY DEF Ask, AskedRequest, Request, Unheard

\* A request in flight.
LEMMA AskedInFlight ==
    ASSUME Traffic, NEW k \in DOMAIN net
    PROVE  /\ net[k] \in AskedRequest /\ net[k] \in Request
           /\ \A q \in AskedRequest : [net EXCEPT ![k] = q] \in Seq(AskedRequest)
                                      /\ Len([net EXCEPT ![k] = q]) = Len(net)
<1>1. k \in 1 .. Len(net) /\ net \in Seq(AskedRequest)
  BY LenProperties DEF Traffic
<1>2. net[k] \in AskedRequest
  BY <1>1, ElementOfSeq
<1> QED
  BY <1>1, <1>2, ExceptSeq DEF AskedRequest

LEMMA ServeTraffic ==
    ASSUME PageInv, Traffic, NEW k \in DOMAIN net, Serve(k)
    PROVE  Traffic'
<1> DEFINE r == net[k]
<1>0. r \in Request
  BY AskedInFlight
<1>1. ASSUME NEW q \in AskedRequest, net' = [net EXCEPT ![k] = q]
      PROVE  Traffic'
  BY <1>1, AskedInFlight DEF Traffic
<1>2. CASE ServeStart(k)
  <2>1. r.kind = "start"
    BY <1>2 DEF ServeStart
  <2>2. ASSUME NEW i \in Id, net' = [net EXCEPT ![k].id = i, ![k].ans = "running"]
        PROVE  Traffic'
    <3>1. [r EXCEPT !.id = i, !.ans = "running"] \in AskedRequest
      BY <1>0, <2>1 DEF AskedRequest, Request, Statuses
    <3>2. net' = [net EXCEPT ![k] = [r EXCEPT !.id = i, !.ans = "running"]]
      BY <2>2
    <3> QED
      BY <1>1, <3>1, <3>2
  <2>3. ASSUME Answered(k, "error") PROVE Traffic'
    <3>1. [r EXCEPT !.ans = "error"] \in AskedRequest
      BY <1>0 DEF AskedRequest, Request
    <3> QED
      BY <1>1, <2>3, <3>1 DEF Answered
  <2> QED
    BY <1>2, <2>2, <2>3 DEF ServeStart, Reusable, Listed, NextId
<1>3. CASE ServeCheck(k)
  <2>1. PICK ans \in {"passed", "failed", "error"} : Answered(k, ans)
    BY <1>3 DEF ServeCheck
  <2>2. [r EXCEPT !.ans = ans] \in AskedRequest
    BY <1>0 DEF AskedRequest, Request, Statuses, Judgement
  <2> QED
    BY <1>1, <2>1, <2>2 DEF Answered
<1>4. CASE ServeTerminate(k)
  <2>1. r.kind = "terminate" /\ Known(r.id)
    BY <1>4, InFlight DEF ServeTerminate, Honest
  <2>2. rows[r.id].status \in Statuses
    BY <2>1 DEF PageInv, Service, Known, Row
  <2>3. PICK ans \in Statuses : Answered(k, ans)
    BY <1>4, <2>2 DEF ServeTerminate, Statuses
  <2>4. [r EXCEPT !.ans = ans] \in AskedRequest
    BY <1>0, <2>1 DEF AskedRequest, Request
  <2> QED
    BY <1>1, <2>3, <2>4 DEF Answered
<1> QED
  BY <1>2, <1>3, <1>4 DEF Serve

LEMMA UserStage ==
    ASSUME PageInv, StageInv, User
    PROVE  StageInv'
<1>0. /\ net \in Seq(AskedRequest) /\ Len(net) <= MaxInFlight /\ Len(net) \in Nat
      /\ MaxInFlight \in Nat
      /\ cur.id \in Id \cup {NoId} /\ page \in Slug \cup {NoPage} /\ NoPage \in Slug \cup {NoPage}
  BY PageAssumption, LenProperties DEF StageInv, Traffic, PageInv, TabTypeOK, Held
<1>1. ASSUME NEW req \in AskedRequest, Click(req) PROVE Traffic'
  BY <1>0, <1>1, TrafficMoves DEF Click, Room, Traffic
<1>2. \A s, c : PhaseOfStart(s, c) \in {"idle", "pending", "done", "error"}
  BY DEF PhaseOfStart
<1>3. Counted'
  <2>1. mishaps' = mishaps
    BY DEF User, Open, Switch, Leave, Retry, Check, GiveUp, EndReview, Restart, GiveUpAndLeave,
           CloseModal
  <2>2. clicks' \in 0 .. MaxClicks
    BY PageAssumption DEF User, StageInv, Counted
  <2> QED
    BY <2>1, <2>2 DEF StageInv, Counted
<1> SUFFICES Stage' /\ Traffic'
  BY <1>3 DEF StageInv
<1>4. ASSUME NEW s \in Slug, Open(s) \/ Switch(s)
      PROVE  Stage' /\ Traffic'
  <2>1. Ask("start", s, NoId, "stay") \in AskedRequest
    BY AskedRequests
  <2>2. Traffic'
    BY <1>1, <1>4, <2>1 DEF Open, Switch
  <2> QED
    BY <1>2, <1>4, <2>2 DEF Open, Switch, StageInv, Stage
<1>5. CASE Leave
  <2>1. Traffic'
    BY <1>0, <1>5, TrafficMoves DEF Leave, Traffic
  <2> QED
    BY <1>0, <1>5, <2>1 DEF Leave, Closed, Stage
<1>6. CASE Retry
  <2>1. Ask("start", page, NoId, "stay") \in AskedRequest
    BY <1>0, AskedRequests
  <2>2. Traffic'
    BY <1>1, <1>6, <2>1 DEF Retry
  <2>3. page \in Slug
    BY <1>0, <1>6 DEF Retry
  <2> QED
    BY <1>2, <1>6, <2>2, <2>3 DEF Retry, StageInv, Stage
<1>7. CASE Check \/ GiveUp \/ EndReview
  <2>1. /\ Ask("check", NoPage, cur.id, "stay") \in AskedRequest
        /\ Ask("terminate", NoPage, cur.id, "stay") \in AskedRequest
        /\ Ask("terminate", NoPage, cur.id, "leave") \in AskedRequest
    BY <1>0, AskedRequests
  <2>2. Traffic'
    BY <1>1, <1>7, <2>1 DEF Check, GiveUp, EndReview
  <2> QED
    BY <1>7, <2>2 DEF Check, GiveUp, EndReview, StageInv, Stage
<1>8. CASE Restart
  <2>1. [Ask("terminate", page, cur.id, "restart") EXCEPT !.heard = FALSE] \in AskedRequest
    BY <1>0, AskedRequests
  <2>2. Traffic'
    BY <1>1, <1>8, <2>1 DEF Restart
  <2> QED
    BY <1>8, <2>2 DEF Restart, StageInv, Stage
<1>9. CASE GiveUpAndLeave
  <2>1. Ask("terminate", NoPage, cur.id, "stay") \in AskedRequest
    BY <1>0, AskedRequests
  <2>2. /\ Sent(net, Ask("terminate", NoPage, cur.id, "stay")) \in Seq(AskedRequest)
        /\ Len(Sent(net, Ask("terminate", NoPage, cur.id, "stay"))) = Len(net) + 1
    BY <1>0, <2>1, TrafficMoves
  <2>3. ASSUME cur.id = NoId PROVE Traffic'
    BY <1>0, <1>9, <2>3, TrafficMoves DEF GiveUpAndLeave, Traffic
  <2>4. ASSUME cur.id # NoId PROVE Traffic'
    <3>1. /\ net' = Silenced(Sent(net, Ask("terminate", NoPage, cur.id, "stay")))
          /\ Len(net) < MaxInFlight
      BY <1>9, <2>4 DEF GiveUpAndLeave, Room
    <3>2. net' \in Seq(AskedRequest) /\ Len(net') = Len(net) + 1
      BY <2>2, <3>1, TrafficMoves
    <3> QED
      BY <1>0, <3>1, <3>2 DEF Traffic
  <2>5. Traffic'
    BY <2>3, <2>4
  <2> QED
    BY <1>0, <1>9, <2>5 DEF GiveUpAndLeave, Closed, Stage
<1>10. CASE CloseModal
  BY <1>10 DEF CloseModal, StageInv, Stage, Traffic
<1> QED
  BY <1>4, <1>5, <1>6, <1>7, <1>8, <1>9, <1>10 DEF User

LEMMA DeliverStage ==
    ASSUME PageInv, StageInv, NEW k \in DOMAIN net, Deliver(k)
    PROVE  StageInv'
<1>0. /\ net \in Seq(AskedRequest) /\ Len(net) <= MaxInFlight /\ Len(net) \in Nat
      /\ MaxInFlight \in Nat
      /\ page \in Slug \cup {NoPage} /\ NoPage \in Slug \cup {NoPage}
  BY PageAssumption, LenProperties DEF StageInv, Traffic, PageInv, TabTypeOK
<1>1. PICK r \in AskedRequest : r = net[k] /\ r \in Request
  BY AskedInFlight DEF StageInv
<1>2. /\ RemoveAt(net, k) \in Seq(AskedRequest)
      /\ Len(RemoveAt(net, k)) = Len(net) - 1
  BY <1>0, TrafficMoves
<1>3. Drop(k) => Traffic'
  BY <1>0, <1>2 DEF Drop, Traffic
<1>4. Counted'
  BY DEF Deliver, StageInv, Counted
<1>5. \A s, c : PhaseOfStart(s, c) \in {"idle", "pending", "done", "error"}
  BY DEF PhaseOfStart
<1>6. CASE DeliverStart(k)
  <2>1. phase' \in {"idle", "pending", "done", "error"} /\ UNCHANGED <<starting, modal>>
    BY <1>5, <1>6 DEF DeliverStart, StartOK, StartFailed, StageInv, Stage
  <2> QED
    BY <1>3, <1>4, <1>6, <2>1 DEF DeliverStart, StageInv, Stage
<1>7. CASE DeliverCheck(k)
  <2>1. r.kind = "check" /\ r.ans # "sent"
    BY <1>1, <1>7 DEF DeliverCheck, Deliver
  <2>2. Told(r) => r.ans \in Judgement
    BY <1>1, <2>1 DEF Told, AskedRequest
  <2>3. modal' = (IF Told(r) THEN r.ans ELSE modal) /\ UNCHANGED <<phase, starting>>
    BY <1>1, <1>7 DEF DeliverCheck
  <2>4. Stage'
    BY <2>2, <2>3 DEF StageInv, Stage
  <2> QED
    BY <1>3, <1>4, <1>7, <2>4 DEF DeliverCheck, StageInv
<1>8. CASE DeliverTerminate(k)
  <2>1. \/ Closed /\ net' = Silenced(RemoveAt(net, k))
        \/ Drop(k) /\ UNCHANGED <<phase, starting, modal>>
    BY <1>8 DEF DeliverTerminate
  <2>2. Stage'
    BY <1>0, <2>1 DEF Closed, StageInv, Stage
  <2>3. Len(Silenced(RemoveAt(net, k))) = Len(net) - 1
        /\ Silenced(RemoveAt(net, k)) \in Seq(AskedRequest)
    BY <1>2, TrafficMoves
  <2>4. Traffic'
    BY <1>0, <1>3, <2>1, <2>3 DEF Traffic
  <2> QED
    BY <1>4, <2>2, <2>4 DEF StageInv
<1>9. CASE DeliverRestart(k)
  <2>1. r.slug \in Slug \cup {NoPage}
    BY <1>1 DEF Request
  <2>2. /\ Ask("start", r.slug, NoId, "stay") \in AskedRequest
        /\ Unheard(Ask("start", r.slug, NoId, "stay")) \in AskedRequest
    BY <2>1, AskedRequests
  <2>3. net' \in Seq(AskedRequest) /\ Len(net') = Len(net)
    <3>1. PICK req \in AskedRequest : net' = Sent(RemoveAt(net, k), req)
      BY <1>1, <1>9, <2>2 DEF DeliverRestart
    <3>2. net' \in Seq(AskedRequest) /\ Len(net') = Len(RemoveAt(net, k)) + 1
      BY <1>2, <3>1, TrafficMoves
    <3> QED
      BY <1>0, <1>2, <3>2
  <2>4. Traffic'
    BY <1>0, <2>3 DEF Traffic
  <2>5. Stage'
    BY <1>1, <1>5, <1>9, <2>1 DEF DeliverRestart, StageInv, Stage
  <2> QED
    BY <1>4, <2>4, <2>5 DEF StageInv
<1> QED
  BY <1>6, <1>7, <1>8, <1>9 DEF Deliver

LEMMA PollStage ==
    ASSUME PageInv, StageInv, PollDeliver
    PROVE  StageInv'
<1>1. UNCHANGED <<modal, clicks, mishaps>>
  BY DEF PollDeliver
<1>2. CASE UNCHANGED <<phase, starting, net>>
  BY <1>1, <1>2 DEF StageInv, Stage, Traffic, Counted
<1>3. CASE PollDead
  <2>1. /\ net \in Seq(AskedRequest) /\ Len(net) < MaxInFlight /\ Len(net) \in Nat
        /\ MaxInFlight \in Nat /\ page \in Slug \cup {NoPage}
    BY <1>3, PageAssumption, LenProperties
    DEF StageInv, Traffic, PageInv, TabTypeOK, PollDead, Room
  <2>2. Ask("start", page, NoId, "stay") \in AskedRequest
    BY <2>1, AskedRequests
  <2>3. net' \in Seq(AskedRequest) /\ Len(net') = Len(net) + 1
    BY <1>3, <2>1, <2>2, TrafficMoves DEF PollDead
  <2>4. Traffic'
    BY <2>1, <2>3 DEF Traffic
  <2> QED
    BY <1>1, <1>3, <2>1, <2>4 DEF PollDead, StageInv, Stage, Counted
<1> QED
  BY <1>2, <1>3 DEF PollDeliver, PollTold, PollRetry, PollDropped

LEMMA StageStep == PageInv /\ StageInv /\ [PageNext]_pageVars => StageInv'
<1> SUFFICES ASSUME PageInv, StageInv, [PageNext]_pageVars PROVE StageInv'
  OBVIOUS
<1>1. CASE UNCHANGED <<phase, starting, modal, net, clicks, mishaps>>
  BY <1>1 DEF StageInv, Stage, Traffic, Counted
<1>2. CASE User
  BY <1>2, UserStage
<1>3. ASSUME NEW k \in DOMAIN net, Serve(k)
      PROVE  StageInv'
  <2>1. Traffic'
    BY <1>3, ServeTraffic DEF StageInv
  <2> QED
    BY <1>3, <2>1 DEF Serve, StageInv, Stage, Counted
<1>4. ASSUME NEW k \in DOMAIN net, Deliver(k)
      PROVE  StageInv'
  BY <1>4, DeliverStage
<1>5. CASE PollDeliver
  BY <1>5, PollStage
<1>6. CASE Lose
  <2>1. Counted' /\ Stage'
    BY <1>6, PageAssumption DEF Lose, StageInv, Counted, Stage
  <2>2. ASSUME NEW k \in DOMAIN net, Answered(k, "error")
        PROVE  Traffic'
    <3>1. net[k] \in Request
      BY AskedInFlight DEF StageInv
    <3>2. [net[k] EXCEPT !.ans = "error"] \in AskedRequest
      BY <3>1 DEF AskedRequest, Request
    <3>3. net' = [net EXCEPT ![k] = [net[k] EXCEPT !.ans = "error"]]
      BY <2>2 DEF Answered
    <3> QED
      BY <3>2, <3>3, AskedInFlight DEF StageInv, Traffic
  <2>3. UNCHANGED net => Traffic'
    BY DEF StageInv, Traffic
  <2> QED
    BY <1>6, <2>1, <2>2, <2>3 DEF Lose, StageInv
<1> QED
  BY <1>1, <1>2, <1>3, <1>4, <1>5, <1>6 DEF PageNext, PollSend, Collect, Kill, pageVars

LEMMA StageInitInv == PageInit => StageInv
<1> SUFFICES ASSUME PageInit PROVE StageInv
  OBVIOUS
<1>1. net = <<>> /\ Len(net) = 0 /\ net \in Seq(AskedRequest)
  BY EmptySeq DEF PageInit
<1> QED
  BY <1>1, PageAssumption DEF PageInit, StageInv, Stage, Traffic, Counted

\* The two together are the types.
LEMMA TypesOfThePage == PageInv /\ StageInv => PageTypeOK
<1> SUFFICES ASSUME PageInv, StageInv PROVE PageTypeOK
  OBVIOUS
<1>1. net \in Seq(Request)
  <2>1. AskedRequest \subseteq Request
    BY DEF AskedRequest
  <2> QED
    BY <2>1, WiderSeq DEF StageInv, Traffic
<1> QED
  BY <1>1 DEF PageInv, StageInv, Service, Hears, TabTypeOK, Stage, Judgement, Traffic, Counted, PageTypeOK

-----------------------------------------------------------------------------
(* The bundle with a machine of its own.                                   *)

\* Every mark on the line stands for what the shell saw, and only a tty that
\* echoes writes a command.
Truthful(items) ==
    \A i \in 1 .. Len(items), n \in Token :
        /\ items[i] = <<"pass", n>> => found[n] = "there"
        /\ items[i] = <<"fail", n>> => found[n] = "absent"
        /\ items[i] = <<"echo", n>> => echo

\* A command that was not read yet was not run, and is there once.
Unread ==
    /\ \A n \in Token : n > asks => found[n] = "unrun"
    /\ \A i \in 1 .. Len(input), n \in Token :
          input[i] = Command(n) => n <= asks /\ found[n] = "unrun"
    /\ \A i, j \in 1 .. Len(input), n \in Token :
          input[i] = Command(n) /\ input[j] = Command(n) => i = j

LinuxInv == LinuxTypeOK /\ JudgedRight /\ Truthful(serialBuf) /\ Truthful(output) /\ Unread

LEMMA LinuxInitInv == LinuxInit => LinuxInv
<1> SUFFICES ASSUME LinuxInit PROVE LinuxInv
  OBVIOUS
<1>1. LinuxTypeOK
  <2>1. /\ serialBuf \in Seq(Item) /\ Len(serialBuf) = 0
        /\ input \in Seq(Line) /\ output \in Seq(Item)
    BY DEF LinuxInit
  <2>2. /\ source \in 1 .. Sources /\ 0 \in 0 .. BufMax /\ Len(serialBuf) <= BufMax
        /\ asks \in 0 .. MaxAsks /\ typed \in 0 .. MaxTyped
    BY <2>1, LinuxAssumption DEF LinuxInit
  <2>3. /\ verdict \in [Token -> {"none", "early", "waits", "pass", "fail", "timeout"}]
        /\ found \in [Token -> {"unrun", "there", "absent"}]
    BY DEF LinuxInit
  <2> QED
    BY <2>1, <2>2, <2>3 DEF LinuxInit, LinuxTypeOK
<1>2. JudgedRight
  BY DEF LinuxInit, JudgedRight
<1>3. Truthful(serialBuf) /\ Truthful(output)
  BY DEF LinuxInit, Truthful
<1>4. Unread
  BY DEF LinuxInit, Unread
<1> QED
  BY <1>1, <1>2, <1>3, <1>4 DEF LinuxInv

\* What is sent goes to the end of what is not read yet.
LEMMA SendType ==
    ASSUME NEW line \in Line, NEW out \in Seq(Item), input \in Seq(Line), echo \in BOOLEAN,
           Send(line, out)
    PROVE  input' \in Seq(Line) /\ output' \in Seq(Item)
<1>1. input' \in Seq(Line)
  BY DEF Send
<1>2. line[1] = "check" => <<"echo", line[2]>> \in Item
  BY DEF Line, Key, Item, Command
<1>3. output' \in Seq(Item)
  BY <1>2 DEF Send
<1> QED
  BY <1>1, <1>3

LEMMA SendTruthful ==
    ASSUME NEW line \in Line, NEW out \in Seq(Item), Truthful(out), Send(line, out),
           found' = found, echo' = echo
    PROVE  Truthful(output)'
<1> SUFFICES ASSUME NEW i \in 1 .. Len(output'), NEW n \in Token
             PROVE  /\ output'[i] = <<"pass", n>> => found[n] = "there"
                    /\ output'[i] = <<"fail", n>> => found[n] = "absent"
                    /\ output'[i] = <<"echo", n>> => echo
  BY DEF Truthful
<1>1. CASE output' = out
  BY <1>1 DEF Truthful
<1>2. CASE echo /\ output' = Append(out, <<"echo", line[2]>>)
  <2>1. CASE i = Len(out) + 1
    <3>1. output'[i] = <<"echo", line[2]>>
      BY <1>2, <2>1
    <3> QED
      BY <1>2, <3>1
  <2>2. CASE i \in 1 .. Len(out)
    <3>1. output'[i] = out[i]
      BY <1>2, <2>2
    <3> QED
      BY <2>2, <3>1 DEF Truthful
  <2> QED
    BY <1>2, <2>1, <2>2
<1> QED
  BY <1>1, <1>2 DEF Send

\* A line that is no command leaves the commands as they are.
LEMMA SendUnread ==
    ASSUME NEW line, NEW out, input \in Seq(Line), Unread, Send(line, out),
           \A n \in Token : line # Command(n), found' = found, asks' = asks
    PROVE  Unread'
<1>1. /\ Len(input') = Len(input) + 1
      /\ \A i \in 1 .. Len(input) : input'[i] = input[i]
      /\ input'[Len(input) + 1] = line
  BY DEF Send
<1>2. \A i \in 1 .. Len(input'), n \in Token : input'[i] = Command(n) => i \in 1 .. Len(input)
  BY <1>1
<1> QED
  BY <1>1, <1>2 DEF Unread

\* Reading the first line.
LEMMA ReadUnread ==
    ASSUME input \in Seq(Line), input # <<>>, input' = Tail(input), Unread,
           found' = found, asks' = asks
    PROVE  Unread'
<1>1. /\ Len(input') = Len(input) - 1
      /\ \A i \in 1 .. Len(input') : input'[i] = input[i + 1]
  OBVIOUS
<1>2. Len(input) \in Nat
  OBVIOUS
<1> QED
  BY <1>1, <1>2 DEF Unread

LEMMA SameUnread ==
    ASSUME Unread, input' = input, found' = found, asks' = asks
    PROVE  Unread'
  BY DEF Unread

\* Steps that touch neither the line nor a check.
LEMMA QuietKeeps ==
    ASSUME JudgedRight, Truthful(serialBuf), Truthful(output), Unread,
           UNCHANGED <<serialBuf, askVars, echo, input, output, found>>
    PROVE  JudgedRight' /\ Truthful(serialBuf)' /\ Truthful(output)' /\ Unread'
  BY DEF JudgedRight, Truthful, Unread, askVars

LEMMA LinuxLoads ==
    ASSUME LinuxInv, BootLib \/ SourceLoads \/ NextSource \/ Watchdog
    PROVE  LinuxInv'
<1> USE DEF bootVars, loginVars, vmVars
<1>1. UNCHANGED <<serialBuf, askVars, echo, input, output, found>>
  BY DEF BootLib, SourceLoads, NextSource, Watchdog
<1>2. source' \in 1 .. Sources
  BY LinuxAssumption DEF LinuxInv, LinuxTypeOK, BootLib, SourceLoads, NextSource, Watchdog
<1>3. /\ lib' \in {"idle", "loading", "up", "failed"}
      /\ vm' \in {"off", "kernel", "init", "login", "password", "shell", "busy"}
      /\ readyFired' \in BOOLEAN
      /\ UNCHANGED <<firstSerial, autoLoginSent, passwordSent, cdTimer, typed, flag>>
  BY DEF LinuxInv, LinuxTypeOK, BootLib, SourceLoads, NextSource, Watchdog
<1>4. LinuxTypeOK'
  BY <1>1, <1>2, <1>3 DEF LinuxInv, LinuxTypeOK, askVars
<1> QED
  BY <1>1, <1>4, QuietKeeps DEF LinuxInv

\* The lines that are no commands.
LEMMA PlainLine ==
    ASSUME NEW what \in {"root", "enter", "cd", "touch", "loop"}
    PROVE  /\ <<what, NoToken>> \in Line
           /\ \A n \in Token : <<what, NoToken>> # Command(n)
  BY DEF Line, Key, Command

\* A line that is no command, sent while nothing is read.
LEMMA SendsPlain ==
    ASSUME LinuxInv, NEW what \in {"root", "enter", "cd", "touch", "loop"},
           Send(<<what, NoToken>>, output),
           UNCHANGED <<serialBuf, askVars, echo, found>>
    PROVE  /\ input' \in Seq(Line) /\ output' \in Seq(Item)
           /\ JudgedRight' /\ Truthful(serialBuf)' /\ Truthful(output)' /\ Unread'
<1>1. /\ <<what, NoToken>> \in Line
      /\ \A n \in Token : <<what, NoToken>> # Command(n)
  BY PlainLine
<1>2. /\ input \in Seq(Line) /\ output \in Seq(Item) /\ echo \in BOOLEAN
      /\ Truthful(output) /\ Unread
  BY DEF LinuxInv, LinuxTypeOK
<1>3. input' \in Seq(Line) /\ output' \in Seq(Item)
  BY <1>1, <1>2, SendType
<1>4. Truthful(output)'
  BY <1>1, <1>2, SendTruthful
<1>5. Unread'
  BY <1>1, <1>2, SendUnread DEF askVars
<1>6. JudgedRight' /\ Truthful(serialBuf)'
  BY DEF LinuxInv, JudgedRight, Truthful, askVars
<1> QED
  BY <1>3, <1>4, <1>5, <1>6

LEMMA LinuxCdDue ==
    ASSUME LinuxInv, CdDue
    PROVE  LinuxInv'
<1> USE DEF bootVars
<1>1. /\ UNCHANGED <<source, lib, serialBuf, askVars, echo, found, firstSerial, readyFired,
                     autoLoginSent, passwordSent, typed, vm, flag>>
      /\ cdTimer' = FALSE
  BY DEF CdDue
<1>2. /\ input' \in Seq(Line) /\ output' \in Seq(Item)
      /\ JudgedRight' /\ Truthful(serialBuf)' /\ Truthful(output)' /\ Unread'
  <2>1. CASE readyFired
    <3>1. UNCHANGED <<input, output>>
      BY <2>1 DEF CdDue
    <3> QED
      BY <1>1, <3>1, QuietKeeps DEF LinuxInv, LinuxTypeOK
  <2>2. CASE ~readyFired
    <3>1. Send(<<"cd", NoToken>>, output)
      BY <2>2 DEF CdDue
    <3> QED
      BY <1>1, <3>1, SendsPlain
  <2> QED
    BY <2>1, <2>2
<1>3. LinuxTypeOK'
  <2>1. UNCHANGED <<source, lib, serialBuf, asks, pendingCheck, startIdx, verdict, echo, found,
                    firstSerial, readyFired, autoLoginSent, passwordSent, typed, vm, flag>>
    BY <1>1 DEF askVars
  <2>2. LinuxTypeOK /\ input' \in Seq(Line) /\ output' \in Seq(Item) /\ cdTimer' \in BOOLEAN
    BY <1>1, <1>2 DEF LinuxInv
  <2> QED
    BY <2>1, <2>2 DEF LinuxTypeOK
<1> QED
  BY <1>2, <1>3 DEF LinuxInv

LEMMA LinuxTypes ==
    ASSUME LinuxInv, UserTypes
    PROVE  LinuxInv'
<1> USE DEF bootVars, loginVars
<1>1. UNCHANGED <<source, lib, serialBuf, askVars, echo, found, firstSerial, readyFired,
                  autoLoginSent, passwordSent, cdTimer, flag>>
  BY DEF UserTypes
<1>2. CASE /\ typed < MaxTyped /\ typed' = typed + 1
           /\ \E key \in Key : Send(key, output)
           /\ UNCHANGED vm
  <2>1. PICK what \in {"touch", "loop"} : Send(<<what, NoToken>>, output)
    BY <1>2 DEF Key
  <2>2. /\ input' \in Seq(Line) /\ output' \in Seq(Item)
        /\ JudgedRight' /\ Truthful(serialBuf)' /\ Truthful(output)' /\ Unread'
    BY <1>1, <2>1, SendsPlain
  <2>3. typed' \in 0 .. MaxTyped
    BY <1>2, LinuxAssumption DEF LinuxInv, LinuxTypeOK
  <2>4. LinuxTypeOK'
    BY <1>1, <1>2, <2>2, <2>3 DEF LinuxInv, LinuxTypeOK, askVars
  <2> QED
    BY <2>2, <2>4 DEF LinuxInv
<1>3. CASE /\ vm' = "shell" /\ output' = Append(output, <<"prompt", NoToken>>)
           /\ UNCHANGED <<input, typed>>
  <2>1. output \in Seq(Item) /\ <<"prompt", NoToken>> \in Item
    BY DEF LinuxInv, LinuxTypeOK, Item, Plain
  <2>2. output' \in Seq(Item)
    BY <1>3, <2>1
  <2>3. Truthful(output)'
    <3> SUFFICES ASSUME NEW i \in 1 .. Len(output'), NEW n \in Token
                 PROVE  /\ output'[i] = <<"pass", n>> => found[n] = "there"
                        /\ output'[i] = <<"fail", n>> => found[n] = "absent"
                        /\ output'[i] = <<"echo", n>> => echo
      BY <1>1 DEF Truthful
    <3>1. CASE i \in 1 .. Len(output)
      <4>1. output'[i] = output[i]
        BY <1>3, <2>1, <3>1
      <4> QED
        BY <3>1, <4>1 DEF LinuxInv, Truthful
    <3>2. CASE i = Len(output) + 1
      <4>1. output'[i] = <<"prompt", NoToken>>
        BY <1>3, <2>1, <3>2
      <4> QED
        BY <4>1
    <3> QED
      BY <1>3, <2>1, <3>1, <3>2
  <2>4. JudgedRight' /\ Truthful(serialBuf)' /\ Unread'
    BY <1>1, <1>3 DEF LinuxInv, JudgedRight, Truthful, Unread, askVars
  <2>5. LinuxTypeOK'
    BY <1>1, <1>3, <2>2 DEF LinuxInv, LinuxTypeOK, askVars
  <2> QED
    BY <2>3, <2>4, <2>5 DEF LinuxInv
<1> QED
  BY <1>2, <1>3 DEF UserTypes

LEMMA LinuxTimer ==
    ASSUME LinuxInv, NEW n \in Token, AskTimer(n)
    PROVE  LinuxInv'
<1> USE DEF bootVars, loginVars, vmVars
<1>1. UNCHANGED <<source, lib, serialBuf, echo, input, output, found, firstSerial, readyFired,
                  autoLoginSent, passwordSent, cdTimer, typed, vm, flag, asks, startIdx>>
  BY DEF AskTimer
<1>2. /\ verdict' = [verdict EXCEPT ![n] = "timeout"]
      /\ pendingCheck' \in Token \cup {NoToken}
  BY DEF AskTimer, LinuxInv, LinuxTypeOK
<1>3. LinuxTypeOK'
  BY <1>1, <1>2 DEF LinuxInv, LinuxTypeOK
<1>4. JudgedRight'
  BY <1>1, <1>2 DEF LinuxInv, LinuxTypeOK, JudgedRight
<1>5. Truthful(serialBuf)' /\ Truthful(output)' /\ Unread'
  BY <1>1 DEF LinuxInv, Truthful, Unread
<1> QED
  BY <1>3, <1>4, <1>5 DEF LinuxInv

LEMMA LinuxAsks ==
    ASSUME LinuxInv, RunCheck
    PROVE  LinuxInv'
<1> DEFINE n == asks + 1
<1>1. n \in Token /\ asks \in 0 .. MaxAsks /\ asks' = n /\ n \in 0 .. MaxAsks
  <2>1. asks \in 0 .. MaxAsks
    BY DEF LinuxInv, LinuxTypeOK
  <2>2. asks < MaxAsks /\ asks' = asks + 1
    BY DEF RunCheck
  <2> QED
    BY <2>1, <2>2, LinuxAssumption DEF Token
<1>2. UNCHANGED <<source, lib, serialBuf, echo, found, firstSerial, readyFired,
                  autoLoginSent, passwordSent, cdTimer, typed, vm, flag>>
  BY DEF RunCheck, bootVars, loginVars
<1>3. PICK v \in {"waits", "early"} : verdict' = [verdict EXCEPT ![n] = v]
  BY DEF RunCheck
<1>4. \/ Send(Command(n), output) /\ pendingCheck' = n /\ startIdx' = Len(serialBuf)
      \/ UNCHANGED <<input, output, pendingCheck, startIdx>>
  BY DEF RunCheck
<1>5. /\ input \in Seq(Line) /\ output \in Seq(Item) /\ echo \in BOOLEAN
      /\ Truthful(output) /\ Unread /\ Command(n) \in Line
  BY <1>1 DEF LinuxInv, LinuxTypeOK, Line
<1> HIDE DEF n
<1>6. input' \in Seq(Line) /\ output' \in Seq(Item)
  BY <1>4, <1>5, SendType
<1>7. Truthful(output)'
  <2>1. CASE Send(Command(n), output)
    BY <1>2, <1>5, <2>1, SendTruthful
  <2>2. CASE UNCHANGED output
    BY <1>2, <1>5, <2>2 DEF Truthful
  <2> QED
    BY <1>4, <2>1, <2>2
<1>8. Unread'
  <2>1. found[n] = "unrun" /\ \A i \in 1 .. Len(input) : input[i] # Command(n)
    BY <1>1, <1>5 DEF Unread, n
  <2>2. CASE Send(Command(n), output)
    <3>1. /\ Len(input') = Len(input) + 1
          /\ \A i \in 1 .. Len(input) : input'[i] = input[i]
          /\ input'[Len(input) + 1] = Command(n)
      BY <1>5, <2>2 DEF Send
    <3>2. \A i \in 1 .. Len(input') : i \in 1 .. Len(input) \/ i = Len(input) + 1
      BY <1>5, <3>1
    <3>3. \A m \in Token : m > asks' => found'[m] = "unrun"
      BY <1>1, <1>2, <1>5 DEF Unread, Token, n
    <3>4. \A i \in 1 .. Len(input'), m \in Token :
             input'[i] = Command(m) => m <= asks' /\ found'[m] = "unrun"
      <4> SUFFICES ASSUME NEW i \in 1 .. Len(input'), NEW m \in Token, input'[i] = Command(m)
                   PROVE  m <= asks' /\ found'[m] = "unrun"
        OBVIOUS
      <4>1. CASE i \in 1 .. Len(input)
        <5>1. m <= asks /\ found[m] = "unrun"
          BY <1>5, <3>1, <4>1 DEF Unread
        <5> QED
          BY <1>1, <1>2, <5>1 DEF Token, n
      <4>2. CASE i = Len(input) + 1
        <5>1. m = n
          BY <3>1, <4>2 DEF Command
        <5> QED
          BY <1>1, <1>2, <2>1, <5>1 DEF Token
      <4> QED
        BY <3>2, <4>1, <4>2
    <3>5. \A i, j \in 1 .. Len(input'), m \in Token :
             input'[i] = Command(m) /\ input'[j] = Command(m) => i = j
      <4>1. Command(n) = input'[Len(input) + 1]
        BY <3>1
      <4> SUFFICES ASSUME NEW i \in 1 .. Len(input'), NEW j \in 1 .. Len(input'), NEW m \in Token,
                          input'[i] = Command(m), input'[j] = Command(m)
                   PROVE  i = j
        OBVIOUS
      <4>2. CASE m = n
        <5>1. i \notin 1 .. Len(input) /\ j \notin 1 .. Len(input)
          BY <2>1, <3>1, <4>2
        <5> QED
          BY <3>2, <5>1
      <4>3. CASE m # n
        <5>1. input'[Len(input) + 1] # Command(m)
          BY <3>1, <4>3 DEF Command
        <5>2. i \in 1 .. Len(input) /\ j \in 1 .. Len(input)
          BY <3>2, <5>1
        <5>3. input[i] = Command(m) /\ input[j] = Command(m)
          BY <3>1, <5>2
        <5> QED
          BY <1>5, <5>2, <5>3 DEF Unread
      <4> QED
        BY <4>2, <4>3
    <3> QED
      BY <3>3, <3>4, <3>5 DEF Unread
  <2>3. CASE UNCHANGED input
    BY <1>1, <1>2, <1>5, <2>3 DEF Unread, Token, n
  <2> QED
    BY <1>4, <2>2, <2>3
<1>9. JudgedRight'
  BY <1>1, <1>2, <1>3 DEF LinuxInv, LinuxTypeOK, JudgedRight
<1>10. LinuxTypeOK'
  <2>1. startIdx' \in 0 .. BufMax /\ pendingCheck' \in Token \cup {NoToken}
    BY <1>1, <1>4, LinuxAssumption DEF LinuxInv, LinuxTypeOK
  <2>2. verdict' \in [Token -> {"none", "early", "waits", "pass", "fail", "timeout"}]
    BY <1>3 DEF LinuxInv, LinuxTypeOK
  <2> QED
    BY <1>1, <1>2, <1>6, <2>1, <2>2 DEF LinuxInv, LinuxTypeOK
<1>11. Truthful(serialBuf)'
  BY <1>2 DEF LinuxInv, Truthful
<1> QED
  BY <1>7, <1>8, <1>9, <1>10, <1>11 DEF LinuxInv

-----------------------------------------------------------------------------
\* What the machine says is delivered: the listener of the serial line.
LEMMA RolledType ==
    ASSUME NEW b \in Seq(Item), Len(b) \in 1 .. BufMax + 1
    PROVE  /\ Rolled(b) \in Seq(Item) /\ Len(Rolled(b)) \in 0 .. BufMax
           /\ \A i \in 1 .. Len(Rolled(b)) : \E j \in 1 .. Len(b) : Rolled(b)[i] = b[j]
<1>1. CASE Len(b) <= BufMax
  <2>1. Rolled(b) = b
    BY <1>1, LinuxAssumption DEF Rolled
  <2>2. Len(b) \in 0 .. BufMax
    BY <1>1, LinuxAssumption
  <2> QED
    BY <2>1, <2>2
<1>2. CASE Len(b) > BufMax
  <2> DEFINE lo == Len(b) - BufKept + 1
  <2>1. lo \in 1 .. Len(b) /\ Len(b) \in Nat /\ BufKept \in Nat /\ BufKept <= BufMax
    BY <1>2, LinuxAssumption
  <2>2. Rolled(b) = SubSeq(b, lo, Len(b))
    BY <1>2 DEF Rolled
  <2> HIDE DEF lo
  <2>3. /\ SubSeq(b, lo, Len(b)) \in Seq(Item)
        /\ Len(SubSeq(b, lo, Len(b))) = Len(b) - lo + 1
        /\ \A i \in 1 .. Len(b) - lo + 1 : SubSeq(b, lo, Len(b))[i] = b[lo + i - 1]
    BY <2>1
  <2>4. \A i \in 1 .. Len(b) - lo + 1 : lo + i - 1 \in 1 .. Len(b)
    BY <2>1
  <2>5. Len(b) - lo + 1 = BufKept
    BY <2>1 DEF lo
  <2> QED
    BY <2>1, <2>2, <2>3, <2>4, <2>5
<1>3. Len(b) <= BufMax \/ Len(b) > BufMax
  BY LinuxAssumption
<1> QED
  BY <1>1, <1>2, <1>3

LEMMA RolledTruthful ==
    ASSUME NEW b \in Seq(Item), Len(b) \in 1 .. BufMax + 1, Truthful(b)
    PROVE  Truthful(Rolled(b))
  BY RolledType DEF Truthful

\* A mark in the text that the listener reads tells the truth.
LEMMA WindowTruthful ==
    ASSUME NEW b \in Seq(Item), Truthful(b), NEW k \in Nat
    PROVE  Truthful(SubSeq(b, k + 1, Len(b)))
<1>1. CASE k < Len(b)
  <2>1. /\ Len(SubSeq(b, k + 1, Len(b))) = Len(b) - k
        /\ \A i \in 1 .. Len(b) - k : SubSeq(b, k + 1, Len(b))[i] = b[k + i]
    BY <1>1
  <2>2. \A i \in 1 .. Len(b) - k : k + i \in 1 .. Len(b)
    BY <1>1
  <2> DEFINE text == SubSeq(b, k + 1, Len(b))
  <2>3. /\ Len(text) = Len(b) - k
        /\ \A i \in 1 .. Len(text) : text[i] = b[k + i] /\ k + i \in 1 .. Len(b)
    BY <2>1, <2>2
  <2> HIDE DEF text
  <2>4. Truthful(text)
    <3> SUFFICES ASSUME NEW i \in 1 .. Len(text), NEW n \in Token
                 PROVE  /\ text[i] = <<"pass", n>> => found[n] = "there"
                        /\ text[i] = <<"fail", n>> => found[n] = "absent"
                        /\ text[i] = <<"echo", n>> => echo
      BY DEF Truthful
    <3>1. PICK at \in 1 .. Len(b) : text[i] = b[at]
      BY <2>3
    <3> QED
      BY <3>1 DEF Truthful
  <2> QED
    BY <2>4 DEF text
<1>2. CASE k >= Len(b)
  <2>1. Len(SubSeq(b, k + 1, Len(b))) = 0
    BY <1>2
  <2> QED
    BY <2>1 DEF Truthful
<1> QED
  BY <1>1, <1>2

LEMMA ChunkJudges ==
    ASSUME LinuxInv, NEW b \in Seq(Item), Truthful(b), OnChunk(b), found' = found, echo' = echo
    PROVE  /\ JudgedRight' /\ pendingCheck' \in Token \cup {NoToken}
           /\ verdict' \in [Token -> {"none", "early", "waits", "pass", "fail", "timeout"}]
<1> DEFINE text == SubSeq(b, startIdx + 1, Len(b))
           marks == {kind \in {"pass", "fail"} : Marked(text, kind, pendingCheck)}
<1>1. /\ pendingCheck \in Token \cup {NoToken} /\ startIdx \in Nat
      /\ verdict \in [Token -> {"none", "early", "waits", "pass", "fail", "timeout"}]
      /\ JudgedRight /\ echo \in BOOLEAN
  BY LinuxAssumption DEF LinuxInv, LinuxTypeOK
<1>2. CASE pendingCheck = NoToken \/ marks = {}
  <2>1. UNCHANGED <<verdict, pendingCheck>>
    BY <1>2 DEF OnChunk
  <2> QED
    BY <1>1, <2>1 DEF JudgedRight
<1>3. CASE pendingCheck # NoToken /\ marks # {}
  <2> DEFINE v == IF "pass" \in marks THEN "pass" ELSE "fail"
  <2>1. /\ verdict' = [verdict EXCEPT ![pendingCheck] = v]
        /\ pendingCheck' = NoToken /\ pendingCheck \in Token
    BY <1>1, <1>3 DEF OnChunk
  <2>2. Truthful(text)
    BY <1>1, WindowTruthful
  <2> HIDE DEF text
  <2>3. v = "fail" => found[pendingCheck] = "absent"
    <3> SUFFICES ASSUME "pass" \notin marks PROVE found[pendingCheck] = "absent"
      OBVIOUS
    <3>1. Marked(text, "fail", pendingCheck) /\ ~Marked(text, "pass", pendingCheck)
      BY <1>3
    <3>2. Contains(text, <<"fail", pendingCheck>>)
      BY <3>1 DEF Marked
    <3> QED
      BY <2>1, <2>2, <3>2 DEF Contains, Truthful
  <2>4. v = "pass" /\ ~echo => found[pendingCheck] = "there"
    <3> SUFFICES ASSUME "pass" \in marks, ~echo PROVE found[pendingCheck] = "there"
      OBVIOUS
    <3>1. Marked(text, "pass", pendingCheck)
      OBVIOUS
    <3>2. ~Contains(text, <<"echo", pendingCheck>>)
      BY <2>1, <2>2 DEF Contains, Truthful
    <3>3. Contains(text, <<"pass", pendingCheck>>)
      BY <3>1, <3>2 DEF Marked
    <3> QED
      BY <2>1, <2>2, <3>3 DEF Contains, Truthful
  <2>5. v \in {"pass", "fail"}
    OBVIOUS
  <2> HIDE DEF v, marks
  <2>6. JudgedRight'
    BY <1>1, <2>1, <2>3, <2>4, <2>5 DEF JudgedRight
  <2> QED
    BY <1>1, <2>1, <2>5, <2>6
<1> QED
  BY <1>2, <1>3

LEMMA LoginSends ==
    ASSUME LinuxInv, NEW b, NEW out \in Seq(Item), Truthful(out), TryAutologin(b, out),
           found' = found, echo' = echo, asks' = asks
    PROVE  /\ input' \in Seq(Line) /\ output' \in Seq(Item)
           /\ Truthful(output)' /\ Unread'
           /\ autoLoginSent' \in BOOLEAN /\ passwordSent' \in BOOLEAN /\ cdTimer' \in BOOLEAN
<1>1. /\ input \in Seq(Line) /\ echo \in BOOLEAN /\ Unread
      /\ autoLoginSent \in BOOLEAN /\ passwordSent \in BOOLEAN /\ cdTimer \in BOOLEAN
  BY DEF LinuxInv, LinuxTypeOK
<1>2. autoLoginSent' \in BOOLEAN /\ passwordSent' \in BOOLEAN /\ cdTimer' \in BOOLEAN
  BY <1>1 DEF TryAutologin
<1>3. \/ \E what \in {"root", "enter"} : Send(<<what, NoToken>>, out)
      \/ output' = out /\ UNCHANGED input
  BY DEF TryAutologin
<1>4. ASSUME NEW what \in {"root", "enter"}, Send(<<what, NoToken>>, out)
      PROVE  input' \in Seq(Line) /\ output' \in Seq(Item) /\ Truthful(output)' /\ Unread'
  <2>1. /\ <<what, NoToken>> \in Line
        /\ \A n \in Token : <<what, NoToken>> # Command(n)
    BY PlainLine
  <2>2. input' \in Seq(Line) /\ output' \in Seq(Item)
    BY <1>1, <1>4, <2>1, SendType
  <2>3. Truthful(output)'
    BY <1>1, <1>4, <2>1, SendTruthful
  <2>4. Unread'
    BY <1>1, <1>4, <2>1, SendUnread
  <2> QED
    BY <2>2, <2>3, <2>4
<1>5. CASE output' = out /\ UNCHANGED input
  <2>1. Truthful(output)'
    BY <1>5 DEF Truthful
  <2>2. Unread'
    BY <1>1, <1>5 DEF Unread
  <2>3. input' \in Seq(Line)
    BY <1>1, <1>5
  <2>4. output' \in Seq(Item)
    BY <1>5
  <2> QED
    BY <1>2, <2>1, <2>2, <2>3, <2>4
<1> QED
  BY <1>2, <1>3, <1>4, <1>5

LEMMA LinuxListens ==
    ASSUME LinuxInv, SerialByte
    PROVE  LinuxInv'
<1> DEFINE b == Rolled(Append(serialBuf, Head(output)))
           out == Tail(output)
<1>1. /\ serialBuf' = b /\ OnChunk(b) /\ TryAutologin(b, out)
      /\ readyFired' = (readyFired \/ PromptHit(b)) /\ firstSerial' = TRUE
      /\ output # <<>>
      /\ UNCHANGED <<source, lib, asks, startIdx, typed, echo, vm, flag, found>>
  BY DEF SerialByte, bootVars
<1>2. /\ output \in Seq(Item) /\ serialBuf \in Seq(Item) /\ Len(serialBuf) <= BufMax
      /\ Truthful(output) /\ Truthful(serialBuf)
  BY DEF LinuxInv, LinuxTypeOK
<1>3. /\ Head(output) \in Item /\ Head(output) = output[1] /\ 1 \in 1 .. Len(output)
      /\ out \in Seq(Item) /\ Len(out) = Len(output) - 1
      /\ \A i \in 1 .. Len(out) : out[i] = output[i + 1]
  BY <1>1, <1>2
<1>4. Truthful(out)
  <2>1. \A i \in 1 .. Len(out) : i + 1 \in 1 .. Len(output)
    BY <1>2, <1>3
  <2> QED
    BY <1>2, <1>3, <2>1 DEF Truthful
<1> DEFINE c == Append(serialBuf, Head(output))
<1>5. /\ c \in Seq(Item) /\ Len(c) = Len(serialBuf) + 1
      /\ c[Len(serialBuf) + 1] = Head(output)
      /\ \A i \in 1 .. Len(serialBuf) : c[i] = serialBuf[i]
  BY <1>2, <1>3
<1>6. Truthful(c)
  <2>1. \A i \in 1 .. Len(c) : i \in 1 .. Len(serialBuf) \/ i = Len(serialBuf) + 1
    BY <1>2, <1>5
  <2> HIDE DEF c
  <2> SUFFICES ASSUME NEW i \in 1 .. Len(c), NEW n \in Token
               PROVE  /\ c[i] = <<"pass", n>> => found[n] = "there"
                      /\ c[i] = <<"fail", n>> => found[n] = "absent"
                      /\ c[i] = <<"echo", n>> => echo
    BY DEF Truthful
  <2>2. CASE i \in 1 .. Len(serialBuf)
    <3>1. c[i] = serialBuf[i]
      BY <1>5, <2>2
    <3> QED
      BY <1>2, <2>2, <3>1 DEF Truthful
  <2>3. CASE i = Len(serialBuf) + 1
    <3>1. c[i] = output[1] /\ 1 \in 1 .. Len(output)
      BY <1>3, <1>5, <2>3
    <3> QED
      BY <1>2, <3>1 DEF Truthful
  <2> QED
    BY <2>1, <2>2, <2>3
<1>7. Len(c) \in 1 .. BufMax + 1
  BY <1>2, <1>5, LinuxAssumption
<1>8. b \in Seq(Item) /\ Len(b) <= BufMax /\ Truthful(b)
  <2> HIDE DEF c
  <2>1. b = Rolled(c)
    BY DEF c
  <2> HIDE DEF b
  <2>2. Rolled(c) \in Seq(Item) /\ Len(Rolled(c)) \in 0 .. BufMax
    BY <1>5, <1>7, RolledType
  <2>3. Truthful(Rolled(c))
    BY <1>5, <1>6, <1>7, RolledTruthful
  <2> QED
    BY <2>1, <2>2, <2>3, LinuxAssumption
<1> HIDE DEF b, c, out
<1>9. Truthful(serialBuf)'
  BY <1>1, <1>8 DEF Truthful
<1>10. /\ JudgedRight' /\ pendingCheck' \in Token \cup {NoToken}
       /\ verdict' \in [Token -> {"none", "early", "waits", "pass", "fail", "timeout"}]
  BY <1>1, <1>8, ChunkJudges
<1>11. /\ input' \in Seq(Line) /\ output' \in Seq(Item) /\ Truthful(output)' /\ Unread'
       /\ autoLoginSent' \in BOOLEAN /\ passwordSent' \in BOOLEAN /\ cdTimer' \in BOOLEAN
  BY <1>1, <1>3, <1>4, LoginSends
<1>12. readyFired' \in BOOLEAN /\ firstSerial' \in BOOLEAN
  BY <1>1 DEF LinuxInv, LinuxTypeOK
<1>13. LinuxTypeOK'
  BY <1>1, <1>8, <1>10, <1>11, <1>12 DEF LinuxInv, LinuxTypeOK
<1> QED
  BY <1>9, <1>10, <1>11, <1>13 DEF LinuxInv

-----------------------------------------------------------------------------
(* The machine.                                                            *)

\* What is said before there is a machine, and at the login, is no mark.
LEMMA SaysPlain ==
    ASSUME NEW kind \in {"text", "login", "password", "slash", "prompt"},
           Says(<< <<kind, NoToken>> >>)
    PROVE  output' \in Seq(Item) /\ Truthful(output)'
<1>1. output' = << <<kind, NoToken>> >>
  BY DEF Says
<1>2. <<kind, NoToken>> \in Item
  BY DEF Item, Plain
<1>3. output' \in Seq(Item) /\ Len(output') = 1 /\ output'[1] = <<kind, NoToken>>
  BY <1>1, <1>2
<1>4. \A i \in 1 .. Len(output') : output'[i] = <<kind, NoToken>>
  BY <1>3
<1>5. Truthful(output)'
  BY <1>4 DEF Truthful
<1> QED
  BY <1>3, <1>5

LEMMA LinuxBoots ==
    ASSUME LinuxInv, Machine, Boots \/ LogsIn
    PROVE  LinuxInv'
<1>1. UNCHANGED <<source, lib, serialBuf, firstSerial, readyFired, autoLoginSent, passwordSent,
                  cdTimer, asks, pendingCheck, startIdx, verdict, typed, echo, flag, found>>
  BY DEF Machine, Boots, LogsIn, bootVars, loginVars, askVars
<1>2. vm' \in {"off", "kernel", "init", "login", "password", "shell", "busy"}
  BY DEF Boots, LogsIn
<1>3. \E kind \in {"text", "login", "password", "slash", "prompt"} : Says(<< <<kind, NoToken>> >>)
  BY DEF Boots, LogsIn
<1>4. output' \in Seq(Item) /\ Truthful(output)'
  BY <1>3, SaysPlain
<1>5. input' \in Seq(Line) /\ Unread'
  <2>1. input \in Seq(Line) /\ Unread
    BY DEF LinuxInv, LinuxTypeOK
  <2>2. CASE UNCHANGED input
    BY <1>1, <2>1, <2>2 DEF Unread
  <2>3. CASE input # <<>> /\ input' = Tail(input)
    <3>1. input' \in Seq(Line)
      BY <2>1, <2>3
    <3> QED
      BY <1>1, <2>1, <2>3, <3>1, ReadUnread
  <2> QED
    BY <2>2, <2>3 DEF Boots, LogsIn
<1>6. JudgedRight' /\ Truthful(serialBuf)'
  BY <1>1 DEF LinuxInv, JudgedRight, Truthful
<1>7. LinuxTypeOK'
  BY <1>1, <1>2, <1>4, <1>5 DEF LinuxInv, LinuxTypeOK
<1> QED
  BY <1>4, <1>5, <1>6, <1>7 DEF LinuxInv

\* The shell reads a line that is no command.
LEMMA LinuxRunsPlain ==
    ASSUME LinuxInv, Machine, Runs, Head(input)[1] # "check"
    PROVE  LinuxInv'
<1> DEFINE what == Head(input)[1]
<1>1. UNCHANGED <<source, lib, serialBuf, firstSerial, readyFired, autoLoginSent, passwordSent,
                  cdTimer, asks, pendingCheck, startIdx, verdict, typed, echo, found>>
  BY DEF Machine, Runs, bootVars, loginVars, askVars
<1>2. vm' \in {"shell", "busy"} /\ flag' \in BOOLEAN
  BY DEF Runs, LinuxInv, LinuxTypeOK
<1>3. \/ Says(<<>>)
      \/ \E kind \in {"slash", "prompt"} : Says(<< <<kind, NoToken>> >>)
  BY DEF Runs
<1>4. output' \in Seq(Item) /\ Truthful(output)'
  <2>1. CASE Says(<<>>)
    <3>1. output' = <<>>
      BY <2>1 DEF Says
    <3>2. output' \in Seq(Item) /\ Len(output') = 0
      BY <3>1
    <3> QED
      BY <3>2 DEF Truthful
  <2> QED
    BY <1>3, <2>1, SaysPlain
<1>5. input' \in Seq(Line) /\ Unread'
  <2>1. input \in Seq(Line) /\ Unread /\ input # <<>> /\ input' = Tail(input)
    BY DEF LinuxInv, LinuxTypeOK, Runs
  <2>2. input' \in Seq(Line)
    BY <2>1
  <2> QED
    BY <1>1, <2>1, <2>2, ReadUnread
<1>6. JudgedRight' /\ Truthful(serialBuf)'
  BY <1>1 DEF LinuxInv, JudgedRight, Truthful
<1>7. LinuxTypeOK'
  BY <1>1, <1>2, <1>4, <1>5 DEF LinuxInv, LinuxTypeOK
<1> QED
  BY <1>4, <1>5, <1>6, <1>7 DEF LinuxInv

\* The shell runs a check's command: the first and only time.
LEMMA LinuxRunsCheck ==
    ASSUME LinuxInv, Machine, Runs, Head(input)[1] = "check"
    PROVE  LinuxInv'
<1>1. UNCHANGED <<source, lib, serialBuf, firstSerial, readyFired, autoLoginSent, passwordSent,
                  cdTimer, asks, pendingCheck, startIdx, verdict, typed, echo, vm>>
  BY DEF Machine, Runs, bootVars, loginVars, askVars
<1>2. flag' = flag /\ flag \in BOOLEAN
  BY DEF Runs, LinuxInv, LinuxTypeOK
<1>3. /\ input \in Seq(Line) /\ Unread /\ input # <<>> /\ input' = Tail(input)
      /\ found \in [Token -> {"unrun", "there", "absent"}] /\ JudgedRight
      /\ Truthful(serialBuf) /\ serialBuf \in Seq(Item)
      /\ verdict \in [Token -> {"none", "early", "waits", "pass", "fail", "timeout"}]
  BY DEF LinuxInv, LinuxTypeOK, Runs
<1>4. /\ Head(input) = input[1] /\ 1 \in 1 .. Len(input) /\ Head(input) \in Line
      /\ input' \in Seq(Line) /\ Len(input') = Len(input) - 1
      /\ \A i \in 1 .. Len(input') : input'[i] = input[i + 1] /\ i + 1 \in 1 .. Len(input)
  BY <1>3
<1>5. PICK n \in Token : Head(input) = Command(n)
  BY <1>4 DEF Line, Key, Command
<1>6. found[n] = "unrun" /\ n <= asks
  BY <1>3, <1>4, <1>5 DEF Unread
<1> DEFINE saw == IF flag THEN "there" ELSE "absent"
           mark == IF flag THEN "pass" ELSE "fail"
<1>7. /\ found' = [found EXCEPT ![n] = saw]
      /\ Says(<< <<mark, n>>, <<"prompt", NoToken>> >>)
  <2>1. Head(input)[1] = "check" /\ Head(input)[2] = n
    BY <1>5 DEF Command
  <2>2. found' = [found EXCEPT ![n] = saw]
    BY <2>1 DEF Runs
  <2>3. Says(<< <<mark, n>>, <<"prompt", NoToken>> >>)
    BY <2>1 DEF Runs
  <2> QED
    BY <2>2, <2>3
<1>8. saw \in {"there", "absent"} /\ found'[n] = saw
  BY <1>3, <1>7
<1>9. output' \in Seq(Item) /\ Truthful(output)'
  <2>1. <<mark, n>> \in Item /\ <<"prompt", NoToken>> \in Item
    BY DEF Item, Plain
  <2>2. output' = << <<mark, n>>, <<"prompt", NoToken>> >>
    BY <1>7 DEF Says
  <2>3. /\ output' \in Seq(Item) /\ Len(output') = 2
        /\ output'[1] = <<mark, n>> /\ output'[2] = <<"prompt", NoToken>>
    BY <2>1, <2>2
  <2>4. \A i \in 1 .. Len(output') : output'[i] \in {<<mark, n>>, <<"prompt", NoToken>>}
    BY <2>3
  <2>5. (mark = "pass" /\ saw = "there") \/ (mark = "fail" /\ saw = "absent")
    <3>1. CASE flag
      BY <3>1
    <3>2. CASE ~flag
      BY <3>2
    <3> QED
      BY <3>1, <3>2
  <2>6. Truthful(output)'
    <3> HIDE DEF mark, saw
    <3> SUFFICES ASSUME NEW i \in 1 .. Len(output'), NEW m \in Token
                 PROVE  /\ output'[i] = <<"pass", m>> => found'[m] = "there"
                        /\ output'[i] = <<"fail", m>> => found'[m] = "absent"
                        /\ output'[i] = <<"echo", m>> => echo'
      BY DEF Truthful
    <3> QED
      BY <1>8, <2>4, <2>5
  <2> QED
    BY <2>3, <2>6
<1> HIDE DEF saw, mark
<1>10. \A m \in Token : found[m] # "unrun" => found'[m] = found[m]
  BY <1>3, <1>6, <1>7
<1>11. Truthful(serialBuf)'
  BY <1>1, <1>3, <1>10 DEF Truthful
<1>12. JudgedRight'
  BY <1>1, <1>3, <1>10 DEF JudgedRight
<1>13. found' \in [Token -> {"unrun", "there", "absent"}]
  BY <1>3, <1>7, <1>8
<1>14. Unread'
  <2>1. \A m \in Token : m # n => found'[m] = found[m]
    BY <1>3, <1>7
  <2>2. \A i \in 1 .. Len(input'), m \in Token : input'[i] = Command(m) => m # n
    <3>1. \A i \in 1 .. Len(input') : i + 1 # 1 /\ i + 1 \in 1 .. Len(input)
      BY <1>3, <1>4
    <3> QED
      BY <1>3, <1>4, <1>5, <3>1 DEF Unread
  <2>3. \A m \in Token : m > asks' => found'[m] = "unrun"
    <3>1. \A m \in Token : m > asks => m # n
      BY <1>1, <1>6 DEF LinuxInv, LinuxTypeOK, Token
    <3> QED
      BY <1>1, <1>3, <2>1, <3>1 DEF Unread
  <2>4. \A i \in 1 .. Len(input'), m \in Token :
           input'[i] = Command(m) => m <= asks' /\ found'[m] = "unrun"
    BY <1>1, <1>3, <1>4, <2>1, <2>2 DEF Unread
  <2>5. \A i, j \in 1 .. Len(input'), m \in Token :
           input'[i] = Command(m) /\ input'[j] = Command(m) => i = j
    <3> SUFFICES ASSUME NEW i \in 1 .. Len(input'), NEW j \in 1 .. Len(input'), NEW m \in Token,
                        input'[i] = Command(m), input'[j] = Command(m)
                 PROVE  i = j
      OBVIOUS
    <3>1. i + 1 = j + 1
      BY <1>3, <1>4 DEF Unread
    <3> QED
      BY <3>1
  <2> QED
    BY <2>3, <2>4, <2>5 DEF Unread
<1>15. LinuxTypeOK'
  BY <1>1, <1>2, <1>4, <1>9, <1>13 DEF LinuxInv, LinuxTypeOK
<1> QED
  BY <1>9, <1>11, <1>12, <1>14, <1>15 DEF LinuxInv

LEMMA LinuxStep == LinuxInv /\ [LinuxNext]_linuxVars => LinuxInv'
<1> SUFFICES ASSUME LinuxInv, [LinuxNext]_linuxVars PROVE LinuxInv'
  OBVIOUS
<1>1. CASE BootLib \/ SourceLoads \/ NextSource \/ Watchdog
  BY <1>1, LinuxLoads
<1>2. CASE SerialByte
  BY <1>2, LinuxListens
<1>3. CASE CdDue
  BY <1>3, LinuxCdDue
<1>4. CASE UserTypes
  BY <1>4, LinuxTypes
<1>5. CASE RunCheck
  BY <1>5, LinuxAsks
<1>6. CASE \E n \in Token : AskTimer(n)
  BY <1>6, LinuxTimer
<1>7. CASE Machine
  <2>1. CASE Boots \/ LogsIn
    BY <1>7, <2>1, LinuxBoots
  <2>2. CASE Runs
    BY <1>7, <2>2, LinuxRunsPlain, LinuxRunsCheck
  <2> QED
    BY <1>7, <2>1, <2>2 DEF Machine
<1>8. CASE UNCHANGED linuxVars
  <2>1. LinuxTypeOK'
    BY <1>8 DEF LinuxInv, LinuxTypeOK, linuxVars, bootVars, loginVars, askVars, vmVars
  <2>2. JudgedRight' /\ Truthful(serialBuf)' /\ Truthful(output)' /\ Unread'
    BY <1>8, QuietKeeps DEF LinuxInv, linuxVars, vmVars
  <2> QED
    BY <2>1, <2>2 DEF LinuxInv
<1> QED
  BY <1>1, <1>2, <1>3, <1>4, <1>5, <1>6, <1>7, <1>8 DEF LinuxNext

(***************************************************************************)
(* A check of the bundle with a machine of its own is judged by its own    *)
(* run, for any number of checks, sources and lines typed, and whatever    *)
(* the length of the buffer: the token in the mark sees to it.             *)
(***************************************************************************)
THEOREM OwnRunIsJudged == LinuxSpec => []JudgedRight
<1>1. LinuxInit => LinuxInv
  BY LinuxInitInv
<1>2. LinuxInv /\ [LinuxNext]_linuxVars => LinuxInv'
  BY LinuxStep
<1>3. LinuxInv => JudgedRight
  BY DEF LinuxInv
<1> QED
  BY <1>1, <1>2, <1>3, PTL DEF LinuxSpec

-----------------------------------------------------------------------------
(* The page and the bundle, side by side.                                  *)

(***************************************************************************)
(* Where one of the two moves at a time, each still runs as its own        *)
(* specification says, so what is proved of each holds beside the other.   *)
(***************************************************************************)
LEMMA SidesRunApart ==
    /\ MCSpec => PageInit /\ [][PageNext]_pageVars
    /\ MCSpec => LinuxInit /\ [][LinuxNext]_linuxVars
<1>1. MCInit => PageInit /\ LinuxInit
  BY Zenon DEF MCInit
<1>2. [MCNext]_<<pageVars, linuxVars, side>> => [PageNext]_pageVars /\ [LinuxNext]_linuxVars
  <2>1. CASE MCNext
    BY <2>1, Zenon DEF MCNext
  <2>2. CASE UNCHANGED <<pageVars, linuxVars, side>>
    <3>1. UNCHANGED pageVars /\ UNCHANGED linuxVars
      BY <2>2
    <3> QED
      BY <3>1
  <2> QED
    BY <2>1, <2>2
<1> QED
  BY <1>1, <1>2, PTL DEF MCSpec

(***************************************************************************)
(* Whatever the users, the service and the machine do, every variable of   *)
(* the page and of the bundle keeps its type: the tab is never left in a   *)
(* phase no page is in, no request is of a kind the service does not know. *)
(***************************************************************************)
THEOREM SidesHaveTheirTypes == MCSpec => []SidesTypeOK
<1>1. PageInv /\ StageInv => PageTypeOK
  BY TypesOfThePage
<1>2. LinuxInv => LinuxTypeOK
  BY DEF LinuxInv
<1>3. PageInit /\ [][PageNext]_pageVars => [](PageInv /\ StageInv)
  BY PageInitInv, PageStep, StageInitInv, StageStep, PTL
<1>4. LinuxInit /\ [][LinuxNext]_linuxVars => []LinuxInv
  BY LinuxInitInv, LinuxStep, PTL
<1>5. PageTypeOK /\ LinuxTypeOK <=> SidesTypeOK
  BY DEF SidesTypeOK
<1> QED
  BY <1>1, <1>2, <1>3, <1>4, <1>5, SidesRunApart, PTL
=============================================================================
