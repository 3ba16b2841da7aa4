---------------------------- MODULE SessionPage ----------------------------
(***************************************************************************)
(* The scenario page of one browser tab and the attempt it shows: the      *)
(* mutations and the poll it has in flight, the persisted store, and the   *)
(* service behind them.  A step of the page is one event handler with the  *)
(* effects React runs after it; a step of the service answers one request  *)
(* (AttemptLifecycle has its steps in detail); answers reach the page in   *)
(* any order, also after the page that asked for them was left.            *)
(***************************************************************************)
EXTENDS Integers, Sequences, SequencesExt

CONSTANTS
    Slug,          \* scenarios, all of them sandboxes
    NoPage,        \* no scenario: the page is not open
    MaxAttempts,   \* bound: attempts the service can issue
    MaxInFlight,   \* bound: mutations in flight at once
    MaxClicks,     \* bound: what the user does but close a modal
    MaxMishaps     \* bound: requests and answers lost

ASSUME PageAssumption ==
    /\ NoPage \notin Slug
    /\ MaxAttempts \in Nat \ {0}
    /\ MaxInFlight \in Nat \ {0}
    /\ MaxClicks \in Nat
    /\ MaxMishaps \in Nat

VARIABLES
    rows,       \* the service: what it knows of every attempt
    page,       \* the scenario of the open page
    cur,        \* useAttemptStore.current, persisted in localStorage
    phase,      \* startPhase
    starting,   \* startingRef
    modal,      \* the judgement PassModal shows
    net,        \* the mutations in flight, in the order they were sent
    poll,       \* the fetch of the query ['attempt', id] in flight
    seen,       \* the data the query cache holds for every id
    stray,      \* history: an answer was applied where it does not belong
    clicks,     \* how often the user did something but that
    mishaps     \* how many there were

pageVars == <<rows, page, cur, phase, starting, modal, net, poll, seen, stray, clicks, mishaps>>

Id == 1 .. MaxAttempts
NoId == 0
Statuses == {"running", "passed", "terminated"}

Row == [slug : Slug \cup {NoPage}, status : Statuses \cup {"none"},
        box : BOOLEAN, cached : BOOLEAN, solved : BOOLEAN]
Unissued == [slug |-> NoPage, status |-> "none", box |-> FALSE,
             cached |-> FALSE, solved |-> FALSE]

\* What the store holds of an attempt, and an empty store.
Held == [id : Id \cup {NoId}, slug : Slug \cup {NoPage},
         status : Statuses \cup {"none"}, review : BOOLEAN]
Blank == [id |-> NoId, slug |-> NoPage, status |-> "none", review |-> FALSE]

\* A mutation: "here" when the open page sent it, "heard" while the page's
\* own callbacks will run, "then" for what follows a terminate.
Request == [kind : {"start", "check", "terminate"}, slug : Slug \cup {NoPage},
            id : Id \cup {NoId}, here : BOOLEAN, heard : BOOLEAN,
            then : {"stay", "leave", "restart"},
            ans : Statuses \cup {"sent", "failed", "error"}]

Fetch == [id : Id, try : {1, 2}, ans : Statuses \cup {"dead", "error"}]
NoFetch == [id |-> NoId]

PageTypeOK ==
    /\ rows \in [Id -> Row]
    /\ page \in Slug \cup {NoPage}
    /\ cur \in Held
    /\ phase \in {"idle", "pending", "done", "error"}
    /\ starting \in Slug \cup {NoPage}
    /\ modal \in {"none", "passed", "failed"}
    /\ net \in Seq(Request) /\ Len(net) <= MaxInFlight
    /\ poll \in Fetch \cup {NoFetch}
    /\ seen \in [Id -> Statuses \cup {"none"}]
    /\ stray \in BOOLEAN
    /\ clicks \in 0 .. MaxClicks
    /\ mishaps \in 0 .. MaxMishaps

PageInit ==
    /\ rows = [i \in Id |-> Unissued]
    /\ page = NoPage
    /\ cur = Blank
    /\ phase = "idle"
    /\ starting = NoPage
    /\ modal = "none"
    /\ net = <<>>
    /\ poll = NoFetch
    /\ seen = [i \in Id |-> "none"]
    /\ stray = FALSE
    /\ clicks = 0
    /\ mishaps = 0

-----------------------------------------------------------------------------
(***************************************************************************)
(* The service.  Every row write succeeds here.                            *)
(***************************************************************************)
Terminated(r) == [r EXCEPT !.status = "terminated", !.box = FALSE, !.cached = FALSE]

Answered(k, ans) == net' = [net EXCEPT ![k].ans = ans]

\* Start: reuse the running attempt whose container answers, or end what the
\* store still has of this scenario and issue a new one.
Listed(s) == {i \in Id : rows[i].cached /\ rows[i].slug = s}
Reusable(s) == {i \in Listed(s) : rows[i].status = "running" /\ rows[i].box}
NextId == {i \in Id : rows[i] = Unissued /\ \A j \in Id : j < i => rows[j] # Unissued}

Ended(s) == [i \in Id |-> IF i \in Listed(s) THEN Terminated(rows[i]) ELSE rows[i]]
Issued(s) == [slug |-> s, status |-> "running", box |-> TRUE,
              cached |-> TRUE, solved |-> FALSE]

ServeStart(k) ==
    LET s == net[k].slug IN
    /\ net[k].kind = "start"
    /\ \/ \E i \in Reusable(s) :
            /\ net' = [net EXCEPT ![k].id = i, ![k].ans = "running"]
            /\ UNCHANGED rows
       \/ /\ Reusable(s) = {}
          /\ \E i \in NextId :
               /\ rows' = [Ended(s) EXCEPT ![i] = Issued(s)]
               /\ net' = [net EXCEPT ![k].id = i, ![k].ans = "running"]
       \/ /\ Reusable(s) = {} /\ NextId = {}
          /\ rows' = Ended(s)
          /\ Answered(k, "error")

ServeCheck(k) ==
    LET i == net[k].id IN
    /\ net[k].kind = "check"
    /\ \/ /\ rows[i].status = "running" /\ rows[i].box
          /\ \/ /\ rows' = [rows EXCEPT ![i].status = "passed", ![i].solved = TRUE]
                /\ Answered(k, "passed")
             \/ Answered(k, "failed") /\ UNCHANGED rows
       \/ /\ ~(rows[i].status = "running" /\ rows[i].box)
          /\ Answered(k, "error")
          /\ UNCHANGED rows

\* Terminate: of an attempt that is over only its status comes back.
ServeTerminate(k) ==
    LET i == net[k].id
        over == rows[i].status # "running" IN
    /\ net[k].kind = "terminate"
    /\ rows' = IF over THEN rows ELSE [rows EXCEPT ![i] = Terminated(@)]
    /\ Answered(k, IF over THEN rows[i].status ELSE "terminated")

Serve(k) ==
    /\ net[k].ans = "sent"
    /\ ServeStart(k) \/ ServeCheck(k) \/ ServeTerminate(k)
    /\ UNCHANGED <<page, cur, phase, starting, modal, poll, seen, stray, clicks, mishaps>>

\* GetAttempt: a running attempt whose container does not answer is ended,
\* and only this one answer says so (409 NEEDS_RESTART).
Dead(i) == rows[i].status = "running" /\ ~rows[i].box
GetAnswer(i) == IF Dead(i) THEN "dead" ELSE rows[i].status
AfterGet(i) == IF Dead(i) THEN [rows EXCEPT ![i] = Terminated(@)] ELSE rows

\* The collector: an idle or dead running attempt ends, a passed one gives
\* its container back and keeps its row.
Collect(i) ==
    /\ rows[i].cached
    /\ rows' = IF rows[i].status = "running" THEN [rows EXCEPT ![i] = Terminated(@)]
               ELSE [rows EXCEPT ![i].box = FALSE, ![i].cached = FALSE]
    /\ UNCHANGED <<page, cur, phase, starting, modal, net, poll, seen, stray, clicks, mishaps>>

Kill(i) ==
    /\ rows[i].box
    /\ rows' = [rows EXCEPT ![i].box = FALSE]
    /\ UNCHANGED <<page, cur, phase, starting, modal, net, poll, seen, stray, clicks, mishaps>>

\* A request or an answer is lost: the browser sees an error.
Lose ==
    /\ mishaps < MaxMishaps /\ mishaps' = mishaps + 1
    /\ \/ \E k \in DOMAIN net : /\ net[k].ans # "error"
                                /\ Answered(k, "error")
                                /\ UNCHANGED poll
       \/ /\ poll # NoFetch /\ poll.ans # "error"
          /\ poll' = [poll EXCEPT !.ans = "error"]
          /\ UNCHANGED net
    /\ UNCHANGED <<rows, page, cur, phase, starting, modal, seen, stray, clicks>>

-----------------------------------------------------------------------------
(***************************************************************************)
(* The page.  A new mutation silences the page's callbacks of the one      *)
(* before it of the same kind; leaving the page silences all of them.      *)
(***************************************************************************)
Room == Len(net) < MaxInFlight

Sent(n, req) ==
    Append([k \in DOMAIN n |->
              IF req.here /\ n[k].here /\ n[k].kind = req.kind
              THEN [n[k] EXCEPT !.heard = FALSE] ELSE n[k]], req)

Ask(kind, s, i, then) ==
    [kind |-> kind, slug |-> s, id |-> i, here |-> TRUE, heard |-> TRUE,
     then |-> then, ans |-> "sent"]
Unheard(req) == [req EXCEPT !.here = FALSE, !.heard = FALSE]
Silenced(n) == [k \in DOMAIN n |-> Unheard(n[k])]

\* A click sends its request at once; it waits for room, and leaves some for
\* the restart a 409 is about to send (bound MaxInFlight).
Click(req) ==
    /\ Room
    /\ poll # NoFetch /\ poll.ans = "dead" => Len(net) + 1 < MaxInFlight
    /\ net' = Sent(net, req)

\* The store, patched with what the query cache holds for its attempt.
Refreshed_OnNewDataOnly(c) == c

Refreshed(c) ==
    IF c.id # NoId /\ seen[c.id] # "none" THEN [c EXCEPT !.status = seen[c.id]] ELSE c

\* fireStart sets the phase, and the effect on the store settles it at once
\* when the store already has an attempt of the page's scenario.
PhaseOfStart(s, c) == IF c.id # NoId /\ c.slug = s THEN "done" ELSE "pending"

Open_KeepsStore(s) ==
    /\ page = NoPage
    /\ Click(Ask("start", s, NoId, "stay"))
    /\ page' = s
    /\ cur' = Refreshed(cur)
    /\ starting' = s
    /\ phase' = PhaseOfStart(s, cur)
    /\ modal' = "none"
    /\ UNCHANGED <<rows, poll, seen, stray, mishaps>>

Open(s) ==
    LET kept == IF cur.slug = s THEN cur ELSE Blank IN
    /\ page = NoPage
    /\ Click(Ask("start", s, NoId, "stay"))
    /\ page' = s
    /\ cur' = Refreshed(kept)
    /\ starting' = s
    /\ phase' = PhaseOfStart(s, kept)
    /\ modal' = "none"
    /\ UNCHANGED <<rows, poll, seen, stray, mishaps>>

\* The history takes the tab to another scenario: same component, new slug.
\* The effect returns early only when startingRef has the new slug already.
Switch(s) ==
    LET kept == IF cur.slug = s THEN cur ELSE Blank IN
    /\ page \notin {NoPage, s}
    /\ starting # s
    /\ Click(Ask("start", s, NoId, "stay"))
    /\ page' = s
    /\ cur' = Refreshed(kept)
    /\ starting' = s
    /\ phase' = PhaseOfStart(s, kept)
    /\ UNCHANGED <<rows, modal, poll, seen, stray, mishaps>>

Closed ==
    /\ page' = NoPage
    /\ phase' = "idle"
    /\ starting' = NoPage
    /\ modal' = "none"

\* The query without observers fetches to its end but does not retry.
Leave ==
    /\ page # NoPage
    /\ Closed
    /\ net' = Silenced(net)
    /\ UNCHANGED <<rows, cur, poll, seen, stray, mishaps>>

Retry ==
    /\ page # NoPage /\ phase = "error"
    /\ Click(Ask("start", page, NoId, "stay"))
    /\ starting' = page
    /\ phase' = PhaseOfStart(page, cur)
    /\ UNCHANGED <<rows, page, cur, modal, poll, seen, stray, mishaps>>

InUse == page # NoPage /\ cur.status \in {"running", "passed"} /\ modal = "none"

Check ==
    /\ InUse
    /\ Click(Ask("check", NoPage, cur.id, "stay"))
    /\ UNCHANGED <<rows, page, cur, phase, starting, modal, poll, seen, stray, mishaps>>

GiveUp ==
    /\ InUse
    /\ Click(Ask("terminate", NoPage, cur.id, "stay"))
    /\ UNCHANGED <<rows, page, cur, phase, starting, modal, poll, seen, stray, mishaps>>

\* The end of the review: the banner's button, or the countdown.
EndReview ==
    /\ page # NoPage /\ cur.status = "passed" /\ cur.review
    /\ Click(Ask("terminate", NoPage, cur.id, "leave"))
    /\ UNCHANGED <<rows, page, cur, phase, starting, modal, poll, seen, stray, mishaps>>

\* PassModal: close, enterReview, restart and giveUp (backHome is Leave).
CloseModal ==
    /\ modal # "none"
    /\ modal' = "none"
    /\ cur' = [cur EXCEPT !.review = @ \/ (modal = "passed" /\ cur.id # NoId)]
    /\ UNCHANGED <<rows, page, phase, starting, net, poll, seen, stray, mishaps>>

Restart ==
    /\ modal = "passed"
    /\ cur.id # NoId
    /\ modal' = "none"
    /\ cur' = Blank
    /\ Click([Ask("terminate", page, cur.id, "restart") EXCEPT !.heard = FALSE])
    /\ UNCHANGED <<rows, page, phase, starting, poll, seen, stray, mishaps>>

GiveUpAndLeave ==
    /\ modal = "failed"
    /\ IF cur.id = NoId THEN net' = Silenced(net)
       ELSE /\ Room
            /\ net' = Silenced(Sent(net, Ask("terminate", NoPage, cur.id, "stay")))
    /\ Closed
    /\ UNCHANGED <<rows, cur, poll, seen, stray, mishaps>>

-----------------------------------------------------------------------------
(***************************************************************************)
(* Answers.                                                                *)
(***************************************************************************)
Drop(k) == net' = RemoveAt(net, k)

\* The hook's onSuccess writes the store whatever page is open now.  An id
\* the store already has keeps its review; another id brings its query along.
StartOK(k) ==
    LET r == net[k]
        reuse == cur.id = r.id /\ cur.slug = r.slug
        new == [id |-> r.id, slug |-> r.slug, status |-> "running",
                review |-> reuse /\ cur.review] IN
    /\ r.ans = "running"
    /\ cur' = IF cur.id = r.id THEN new ELSE Refreshed(new)
    /\ phase' = IF phase = "pending" THEN PhaseOfStart(page, new) ELSE phase
    /\ stray' = (stray \/ page \notin {NoPage, r.slug}
                       \/ (cur.id = r.id /\ cur.status # "running"))
    /\ UNCHANGED <<page, starting, modal>>

StartFailed_Logged(k) ==
    /\ net[k].ans = "error"
    /\ UNCHANGED <<page, cur, phase, starting, modal, stray>>

StartFailed(k) ==
    /\ net[k].ans = "error"
    /\ phase' = IF net[k].heard THEN "error" ELSE phase
    /\ UNCHANGED <<page, cur, starting, modal, stray>>

DeliverStart(k) ==
    /\ net[k].kind = "start"
    /\ StartOK(k) \/ StartFailed(k)
    /\ Drop(k)

\* A call-site onSuccess runs while its page is there, and only on success.
Told_OnSettled(r) == r.heard

Told(r) == r.heard /\ r.ans # "error"

Passes_OnAnyAnswer(r) == r.ans # "error"

Passes(r) == r.ans = "passed"

DeliverCheck(k) ==
    LET r == net[k]
        pass == Told(r) /\ Passes(r) /\ cur.id # NoId IN
    /\ r.kind = "check"
    /\ modal' = IF Told(r) THEN r.ans ELSE modal
    /\ cur' = IF pass THEN [cur EXCEPT !.status = "passed"] ELSE cur
    /\ stray' = (stray \/ (pass /\ (cur.id # r.id \/ cur.status = "terminated")))
    /\ Drop(k)
    /\ UNCHANGED <<page, phase, starting>>

DeliverTerminate(k) ==
    LET r == net[k]
        patch == Told(r) /\ cur.id # NoId IN
    /\ r.kind = "terminate" /\ r.then # "restart"
    /\ cur' = IF patch THEN [cur EXCEPT !.status = r.ans,
                                        !.review = @ /\ r.then # "leave"] ELSE cur
    /\ stray' = (stray \/ (patch /\ cur.id # r.id))
    /\ IF Told(r) /\ r.then = "leave"
       THEN Closed /\ net' = Silenced(RemoveAt(net, k))
       ELSE Drop(k) /\ UNCHANGED <<page, phase, starting, modal>>

\* Restart awaits its terminate, whatever the answer, and starts the scenario
\* it was clicked in, even if the page shows another one or none by now.
DeliverRestart(k) ==
    LET r == net[k]
        req == Ask("start", r.slug, NoId, "stay") IN
    /\ r.kind = "terminate" /\ r.then = "restart"
    /\ net' = Sent(RemoveAt(net, k), IF r.here THEN req ELSE Unheard(req))
    /\ starting' = IF r.here THEN r.slug ELSE starting
    /\ phase' = IF r.here THEN PhaseOfStart(page, cur) ELSE phase
    /\ stray' = (stray \/ (r.here /\ page # r.slug))
    /\ UNCHANGED <<page, cur, modal>>

Deliver(k) ==
    /\ net[k].ans # "sent"
    /\ DeliverStart(k) \/ DeliverCheck(k) \/ DeliverTerminate(k) \/ DeliverRestart(k)
    /\ UNCHANGED <<rows, poll, seen, clicks, mishaps>>

-----------------------------------------------------------------------------
(***************************************************************************)
(* The poll.  React Query tries a failed fetch once more before it shows   *)
(* the error (retry: 1), and hands the page new data only when it differs  *)
(* from the data it has.  The service answers a fetch as it is sent; the   *)
(* answer takes its time.                                                  *)
(***************************************************************************)
Observed == page # NoPage /\ cur.id = poll.id

Fetching(i, try) ==
    /\ rows' = AfterGet(i)
    /\ poll' = [id |-> i, try |-> try, ans |-> GetAnswer(i)]

PollSend ==
    /\ page # NoPage /\ cur.id # NoId /\ poll = NoFetch
    /\ Fetching(cur.id, 1)
    /\ UNCHANGED <<page, cur, phase, starting, modal, net, seen, stray, clicks, mishaps>>

PollTold ==
    /\ poll.ans \in Statuses
    /\ seen' = [seen EXCEPT ![poll.id] = poll.ans]
    /\ \/ /\ Observed /\ (seen[poll.id] # poll.ans \/ poll.ans = "running")
          /\ cur' = [cur EXCEPT !.status = poll.ans]
       \/ /\ ~Observed \/ seen[poll.id] = poll.ans
          /\ UNCHANGED cur
    /\ poll' = NoFetch
    /\ UNCHANGED <<rows, phase, starting, net>>

Retries == poll.try = 1 /\ Observed

PollRetry ==
    /\ poll.ans \in {"dead", "error"} /\ Retries
    /\ Fetching(poll.id, 2)
    /\ UNCHANGED <<seen, cur, phase, starting, net>>

PollDropped ==
    /\ poll.ans \in {"dead", "error"} /\ ~Retries
    /\ poll.ans = "error" \/ ~Observed
    /\ poll' = NoFetch
    /\ UNCHANGED <<rows, seen, cur, phase, starting, net>>

\* NEEDS_RESTART: empty the store and start the page's scenario again.
PollDead ==
    /\ poll.ans = "dead" /\ ~Retries /\ Observed
    /\ Room
    /\ net' = Sent(net, Ask("start", page, NoId, "stay"))
    /\ cur' = Blank
    /\ starting' = page
    /\ phase' = "pending"
    /\ poll' = NoFetch
    /\ UNCHANGED <<rows, seen>>

PollDeliver ==
    /\ poll # NoFetch
    /\ PollTold \/ PollRetry \/ PollDropped \/ PollDead
    /\ UNCHANGED <<page, modal, stray, clicks, mishaps>>

-----------------------------------------------------------------------------
User ==
    \/ /\ clicks < MaxClicks /\ clicks' = clicks + 1
       /\ \/ \E s \in Slug : Open(s) \/ Switch(s)
          \/ Leave \/ Retry \/ Check \/ GiveUp \/ EndReview
          \/ Restart \/ GiveUpAndLeave
    \/ CloseModal /\ UNCHANGED clicks

PageNext ==
    /\ ~stray
    /\ \/ User
       \/ \E k \in DOMAIN net : Serve(k) \/ Deliver(k)
       \/ PollSend \/ PollDeliver
       \/ \E i \in Id : Collect(i) \/ Kill(i)
       \/ Lose

\* The service and the network answer, the page takes the answers, and the
\* poll goes on while the page is open.  Nobody has to click.
PageFairness ==
    /\ WF_pageVars(\E k \in DOMAIN net : Serve(k))
    /\ WF_pageVars(\E k \in DOMAIN net : Deliver(k))
    /\ WF_pageVars(PollSend) /\ WF_pageVars(PollDeliver)

PageSpec == PageInit /\ [][PageNext]_pageVars /\ PageFairness

-----------------------------------------------------------------------------
(***************************************************************************)
(* The attempt the buttons of an open page work on is one of the page's    *)
(* scenario, unless a late answer put another one there: the store is one  *)
(* for all pages and survives them (the effect on slug, Scenario.tsx:140). *)
(***************************************************************************)
OwnAttemptShown == page # NoPage /\ cur.id # NoId => cur.slug = page \/ stray

(***************************************************************************)
(* The page says passed only when the service judged a pass, and of the    *)
(* attempt it shows, with one exception: the answer to a check, and to the *)
(* end of a review, goes into whatever attempt the store holds by then     *)
(* (Scenario.tsx:374), and the pass is then that of another attempt.  No   *)
(* answer to a Start, no poll, no cache and no reopened page makes one up. *)
(***************************************************************************)
Misplaced == stray /\ \E i \in Id \ {cur.id} : rows[i].solved

PassShownIsReal == cur.status = "passed" => rows[cur.id].solved \/ Misplaced

(***************************************************************************)
(* The boot splash ends: a page that waits for an attempt gets one or      *)
(* shows the error with its retry button.                                  *)
(***************************************************************************)
StartSettles ==
    \A s \in Slug :
        (page = s /\ (phase = "pending" \/ cur.id = NoId))
            ~> (page # s \/ phase = "error" \/ (phase = "done" /\ cur.id # NoId) \/ stray)

(***************************************************************************)
(* The page comes to show what became of its attempt, a pass it was never  *)
(* told of and an end alike: the poll brings it, also when a fetch sent    *)
(* before it wrote 'running' over it, or when the query cache had it       *)
(* already.                                                                *)
(***************************************************************************)
Lags(i) ==
    /\ page # NoPage /\ cur.id = i
    /\ rows[i].status \in {"passed", "terminated"}
    /\ cur.status # rows[i].status

StatusConverges == \A i \in Id : Lags(i) ~> (~Lags(i) \/ stray)

-----------------------------------------------------------------------------
(***************************************************************************)
(* Scenario.tsx:214 (the poll got a 409: empty the store and Start again): *)
(* a page whose poll was answered with NEEDS_RESTART gets another attempt. *)
(***************************************************************************)
DeadIsRestarted ==
    \A i \in Id : (poll.id = i /\ Observed /\ poll.ans = "dead")
                    ~> (page = NoPage \/ cur.id # i)
=============================================================================
