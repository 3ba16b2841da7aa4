-------------------------- MODULE AttemptLifecycle --------------------------
(***************************************************************************)
(* The life of lab attempts: AttemptUsecase (Start, Get, GetWithPing,      *)
(* Heartbeat, Check, Terminate, CleanupPassed) called by request handlers, *)
(* and GCServer (tick, cleanupStale), over the four places that hold the   *)
(* state of an attempt: the Redis cache, the database row, the Docker      *)
(* container, and the runner's own table of containers and ports.          *)
(*                                                                         *)
(* Request handlers and the collector are processes.  A step of a process  *)
(* is one round trip to one of the four places; between two round trips    *)
(* any other process may run.  cur[p] is the attempt p has in hand, and    *)
(* snap[p] the record it read and will write back.                         *)
(***************************************************************************)
EXTENDS AttemptCache, FiniteSets

CONSTANTS
    Sandbox,     \* owners whose scenario runs in a container
    Worker,      \* request handlers
    GC,          \* the collector's goroutine
    FaultKinds,  \* the faults that may happen
    MaxFaults    \* bound: how many of them in one behaviour

ASSUME SandboxAssumption == Sandbox \subseteq Owner
ASSUME GCAssumption == GC \notin Worker
ASSUME FaultsAssumption ==
    /\ MaxFaults \in Nat
    /\ FaultKinds \subseteq {"store", "db", "inspect", "rm", "run", "orphan",
                             "kill", "ttl", "crash"}

VARIABLES
    db,       \* db[id]: the status column of the attempt's row
    box,      \* box[id]: the attempt's container in the Docker daemon
    held,     \* attempts whose container and port the runner still tracks
    pc,       \* pc[p]: the round trip p does next
    cur,      \* cur[p]: the attempt p works on
    snap,     \* snap[p]: the record p is going to write back
    fresh,    \* fresh[p]: the identifier a Start will give to a new attempt
    batch,    \* what the collector's Snapshot holds and it has not dealt with
    booting,  \* the startup Reconcile has not run yet
    faults    \* faults so far

procVars == <<pc, cur, snap, fresh>>
vars == <<main, active, owner, db, box, held, procVars, batch, booting, faults>>

Proc == Worker \cup {GC}

IsSandbox(id) == OwnerOf[id] \in Sandbox

Label == {"idle", "find", "unindex", "reusePing", "touch", "touchPut",
          "recDelete", "recErase", "recStop", "recMark", "run", "create", "undoRun",
          "put", "undoPut", "undoMark", "probe", "healDelete", "healErase", "healMark",
          "judge", "checkMark", "checkSync", "checkPut",
          "terminate", "termStop", "termMark", "termDelete", "termErase",
          "cleanup", "cleanStop", "cleanDelete", "cleanErase",
          "staleGet", "staleDelete", "staleErase", "staleMark"}

\* A member of the active set whose record is to be read, and one that has none.
Listed == [status |-> "listed", old |-> FALSE]

Missing == [status |-> "missing", old |-> FALSE]

Entry == Record \cup {Listed, Missing}

TypeOK ==
    /\ CacheTypeOK
    /\ db \in [Attempt -> Status]
    /\ box \in [Attempt -> {"none", "up", "gone"}]
    /\ held \subseteq Attempt
    /\ pc \in [Proc -> Label]
    /\ cur \in [Proc -> Attempt \cup {NoAttempt}]
    /\ snap \in [Proc -> Record]
    /\ fresh \in [Proc -> Attempt \cup {NoAttempt}]
    /\ batch \in [Attempt -> Entry]
    /\ booting \in BOOLEAN
    /\ faults \in Nat

Init ==
    /\ CacheInit
    /\ db = [id \in Attempt |-> "none"]
    /\ box = [id \in Attempt |-> "none"]
    /\ held = {}
    /\ pc = [p \in Proc |-> "idle"]
    /\ cur = [p \in Proc |-> NoAttempt]
    /\ snap = [p \in Proc |-> NoEntry]
    /\ fresh = [p \in Proc |-> NoAttempt]
    /\ batch = [id \in Attempt |-> NoEntry]
    /\ booting = FALSE
    /\ faults = 0

-----------------------------------------------------------------------------
(* Moves of a process.                                                     *)

Goto(p, label) ==
    /\ pc' = [pc EXCEPT ![p] = label]
    /\ UNCHANGED <<cur, snap, fresh>>

\* p takes attempt id in hand and continues at label.
Take(p, id, label) ==
    /\ pc' = [pc EXCEPT ![p] = label]
    /\ cur' = [cur EXCEPT ![p] = id]
    /\ UNCHANGED <<snap, fresh>>

\* p holds the record it is going to write back.
Copy(p, rec, label) ==
    /\ pc' = [pc EXCEPT ![p] = label]
    /\ snap' = [snap EXCEPT ![p] = rec]
    /\ UNCHANGED <<cur, fresh>>

Return(p) ==
    /\ pc' = [pc EXCEPT ![p] = "idle"]
    /\ cur' = [cur EXCEPT ![p] = NoAttempt]
    /\ snap' = [snap EXCEPT ![p] = NoEntry]
    /\ fresh' = [fresh EXCEPT ![p] = NoAttempt]

At(p, label) == pc[p] = label

NoFault == UNCHANGED faults

Fault(kind) ==
    /\ kind \in FaultKinds
    /\ faults < MaxFaults
    /\ faults' = faults + 1

-----------------------------------------------------------------------------
(* Calls on the four places.  A call that fails leaves its place as it     *)
(* was, or did its work (a pipeline: part of it) and lost the answer.      *)

\* repo.Update is gorm's Save of the whole row.
SaveRow(id, status) == db' = [db EXCEPT ![id] = status]

SaveOK(id, status) == SaveRow(id, status) /\ NoFault

SaveFails(id, status) ==
    /\ Fault("db")
    /\ SaveRow(id, status) \/ UNCHANGED db

\* store.Delete is two round trips: a GET of the record, to learn its owner,
\* and the pipeline.  The GET leaves in snap[p] what it found.
DeleteGet(p, next) ==
    /\ UNCHANGED cacheVars
    /\ NoFault
    /\ Copy(p, main[cur[p]], next)

EraseCur(p) == EraseEntry(cur[p], snap[p].status # "none")

EraseOK(p) == EraseCur(p) /\ NoFault

EraseFails(p) ==
    /\ Fault("store")
    /\ EraseBroken(cur[p], snap[p].status # "none")

\* A Delete that fails at its GET has no effect.
DeleteGetFails == Fault("store") /\ UNCHANGED cacheVars

\* runner.Ping: no error only for a running container; an error also when
\* the daemon does not answer in time.
PingOK(id) == box[id] = "up" /\ NoFault

PingFails(id) == IF box[id] = "up" THEN Fault("inspect") ELSE NoFault

\* Mutant: the runner forgets the container but keeps its port.
StopBoxKeepsPort(id) ==
    /\ UNCHANGED held
    /\ \/ box' = [box EXCEPT ![id] = "gone"] /\ NoFault
       \/ UNCHANGED box /\ Fault("rm")

\* runner.Stop: docker rm -f.  The runner forgets the container whatever rm
\* answers; after an error its port is marked bad, not returned.
StopBox(id) ==
    /\ held' = held \ {id}
    /\ \/ box' = [box EXCEPT ![id] = "gone"] /\ NoFault
       \/ UNCHANGED box /\ Fault("rm")

\* AttemptUsecase.Get: the cached record, or the row when the key is missing
\* or Redis fails.
GetYields(id, rec) ==
    \/ Cached(id) /\ rec = main[id] /\ NoFault
    \/ /\ db[id] # "none"
       /\ IF Cached(id) THEN Fault("store") ELSE NoFault
       /\ rec = [status |-> db[id], old |-> FALSE]

GetFails(id) == ~Cached(id) /\ Fault("db")

-----------------------------------------------------------------------------
(* Start, a new attempt: runner.Run, repo.Create, store.Put, and their      *)
(* rollbacks.                                                              *)

\* An identifier no attempt has: snowflake numbers do not repeat.
Unissued(id) ==
    /\ db[id] = "none"
    /\ box[id] = "none"
    /\ \A p \in Proc : cur[p] # id /\ fresh[p] # id

Begin(w, id) ==
    /\ cur' = [cur EXCEPT ![w] = id]
    /\ fresh' = [fresh EXCEPT ![w] = NoAttempt]
    /\ UNCHANGED snap
    /\ pc' = [pc EXCEPT ![w] = IF IsSandbox(id) THEN "run" ELSE "create"]

\* docker run.  It may fail before the container exists, or (the call is
\* cancelled or times out) after.
Run(w) ==
    /\ At(w, "run")
    /\ \/ /\ NoFault
          /\ box' = [box EXCEPT ![cur[w]] = "up"]
          /\ held' = held \cup {cur[w]}
          /\ Goto(w, "create")
       \/ /\ Fault("run")
          /\ Return(w)
          /\ UNCHANGED <<box, held>>
       \/ /\ Fault("orphan")
          /\ box' = [box EXCEPT ![cur[w]] = "up"]
          /\ Return(w)
          /\ UNCHANGED held
    /\ UNCHANGED <<cacheVars, db, batch, booting>>

Create(w) ==
    /\ At(w, "create")
    /\ \/ SaveOK(cur[w], "running") /\ Goto(w, "put")
       \/ /\ SaveFails(cur[w], "running")
          /\ IF IsSandbox(cur[w]) THEN Goto(w, "undoRun") ELSE Return(w)
    /\ UNCHANGED <<cacheVars, box, held, batch, booting>>

\* Mutant: no rollback of the container when the row cannot be created.
UndoRunSkipped(w) ==
    /\ At(w, "undoRun")
    /\ NoFault
    /\ Return(w)
    /\ UNCHANGED <<cacheVars, db, box, held, batch, booting>>

UndoRun(w) ==
    /\ At(w, "undoRun")
    /\ StopBox(cur[w])
    /\ Return(w)
    /\ UNCHANGED <<cacheVars, db, batch, booting>>

Put(w) ==
    /\ At(w, "put")
    /\ \/ PutEntry(cur[w], Running) /\ NoFault /\ Return(w)
       \/ /\ Fault("store")
          /\ PutBroken(cur[w], Running)
          /\ Goto(w, IF IsSandbox(cur[w]) THEN "undoPut" ELSE "undoMark")
    /\ UNCHANGED <<db, box, held, batch, booting>>

UndoPut(w) ==
    /\ At(w, "undoPut")
    /\ StopBox(cur[w])
    /\ Goto(w, "undoMark")
    /\ UNCHANGED <<cacheVars, db, batch, booting>>

UndoMark(w) ==
    /\ At(w, "undoMark")
    /\ SaveOK(cur[w], "terminated") \/ SaveFails(cur[w], "terminated")
    /\ Return(w)
    /\ UNCHANGED <<cacheVars, box, held, batch, booting>>

-----------------------------------------------------------------------------
(* Start, an attempt of the same owner found in the store.                 *)

\* FindActiveByClientSlug reads the owner index, then the record it names.  A
\* miss or a Redis error starts a new attempt.
Start(w, new) ==
    LET id == owner[OwnerOf[new]] IN
    /\ At(w, "idle")
    /\ Unissued(new)
    /\ \/ id = NoAttempt /\ NoFault /\ Begin(w, new)
       \/ Fault("store") /\ Begin(w, new)
       \/ /\ id # NoAttempt
          /\ NoFault
          /\ pc' = [pc EXCEPT ![w] = "find"]
          /\ cur' = [cur EXCEPT ![w] = id]
          /\ fresh' = [fresh EXCEPT ![w] = new]
          /\ UNCHANGED snap
    /\ UNCHANGED <<cacheVars, db, box, held, batch, booting>>

\* A passed attempt is replaced; a running one is reused if its container
\* answers.
AfterFind(id) ==
    CASE main[id].status \notin {"running", "passed"} -> "unindex"
      [] main[id].status = "passed"                  -> "recDelete"
      [] main[id].status = "running" /\ IsSandbox(id)  -> "reusePing"
      [] main[id].status = "running" /\ ~IsSandbox(id) -> "touch"

Find(w) ==
    /\ At(w, "find")
    /\ \/ Fault("store") /\ Begin(w, fresh[w])
       \/ NoFault /\ Goto(w, AfterFind(cur[w]))
    /\ UNCHANGED <<cacheVars, db, box, held, batch, booting>>

\* An index that leads nowhere is removed, whatever it holds by now.
Unindex(w) ==
    /\ At(w, "unindex")
    /\ \/ /\ NoFault
          /\ owner' = [owner EXCEPT ![OwnerOf[fresh[w]]] = NoAttempt]
       \/ /\ Fault("store")
          /\ UNCHANGED owner
    /\ Begin(w, fresh[w])
    /\ UNCHANGED <<main, active, db, box, held, batch, booting>>

ReusePing(w) ==
    /\ At(w, "reusePing")
    /\ \/ PingOK(cur[w]) /\ Goto(w, "touch")
       \/ PingFails(cur[w]) /\ Goto(w, "recDelete")
    /\ UNCHANGED <<cacheVars, db, box, held, batch, booting>>

AfterRecErase(id) == IF IsSandbox(id) THEN "recStop" ELSE "recMark"

\* The attempt found cannot be reused: out of the store, out of Docker, and
\* its row terminated; no failure stops the new attempt.
RecDelete(w) ==
    /\ At(w, "recDelete")
    /\ \/ DeleteGet(w, "recErase")
       \/ DeleteGetFails /\ Goto(w, AfterRecErase(cur[w]))
    /\ UNCHANGED <<db, box, held, batch, booting>>

RecErase(w) ==
    /\ At(w, "recErase")
    /\ EraseOK(w) \/ EraseFails(w)
    /\ Copy(w, NoEntry, AfterRecErase(cur[w]))
    /\ UNCHANGED <<db, box, held, batch, booting>>

\* Mutant: the old container is not stopped when an attempt is replaced.
RecStopSkipped(w) ==
    /\ At(w, "recStop")
    /\ NoFault
    /\ Goto(w, "recMark")
    /\ UNCHANGED <<cacheVars, db, box, held, batch, booting>>

RecStop(w) ==
    /\ At(w, "recStop")
    /\ StopBox(cur[w])
    /\ Goto(w, "recMark")
    /\ UNCHANGED <<cacheVars, db, batch, booting>>

RecMark(w) ==
    /\ At(w, "recMark")
    /\ SaveOK(cur[w], "terminated") \/ SaveFails(cur[w], "terminated")
    /\ Begin(w, fresh[w])
    /\ UNCHANGED <<cacheVars, box, held, batch, booting>>

-----------------------------------------------------------------------------
(* Heartbeat, Check and GetWithPing.                                       *)

\* A request names an attempt that was created; the first round trip is Get.
Heartbeat(w, id) ==
    /\ At(w, "idle")
    /\ \E rec \in Record :
          /\ GetYields(id, rec)
          /\ rec.status = "running"
          /\ Take(w, id, "touch")
    /\ UNCHANGED <<cacheVars, db, box, held, batch, booting>>

\* UpdateLastActive reads the record, then writes all of it back.
Touch(w) ==
    /\ At(w, "touch")
    /\ \/ Cached(cur[w]) /\ NoFault /\ Copy(w, main[cur[w]], "touchPut")
       \/ ~Cached(cur[w]) /\ NoFault /\ Return(w)
       \/ Fault("store") /\ Return(w)
    /\ UNCHANGED <<cacheVars, db, box, held, batch, booting>>

TouchPut(w) ==
    /\ At(w, "touchPut")
    /\ \/ PutEntry(cur[w], Touched(snap[w])) /\ NoFault
       \/ /\ Fault("store")
          /\ PutBroken(cur[w], Touched(snap[w]))
    /\ Return(w)
    /\ UNCHANGED <<db, box, held, batch, booting>>

Check(w, id) ==
    /\ At(w, "idle")
    /\ \E rec \in Record :
          /\ GetYields(id, rec)
          /\ rec.status = "running"
          /\ Take(w, id, "judge")
    /\ UNCHANGED <<cacheVars, db, box, held, batch, booting>>

\* Mutant: a check that cannot run marks the attempt failed.
JudgeMarksFailed(w) ==
    /\ At(w, "judge")
    /\ NoFault
    /\ \E status \in {"running", "passed", "failed"} :
          Copy(w, [status |-> status, old |-> FALSE], "checkMark")
    /\ UNCHANGED <<cacheVars, db, box, held, batch, booting>>

\* checkSandbox runs check.sh in the container; without a container docker
\* exec only exits with a code, a check that did not pass.  checkFromClient
\* takes the result the page sends, and refuses a request without one.
Judge(w) ==
    /\ At(w, "judge")
    /\ \/ /\ NoFault
          /\ \E status \in {"running", "passed"} :
                /\ status = "passed" /\ IsSandbox(cur[w]) => box[cur[w]] = "up"
                /\ Copy(w, [status |-> status, old |-> FALSE], "checkMark")
       \/ /\ IF IsSandbox(cur[w]) THEN Fault("inspect") ELSE NoFault
          /\ Return(w)
    /\ UNCHANGED <<cacheVars, db, box, held, batch, booting>>

CheckMark(w) ==
    /\ At(w, "checkMark")
    /\ \/ SaveOK(cur[w], snap[w].status)
       \/ SaveFails(cur[w], snap[w].status)
    /\ Goto(w, "checkSync")
    /\ UNCHANGED <<cacheVars, box, held, batch, booting>>

\* Mutant: UpdateStatus does not ask whether the key exists.
CheckSyncBlind(w) ==
    /\ At(w, "checkSync")
    /\ \/ NoFault /\ Goto(w, "checkPut")
       \/ Fault("store") /\ Return(w)
    /\ UNCHANGED <<cacheVars, db, box, held, batch, booting>>

\* UpdateStatus: only a key that exists is overwritten, with p's own copy.
CheckSync(w) ==
    /\ At(w, "checkSync")
    /\ \/ Cached(cur[w]) /\ NoFault /\ Goto(w, "checkPut")
       \/ ~Cached(cur[w]) /\ NoFault /\ Return(w)
       \/ Fault("store") /\ Return(w)
    /\ UNCHANGED <<cacheVars, db, box, held, batch, booting>>

CheckPut(w) ==
    /\ At(w, "checkPut")
    /\ \/ PutEntry(cur[w], snap[w]) /\ NoFault
       \/ /\ Fault("store")
          /\ PutBroken(cur[w], snap[w])
    /\ Return(w)
    /\ UNCHANGED <<db, box, held, batch, booting>>

\* GetWithPing pings only the container of a running attempt.
Probe(w, id) ==
    /\ At(w, "idle")
    /\ IsSandbox(id)
    /\ \E rec \in Record :
          /\ GetYields(id, rec)
          /\ rec.status = "running"
          /\ Take(w, id, "probe")
    /\ UNCHANGED <<cacheVars, db, box, held, batch, booting>>

ProbePing(w) ==
    /\ At(w, "probe")
    /\ \/ PingOK(cur[w]) /\ Return(w)
       \/ PingFails(cur[w]) /\ Goto(w, "healDelete")
    /\ UNCHANGED <<cacheVars, db, box, held, batch, booting>>

HealDelete(w) ==
    /\ At(w, "healDelete")
    /\ \/ DeleteGet(w, "healErase")
       \/ DeleteGetFails /\ Goto(w, "healMark")
    /\ UNCHANGED <<db, box, held, batch, booting>>

HealErase(w) ==
    /\ At(w, "healErase")
    /\ EraseOK(w) \/ EraseFails(w)
    /\ Copy(w, NoEntry, "healMark")
    /\ UNCHANGED <<db, box, held, batch, booting>>

HealMark(w) ==
    /\ At(w, "healMark")
    /\ SaveOK(cur[w], "terminated") \/ SaveFails(cur[w], "terminated")
    /\ Return(w)
    /\ UNCHANGED <<cacheVars, box, held, batch, booting>>

-----------------------------------------------------------------------------
(* Terminate, called by a request or by the collector for an idle attempt. *)

\* service.TerminateAttempt: the user gives up, or leaves the review.
GiveUp(w, id) ==
    /\ At(w, "idle")
    /\ db[id] # "none"
    /\ NoFault
    /\ Take(w, id, "terminate")
    /\ UNCHANGED <<cacheVars, db, box, held, batch, booting>>

\* Mutant: the row is terminated without stopping the container.
TerminateUnstopped(p) ==
    /\ At(p, "terminate")
    /\ \/ \E rec \in Record :
             /\ GetYields(cur[p], rec)
             /\ IF rec.status # "running" THEN Return(p) ELSE Goto(p, "termMark")
       \/ GetFails(cur[p]) /\ Return(p)
    /\ UNCHANGED <<cacheVars, db, box, held, batch, booting>>

\* Only a running attempt is terminated: IsActive is false of a passed one.
Terminate(p) ==
    /\ At(p, "terminate")
    /\ \/ \E rec \in Record :
             /\ GetYields(cur[p], rec)
             /\ IF rec.status # "running" THEN Return(p)
                ELSE Goto(p, IF IsSandbox(cur[p]) THEN "termStop" ELSE "termMark")
       \/ GetFails(cur[p]) /\ Return(p)
    /\ UNCHANGED <<cacheVars, db, box, held, batch, booting>>

TermStop(p) ==
    /\ At(p, "termStop")
    /\ StopBox(cur[p])
    /\ Goto(p, "termMark")
    /\ UNCHANGED <<cacheVars, db, batch, booting>>

\* A row that cannot be written ends the call before the store is cleared.
TermMark(p) ==
    /\ At(p, "termMark")
    /\ \/ SaveOK(cur[p], "terminated") /\ Goto(p, "termDelete")
       \/ SaveFails(cur[p], "terminated") /\ Return(p)
    /\ UNCHANGED <<cacheVars, box, held, batch, booting>>

TermDelete(p) ==
    /\ At(p, "termDelete")
    /\ \/ DeleteGet(p, "termErase")
       \/ DeleteGetFails /\ Return(p)
    /\ UNCHANGED <<db, box, held, batch, booting>>

TermErase(p) ==
    /\ At(p, "termErase")
    /\ EraseOK(p) \/ EraseFails(p)
    /\ Return(p)
    /\ UNCHANGED <<db, box, held, batch, booting>>

-----------------------------------------------------------------------------
(* GCServer: one goroutine; a tick visits every record of one Snapshot.    *)

\* Snapshot: SMEMBERS, MGET, then an SREM of each member whose key is gone.
\* The first tick waits for the startup Reconcile.
Tick ==
    /\ At(GC, "idle")
    /\ ~booting
    /\ batch = [id \in Attempt |-> NoEntry]
    /\ batch' = [id \in Attempt |-> IF id \in active THEN Listed ELSE NoEntry]
    /\ NoFault
    /\ UNCHANGED <<cacheVars, db, box, held, procVars, booting>>

Found(id) == IF Cached(id) THEN main[id] ELSE Missing

ReadListed ==
    /\ \E id \in Attempt : batch[id] = Listed
    /\ \/ /\ NoFault
          /\ batch' = [id \in Attempt |-> IF batch[id] = Listed THEN Found(id) ELSE NoEntry]
       \/ /\ Fault("store")
          /\ batch' = [id \in Attempt |-> NoEntry]
    /\ UNCHANGED <<cacheVars, db, box, held, procVars, booting>>

\* The member goes even if its record has come back since.
Prune(id) ==
    /\ batch[id] = Missing
    /\ batch' = [batch EXCEPT ![id] = NoEntry]
    /\ \/ active' = active \ {id} /\ NoFault
       \/ UNCHANGED active /\ Fault("store")
    /\ UNCHANGED <<main, owner, db, box, held, procVars, booting>>

\* A record of a Snapshot that is complete.
Unvisited(id) ==
    /\ batch[id].status # "none"
    /\ \A i \in Attempt : batch[i] \notin {Listed, Missing}

\* Mutant: a tick looks at running attempts only.
VisitRunningOnly(id) ==
    /\ At(GC, "idle")
    /\ Unvisited(id)
    /\ batch' = [batch EXCEPT ![id] = NoEntry]
    /\ LET rec == batch[id] IN
       \/ /\ rec.status = "running"
          /\ IsSandbox(id)
          /\ PingFails(id)
          /\ Take(GC, id, "staleGet")
       \/ /\ rec.status = "running"
          /\ IF IsSandbox(id) THEN PingOK(id) ELSE NoFault
          /\ IF rec.old THEN Take(GC, id, "terminate") ELSE UNCHANGED procVars
       \/ /\ rec.status # "running"
          /\ NoFault
          /\ UNCHANGED procVars
    /\ UNCHANGED <<cacheVars, db, box, held, booting>>

\* A running sandbox attempt is pinged first; what answers is terminated when
\* idle, what does not goes to cleanupStale.  Passed attempts wait for grace.
Visit(id) ==
    /\ At(GC, "idle")
    /\ Unvisited(id)
    /\ batch' = [batch EXCEPT ![id] = NoEntry]
    /\ LET rec == batch[id] IN
       \/ /\ rec.status = "running"
          /\ IsSandbox(id)
          /\ PingFails(id)
          /\ Take(GC, id, "staleGet")
       \/ /\ rec.status = "running"
          /\ IF IsSandbox(id) THEN PingOK(id) ELSE NoFault
          /\ IF rec.old THEN Take(GC, id, "terminate") ELSE UNCHANGED procVars
       \/ /\ rec.status # "running"
          /\ NoFault
          /\ IF rec.status = "passed" /\ rec.old THEN Take(GC, id, "cleanup")
             ELSE UNCHANGED procVars
    /\ UNCHANGED <<cacheVars, db, box, held, booting>>

\* Mutant: cleanupStale never finds the record.
StaleGetMisses ==
    /\ At(GC, "staleGet")
    /\ NoFault
    /\ Return(GC)
    /\ UNCHANGED <<cacheVars, db, box, held, batch, booting>>

\* cleanupStale: take the record out of the store, then terminate the row.
StaleGet ==
    /\ At(GC, "staleGet")
    /\ \/ Cached(cur[GC]) /\ NoFault /\ Goto(GC, "staleDelete")
       \/ ~Cached(cur[GC]) /\ NoFault /\ Return(GC)
       \/ Fault("store") /\ Return(GC)
    /\ UNCHANGED <<cacheVars, db, box, held, batch, booting>>

StaleDelete ==
    /\ At(GC, "staleDelete")
    /\ \/ DeleteGet(GC, "staleErase")
       \/ DeleteGetFails /\ Return(GC)
    /\ UNCHANGED <<db, box, held, batch, booting>>

StaleErase ==
    /\ At(GC, "staleErase")
    /\ \/ EraseOK(GC) /\ Copy(GC, NoEntry, "staleMark")
       \/ EraseFails(GC) /\ Return(GC)
    /\ UNCHANGED <<db, box, held, batch, booting>>

StaleMark ==
    /\ At(GC, "staleMark")
    /\ SaveOK(cur[GC], "terminated") \/ SaveFails(cur[GC], "terminated")
    /\ Return(GC)
    /\ UNCHANGED <<cacheVars, box, held, batch, booting>>

CleanupPassed ==
    /\ At(GC, "cleanup")
    /\ \/ \E rec \in Record :
             /\ GetYields(cur[GC], rec)
             /\ IF rec.status # "passed" THEN Return(GC)
                ELSE Goto(GC, IF IsSandbox(cur[GC]) THEN "cleanStop"
                              ELSE "cleanDelete")
       \/ GetFails(cur[GC]) /\ Return(GC)
    /\ UNCHANGED <<cacheVars, db, box, held, batch, booting>>

CleanStop ==
    /\ At(GC, "cleanStop")
    /\ StopBox(cur[GC])
    /\ Goto(GC, "cleanDelete")
    /\ UNCHANGED <<cacheVars, db, batch, booting>>

\* The row keeps saying passed.
CleanDelete ==
    /\ At(GC, "cleanDelete")
    /\ \/ DeleteGet(GC, "cleanErase")
       \/ DeleteGetFails /\ Return(GC)
    /\ UNCHANGED <<db, box, held, batch, booting>>

CleanErase ==
    /\ At(GC, "cleanErase")
    /\ EraseOK(GC) \/ EraseFails(GC)
    /\ Return(GC)
    /\ UNCHANGED <<db, box, held, batch, booting>>

-----------------------------------------------------------------------------
(* What happens around the program.                                        *)

\* Time passes the cutoff of a cached record.
Age(id) ==
    /\ main[id].status \in {"running", "passed"}
    /\ ~main[id].old
    /\ main' = [main EXCEPT ![id].old = TRUE]
    /\ UNCHANGED <<active, owner, db, box, held, procVars, batch, booting, faults>>

\* A container dies or is removed behind the program's back.
Kill(id) ==
    /\ Fault("kill")
    /\ box[id] = "up"
    /\ box' = [box EXCEPT ![id] = "gone"]
    /\ UNCHANGED <<cacheVars, db, held, procVars, batch, booting>>

\* Mutant: a record is written without a TTL.
ExpireNever(id) ==
    /\ FALSE
    /\ id \in Attempt
    /\ UNCHANGED vars

\* The main key expires, alone or with its owner index.  A record the
\* collector sees is dealt with long before its TTL ends, unless the collector
\* is down: only then is this a fault.
Expire(id) ==
    /\ Cached(id)
    /\ IF Visible(id) THEN Fault("ttl") ELSE NoFault
    /\ main' = [main EXCEPT ![id] = NoEntry]
    /\ \/ UNCHANGED owner
       \/ /\ owner[OwnerOf[id]] = id
          /\ owner' = [owner EXCEPT ![OwnerOf[id]] = NoAttempt]
    /\ UNCHANGED <<active, db, box, held, procVars, batch, booting>>

\* The process dies and starts again: Redis, the rows and the containers
\* stay; the handlers and the runner's table are lost.
Crash ==
    /\ Fault("crash")
    /\ pc' = [p \in Proc |-> "idle"]
    /\ cur' = [p \in Proc |-> NoAttempt]
    /\ snap' = [p \in Proc |-> NoEntry]
    /\ fresh' = [p \in Proc |-> NoAttempt]
    /\ batch' = [id \in Attempt |-> NoEntry]
    /\ held' = {}
    /\ booting' = TRUE
    /\ UNCHANGED <<cacheVars, db, box>>

\* Mutant: only containers of attempts the store knows are removed.
ReconcileListed ==
    /\ booting
    /\ booting' = FALSE
    /\ box' = [id \in Attempt |-> IF box[id] = "up" /\ Cached(id) THEN "gone" ELSE box[id]]
    /\ NoFault
    /\ UNCHANGED <<cacheVars, db, held, procVars, batch>>

\* Mutant: containers of attempts the collector sees are spared, whose ports
\* the new process takes for free.
ReconcileUnlisted ==
    /\ booting
    /\ booting' = FALSE
    /\ box' = [id \in Attempt |-> IF box[id] = "up" /\ ~Visible(id) THEN "gone" ELSE box[id]]
    /\ NoFault
    /\ UNCHANGED <<cacheVars, db, held, procVars, batch>>

\* Reconcile removes every container with the program's label.  It runs in
\* the collector's Start, while the HTTP server may already be serving.
Reconcile ==
    /\ booting
    /\ booting' = FALSE
    /\ \/ /\ box' = [id \in Attempt |-> IF box[id] = "up" THEN "gone" ELSE box[id]]
          /\ NoFault
       \/ UNCHANGED box /\ Fault("rm")
    /\ UNCHANGED <<cacheVars, db, held, procVars, batch>>

-----------------------------------------------------------------------------
StartStep(w) ==
    \/ Find(w) \/ Unindex(w) \/ ReusePing(w) \/ RecDelete(w) \/ RecErase(w) \/ RecStop(w) \/ RecMark(w)
    \/ Run(w) \/ Create(w) \/ UndoRun(w) \/ Put(w) \/ UndoPut(w) \/ UndoMark(w)

CallStep(w) ==
    \/ Touch(w) \/ TouchPut(w)
    \/ Judge(w) \/ CheckMark(w) \/ CheckSync(w) \/ CheckPut(w)
    \/ ProbePing(w) \/ HealDelete(w) \/ HealErase(w) \/ HealMark(w)

TermStep(p) ==
    Terminate(p) \/ TermStop(p) \/ TermMark(p) \/ TermDelete(p) \/ TermErase(p)

\* A handler that started goes on to its next round trip.
WorkerStep(w) == StartStep(w) \/ CallStep(w) \/ TermStep(w)

Request(w) ==
    \E id \in Attempt : \/ Start(w, id) \/ Heartbeat(w, id) \/ Check(w, id)
                        \/ Probe(w, id) \/ GiveUp(w, id)

GCStep ==
    \/ Tick \/ ReadListed
    \/ \E id \in Attempt : Prune(id) \/ Visit(id)
    \/ TermStep(GC)
    \/ StaleGet \/ StaleDelete \/ StaleErase \/ StaleMark
    \/ CleanupPassed \/ CleanStop \/ CleanDelete \/ CleanErase

Environment ==
    \/ \E id \in Attempt : Age(id) \/ Kill(id) \/ Expire(id)
    \/ Crash
    \/ Reconcile

Next ==
    \/ \E w \in Worker : Request(w) \/ WorkerStep(w)
    \/ GCStep
    \/ Environment

Spec == Init /\ [][Next]_vars

(***************************************************************************)
(* Every round trip has a time limit, so a handler that started goes on;   *)
(* the collector's ticker never stops; time passes; Reconcile runs once    *)
(* after a start; a record the collector does not see reaches its TTL.     *)
(* Requests, faults and crashes need not happen.                           *)
(***************************************************************************)
Fairness ==
    /\ \A w \in Worker : WF_vars(WorkerStep(w))
    /\ WF_vars(GCStep)
    /\ \A id \in Attempt : WF_vars(Age(id)) /\ WF_vars(~Visible(id) /\ Expire(id))
    /\ WF_vars(Reconcile)

FairSpec == Spec /\ Fairness
=============================================================================
