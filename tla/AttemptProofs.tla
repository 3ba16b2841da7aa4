---------------------------- MODULE AttemptProofs ----------------------------
(***************************************************************************)
(* Type correctness of the lifecycle of attempts, for any number of        *)
(* attempts, owners and handlers and any set of faults.  TypeOK alone is   *)
(* not inductive: a round trip on the attempt in hand needs to know that   *)
(* there is one, so TypeInv adds it.                                       *)
(***************************************************************************)
EXTENDS AttemptProperties, TLAPS

\* A Start that replaces an attempt, and holds the identifier of the new one.
Replacing == {"find", "unindex", "reusePing", "recDelete", "recErase", "recStop", "recMark"}

\* The four places and the collector's batch.
PlaceTypeOK ==
    /\ CacheTypeOK
    /\ db \in [Attempt -> Status]
    /\ box \in [Attempt -> {"none", "up", "gone"}]
    /\ held \subseteq Attempt
    /\ batch \in [Attempt -> Entry]
    /\ booting \in BOOLEAN

\* What the processes have in hand.
ProcTypeOK ==
    /\ pc \in [Proc -> Label]
    /\ cur \in [Proc -> Attempt \cup {NoAttempt}]
    /\ snap \in [Proc -> Record]
    /\ fresh \in [Proc -> Attempt \cup {NoAttempt}]
    /\ \A p \in Proc : pc[p] # "idle" => cur[p] \in Attempt
    /\ \A p \in Proc : pc[p] \in Replacing => fresh[p] \in Attempt

TypeInv == PlaceTypeOK /\ ProcTypeOK /\ faults \in Nat

\* The moves of a process keep its control variables well typed.
LEMMA GotoType ==
    ASSUME ProcTypeOK, NEW p \in Proc, NEW label \in Label, Goto(p, label),
           pc[p] # "idle", label \in Replacing => fresh[p] \in Attempt
    PROVE  ProcTypeOK'
BY DEF ProcTypeOK, Goto

\* The same, taking an attempt in hand.
LEMMA TakeType ==
    ASSUME ProcTypeOK, NEW p \in Proc, NEW id \in Attempt,
           NEW label \in Label \ Replacing, Take(p, id, label)
    PROVE  ProcTypeOK'
BY DEF ProcTypeOK, Take

\* The same, keeping a record to write back.
LEMMA CopyType ==
    ASSUME ProcTypeOK, NEW p \in Proc, NEW rec \in Record, NEW label \in Label,
           Copy(p, rec, label),
           pc[p] # "idle", label \in Replacing => fresh[p] \in Attempt
    PROVE  ProcTypeOK'
BY DEF ProcTypeOK, Copy

\* The same, answering the call.
LEMMA ReturnType ==
    ASSUME ProcTypeOK, NEW p \in Proc, Return(p)
    PROVE  ProcTypeOK'
BY DEF ProcTypeOK, Return, Replacing, Label, NoEntry, Record, Status

\* The same, beginning a new attempt.
LEMMA BeginType ==
    ASSUME ProcTypeOK, NEW p \in Proc, NEW id \in Attempt, Begin(p, id)
    PROVE  ProcTypeOK'
BY DEF ProcTypeOK, Begin, Replacing, Label

\* The pipeline of Put keeps the cache well typed, also one that breaks.
LEMMA PutType ==
    ASSUME CacheTypeOK, NEW id \in Attempt, NEW rec \in Record,
           PutEntry(id, rec) \/ PutBroken(id, rec)
    PROVE  CacheTypeOK'
BY OwnerOfAssumption DEF CacheTypeOK, PutEntry, PutBroken, cacheVars

\* The pipeline of Delete keeps the cache well typed, also one that breaks.
LEMMA EraseType ==
    ASSUME CacheTypeOK, NEW id \in Attempt, NEW found \in BOOLEAN,
           EraseEntry(id, found) \/ EraseBroken(id, found)
    PROVE  CacheTypeOK'
<1>1. NoEntry \in Record
  BY DEF NoEntry, Record, Status
<1>2. main' \in [Attempt -> Record]
  BY <1>1 DEF CacheTypeOK, EraseEntry, EraseBroken, cacheVars
<1>3. active' \subseteq Attempt
  BY DEF CacheTypeOK, EraseEntry, EraseBroken, cacheVars
<1>4. owner' \in [Owner -> Attempt \cup {NoAttempt}]
  BY OwnerOfAssumption DEF CacheTypeOK, EraseEntry, EraseBroken, cacheVars
<1> QED
  BY <1>2, <1>3, <1>4 DEF CacheTypeOK

\* Writing a row keeps rows well typed, whether the call answers or not.
LEMMA SaveType ==
    ASSUME PlaceTypeOK, NEW id \in Attempt, NEW status \in Status,
           SaveOK(id, status) \/ SaveFails(id, status),
           UNCHANGED <<main, active, owner, box, held, batch, booting>>
    PROVE  PlaceTypeOK'
BY DEF PlaceTypeOK, CacheTypeOK, SaveOK, SaveFails, SaveRow

\* runner.Stop keeps containers and the table of the runner well typed.
LEMMA StopType ==
    ASSUME PlaceTypeOK, NEW id \in Attempt, StopBox(id),
           UNCHANGED <<main, active, owner, db, batch, booting>>
    PROVE  PlaceTypeOK'
BY DEF PlaceTypeOK, CacheTypeOK, StopBox

\* What a step leaves alone stays well typed.
LEMMA StayType ==
    ASSUME PlaceTypeOK, UNCHANGED <<cacheVars, db, box, held, batch, booting>>
    PROVE  PlaceTypeOK'
BY DEF PlaceTypeOK, CacheTypeOK, cacheVars

\* The fault counter stays a number.
LEMMA FaultsType ==
    ASSUME faults \in Nat, NoFault \/ \E kind \in FaultKinds : Fault(kind)
    PROVE  faults' \in Nat
BY DEF NoFault, Fault

\* A step of a Start in progress keeps every type.
LEMMA StartStepType ==
    ASSUME TypeInv, NEW w \in Worker, StartStep(w)
    PROVE  TypeInv'
<1> USE DEF TypeInv
<1>a. w \in Proc /\ (pc[w] # "idle" => cur[w] \in Attempt)
  BY DEF Proc, ProcTypeOK
<1>b. pc[w] \in Replacing => fresh[w] \in Attempt
  BY <1>a DEF ProcTypeOK
<1>1. CASE ReusePing(w)
  <2>1. ProcTypeOK'
    BY <1>1, <1>a, <1>b, GotoType DEF ReusePing, At, Label, Replacing
  <2>2. PlaceTypeOK'
    BY <1>1, <1>a, StayType DEF ReusePing, At
  <2> QED
    BY <1>1, <2>1, <2>2 DEF ReusePing, PingOK, PingFails, NoFault, Fault
<1>2. CASE RecDelete(w)
  <2>1. ProcTypeOK'
    BY <1>2, <1>a, <1>b, GotoType, CopyType DEF RecDelete, At, DeleteGet, AfterRecErase, PlaceTypeOK, CacheTypeOK, Label, Replacing
  <2>2. PlaceTypeOK'
    BY <1>2, <1>a, StayType DEF RecDelete, At, DeleteGet, DeleteGetFails, cacheVars
  <2> QED
    BY <1>2, <2>1, <2>2 DEF RecDelete, DeleteGet, DeleteGetFails, NoFault, Fault
<1>3. CASE RecErase(w)
  <2>1. ProcTypeOK'
    BY <1>3, <1>a, <1>b, CopyType DEF RecErase, At, AfterRecErase, NoEntry, Record, Status, Label, Replacing
  <2>2. PlaceTypeOK'
    BY <1>3, <1>a, EraseType DEF RecErase, At, EraseOK, EraseFails, EraseCur, PlaceTypeOK, CacheTypeOK, cacheVars
  <2> QED
    BY <1>3, <2>1, <2>2 DEF RecErase, EraseOK, EraseFails, EraseCur, NoFault, Fault
<1>4. CASE RecStop(w)
  <2>1. ProcTypeOK'
    BY <1>4, <1>a, <1>b, GotoType DEF RecStop, At, Label, Replacing
  <2>2. PlaceTypeOK'
    BY <1>4, <1>a, StopType DEF RecStop, At, cacheVars
  <2> QED
    BY <1>4, <2>1, <2>2 DEF RecStop, StopBox, NoFault, Fault
<1>5. CASE RecMark(w)
  <2>1. ProcTypeOK'
    BY <1>5, <1>a, <1>b, BeginType DEF RecMark, At, Label, Replacing
  <2>2. PlaceTypeOK'
    BY <1>5, <1>a, SaveType DEF RecMark, At, Status, cacheVars
  <2> QED
    BY <1>5, <2>1, <2>2 DEF RecMark, SaveOK, SaveFails, NoFault, Fault
<1>6. CASE Run(w)
  <2>1. ProcTypeOK'
    BY <1>6, <1>a, <1>b, GotoType, ReturnType DEF Run, At, Label, Replacing
  <2>2. PlaceTypeOK'
    BY <1>6, <1>a DEF Run, At, PlaceTypeOK, CacheTypeOK, cacheVars
  <2> QED
    BY <1>6, <2>1, <2>2 DEF Run, NoFault, Fault
<1>7. CASE Create(w)
  <2>1. ProcTypeOK'
    BY <1>7, <1>a, <1>b, GotoType, ReturnType DEF Create, At, Label, Replacing
  <2>2. PlaceTypeOK'
    BY <1>7, <1>a, SaveType DEF Create, At, Status, cacheVars
  <2> QED
    BY <1>7, <2>1, <2>2 DEF Create, SaveOK, SaveFails, NoFault, Fault
<1>8. CASE UndoRun(w)
  <2>1. ProcTypeOK'
    BY <1>8, <1>a, <1>b, ReturnType DEF UndoRun, At, Label, Replacing
  <2>2. PlaceTypeOK'
    BY <1>8, <1>a, StopType DEF UndoRun, At, cacheVars
  <2> QED
    BY <1>8, <2>1, <2>2 DEF UndoRun, StopBox, NoFault, Fault
<1>9. CASE Put(w)
  <2>1. ProcTypeOK'
    BY <1>9, <1>a, <1>b, GotoType, ReturnType DEF Put, At, Label, Replacing
  <2>2. PlaceTypeOK'
    BY <1>9, <1>a, PutType DEF Put, At, PlaceTypeOK, CacheTypeOK, cacheVars, Running, Record, Status
  <2> QED
    BY <1>9, <2>1, <2>2 DEF Put, NoFault, Fault
<1>10. CASE UndoPut(w)
  <2>1. ProcTypeOK'
    BY <1>10, <1>a, <1>b, GotoType DEF UndoPut, At, Label, Replacing
  <2>2. PlaceTypeOK'
    BY <1>10, <1>a, StopType DEF UndoPut, At, cacheVars
  <2> QED
    BY <1>10, <2>1, <2>2 DEF UndoPut, StopBox, NoFault, Fault
<1>11. CASE UndoMark(w)
  <2>1. ProcTypeOK'
    BY <1>11, <1>a, <1>b, ReturnType DEF UndoMark, At, Label, Replacing
  <2>2. PlaceTypeOK'
    BY <1>11, <1>a, SaveType DEF UndoMark, At, Status, cacheVars
  <2> QED
    BY <1>11, <2>1, <2>2 DEF UndoMark, SaveOK, SaveFails, NoFault, Fault
<1>12. CASE Find(w)
  <2>1. AfterFind(cur[w]) \in Label /\ AfterFind(cur[w]) # "idle"
    BY <1>12, <1>a DEF Find, At, AfterFind, Label
  <2>2. ProcTypeOK'
    BY <1>12, <1>a, <1>b, <2>1, GotoType, BeginType DEF Find, At, Replacing
  <2>3. PlaceTypeOK'
    BY <1>12, <1>a, StayType DEF Find, At
  <2> QED
    BY <1>12, <2>2, <2>3 DEF Find, NoFault, Fault
<1>13. CASE Unindex(w)
  <2>1. ProcTypeOK'
    BY <1>13, <1>a, <1>b, BeginType DEF Unindex, At, Replacing
  <2>2. PlaceTypeOK'
    BY <1>13 DEF Unindex, PlaceTypeOK, CacheTypeOK
  <2> QED
    BY <1>13, <2>1, <2>2 DEF Unindex, NoFault, Fault
<1> QED
  BY <1>1, <1>2, <1>3, <1>4, <1>5, <1>6, <1>7, <1>8, <1>9, <1>10, <1>11, <1>12, <1>13 DEF StartStep

\* A step of Heartbeat, Check or GetWithPing keeps every type.
LEMMA CallStepType ==
    ASSUME TypeInv, NEW w \in Worker, CallStep(w)
    PROVE  TypeInv'
<1> USE DEF TypeInv
<1>a. w \in Proc /\ (pc[w] # "idle" => cur[w] \in Attempt)
  BY DEF Proc, ProcTypeOK
<1>b. pc[w] \in Replacing => fresh[w] \in Attempt
  BY <1>a DEF ProcTypeOK
<1>1. CASE Touch(w)
  <2>1. ProcTypeOK'
    BY <1>1, <1>a, <1>b, CopyType, ReturnType DEF Touch, At, PlaceTypeOK, CacheTypeOK, Label, Replacing
  <2>2. PlaceTypeOK'
    BY <1>1, <1>a, StayType DEF Touch, At
  <2> QED
    BY <1>1, <2>1, <2>2 DEF Touch, NoFault, Fault
<1>2. CASE TouchPut(w)
  <2>1. ProcTypeOK'
    BY <1>2, <1>a, <1>b, ReturnType DEF TouchPut, At, Label, Replacing
  <2>2. PlaceTypeOK'
    BY <1>2, <1>a, PutType DEF TouchPut, At, PlaceTypeOK, ProcTypeOK, CacheTypeOK, cacheVars, Touched, Record
  <2> QED
    BY <1>2, <2>1, <2>2 DEF TouchPut, NoFault, Fault
<1>3. CASE Judge(w)
  <2>1. ProcTypeOK'
    BY <1>3, <1>a, <1>b, CopyType, ReturnType DEF Judge, At, Record, Status, Label, Replacing
  <2>2. PlaceTypeOK'
    BY <1>3, <1>a, StayType DEF Judge, At
  <2> QED
    BY <1>3, <2>1, <2>2 DEF Judge, PingFails, NoFault, Fault
<1>4. CASE CheckMark(w)
  <2>1. ProcTypeOK'
    BY <1>4, <1>a, <1>b, GotoType DEF CheckMark, At, Label, Replacing
  <2>2. PlaceTypeOK'
    BY <1>4, <1>a, SaveType DEF CheckMark, At, ProcTypeOK, Record, cacheVars
  <2> QED
    BY <1>4, <2>1, <2>2 DEF CheckMark, SaveOK, SaveFails, NoFault, Fault
<1>5. CASE CheckSync(w)
  <2>1. ProcTypeOK'
    BY <1>5, <1>a, <1>b, GotoType, ReturnType DEF CheckSync, At, Label, Replacing
  <2>2. PlaceTypeOK'
    BY <1>5, <1>a, StayType DEF CheckSync, At
  <2> QED
    BY <1>5, <2>1, <2>2 DEF CheckSync, NoFault, Fault
<1>6. CASE CheckPut(w)
  <2>1. ProcTypeOK'
    BY <1>6, <1>a, <1>b, ReturnType DEF CheckPut, At, Label, Replacing
  <2>2. PlaceTypeOK'
    BY <1>6, <1>a, PutType DEF CheckPut, At, PlaceTypeOK, ProcTypeOK, CacheTypeOK, cacheVars
  <2> QED
    BY <1>6, <2>1, <2>2 DEF CheckPut, NoFault, Fault
<1>7. CASE ProbePing(w)
  <2>1. ProcTypeOK'
    BY <1>7, <1>a, <1>b, GotoType, ReturnType DEF ProbePing, At, Label, Replacing
  <2>2. PlaceTypeOK'
    BY <1>7, <1>a, StayType DEF ProbePing, At
  <2> QED
    BY <1>7, <2>1, <2>2 DEF ProbePing, PingOK, PingFails, NoFault, Fault
<1>8. CASE HealDelete(w)
  <2>1. ProcTypeOK'
    BY <1>8, <1>a, <1>b, GotoType, CopyType DEF HealDelete, At, DeleteGet, PlaceTypeOK, CacheTypeOK, Label, Replacing
  <2>2. PlaceTypeOK'
    BY <1>8, <1>a, StayType DEF HealDelete, At, DeleteGet, DeleteGetFails, cacheVars
  <2> QED
    BY <1>8, <2>1, <2>2 DEF HealDelete, DeleteGet, DeleteGetFails, NoFault, Fault
<1>9. CASE HealErase(w)
  <2>1. ProcTypeOK'
    BY <1>9, <1>a, <1>b, CopyType DEF HealErase, At, NoEntry, Record, Status, Label, Replacing
  <2>2. PlaceTypeOK'
    BY <1>9, <1>a, EraseType DEF HealErase, At, EraseOK, EraseFails, EraseCur, PlaceTypeOK, CacheTypeOK, cacheVars
  <2> QED
    BY <1>9, <2>1, <2>2 DEF HealErase, EraseOK, EraseFails, EraseCur, NoFault, Fault
<1>10. CASE HealMark(w)
  <2>1. ProcTypeOK'
    BY <1>10, <1>a, <1>b, ReturnType DEF HealMark, At, Label, Replacing
  <2>2. PlaceTypeOK'
    BY <1>10, <1>a, SaveType DEF HealMark, At, Status, cacheVars
  <2> QED
    BY <1>10, <2>1, <2>2 DEF HealMark, SaveOK, SaveFails, NoFault, Fault
<1> QED
  BY <1>1, <1>2, <1>3, <1>4, <1>5, <1>6, <1>7, <1>8, <1>9, <1>10 DEF CallStep

\* A step of Terminate keeps every type.
LEMMA TermStepType ==
    ASSUME TypeInv, NEW p \in Proc, TermStep(p)
    PROVE  TypeInv'
<1> USE DEF TypeInv
<1>a. pc[p] # "idle" => cur[p] \in Attempt
  BY DEF Proc, ProcTypeOK
<1>b. pc[p] \in Replacing => fresh[p] \in Attempt
  BY <1>a DEF ProcTypeOK
<1>1. CASE Terminate(p)
  <2>1. ProcTypeOK'
    BY <1>1, <1>a, <1>b, GotoType, ReturnType DEF Terminate, At, Label, Replacing
  <2>2. PlaceTypeOK'
    BY <1>1, <1>a, StayType DEF Terminate, At
  <2> QED
    BY <1>1, <2>1, <2>2 DEF Terminate, GetYields, GetFails, NoFault, Fault
<1>2. CASE TermStop(p)
  <2>1. ProcTypeOK'
    BY <1>2, <1>a, <1>b, GotoType DEF TermStop, At, Label, Replacing
  <2>2. PlaceTypeOK'
    BY <1>2, <1>a, StopType DEF TermStop, At, cacheVars
  <2> QED
    BY <1>2, <2>1, <2>2 DEF TermStop, StopBox, NoFault, Fault
<1>3. CASE TermMark(p)
  <2>1. ProcTypeOK'
    BY <1>3, <1>a, <1>b, GotoType, ReturnType DEF TermMark, At, Label, Replacing
  <2>2. PlaceTypeOK'
    BY <1>3, <1>a, SaveType DEF TermMark, At, Status, cacheVars
  <2> QED
    BY <1>3, <2>1, <2>2 DEF TermMark, SaveOK, SaveFails, NoFault, Fault
<1>4. CASE TermDelete(p)
  <2>1. ProcTypeOK'
    BY <1>4, <1>a, <1>b, CopyType, ReturnType DEF TermDelete, At, DeleteGet, PlaceTypeOK, CacheTypeOK, Label, Replacing
  <2>2. PlaceTypeOK'
    BY <1>4, <1>a, StayType DEF TermDelete, At, DeleteGet, DeleteGetFails, cacheVars
  <2> QED
    BY <1>4, <2>1, <2>2 DEF TermDelete, DeleteGet, DeleteGetFails, NoFault, Fault
<1>5. CASE TermErase(p)
  <2>1. ProcTypeOK'
    BY <1>5, <1>a, <1>b, ReturnType DEF TermErase, At, Label, Replacing
  <2>2. PlaceTypeOK'
    BY <1>5, <1>a, EraseType DEF TermErase, At, EraseOK, EraseFails, EraseCur, PlaceTypeOK, CacheTypeOK, cacheVars
  <2> QED
    BY <1>5, <2>1, <2>2 DEF TermErase, EraseOK, EraseFails, EraseCur, NoFault, Fault
<1> QED
  BY <1>1, <1>2, <1>3, <1>4, <1>5 DEF TermStep

\* The first round trip of a request keeps every type.
LEMMA RequestType ==
    ASSUME TypeInv, NEW w \in Worker, Request(w)
    PROVE  TypeInv'
<1> USE DEF TypeInv
<1> PICK id \in Attempt : \/ Start(w, id) \/ Heartbeat(w, id) \/ Check(w, id)
                         \/ Probe(w, id) \/ GiveUp(w, id)
  BY DEF Request
<1>a. w \in Proc
  BY DEF Proc
<1>1. CASE Start(w, id)
  <2> DEFINE key == OwnerOf[id]
             old == owner[key]
  <2>1. old # NoAttempt => old \in Attempt
    BY OwnerOfAssumption DEF PlaceTypeOK, CacheTypeOK
  <2>2. ProcTypeOK'
    <3>1. CASE Begin(w, id)
      BY <3>1, <1>a, BeginType
    <3>2. CASE /\ old # NoAttempt
               /\ cur' = [cur EXCEPT ![w] = old]
               /\ fresh' = [fresh EXCEPT ![w] = id]
               /\ snap' = snap
               /\ pc' = [pc EXCEPT ![w] = "find"]
      BY <3>2, <2>1, <1>a DEF ProcTypeOK, Replacing, Label
    <3> QED
      BY <1>1, <3>1, <3>2 DEF Start
  <2>3. PlaceTypeOK'
    BY <1>1, OwnerOfAssumption DEF Start, PlaceTypeOK, CacheTypeOK, cacheVars
  <2> QED
    BY <1>1, <2>2, <2>3 DEF Start, NoFault, Fault
<1>2. CASE Heartbeat(w, id)
  BY <1>2, <1>a, TakeType, StayType DEF Heartbeat, GetYields, NoFault, Fault, Label, Replacing
<1>3. CASE Check(w, id)
  BY <1>3, <1>a, TakeType, StayType DEF Check, GetYields, NoFault, Fault, Label, Replacing
<1>4. CASE Probe(w, id)
  BY <1>4, <1>a, TakeType, StayType DEF Probe, GetYields, NoFault, Fault, Label, Replacing
<1>5. CASE GiveUp(w, id)
  BY <1>5, <1>a, TakeType, StayType DEF GiveUp, NoFault, Label, Replacing
<1> QED
  BY <1>1, <1>2, <1>3, <1>4, <1>5

\* What a tick may know of an attempt.
LEMMA EntryType == NoEntry \in Entry /\ Listed \in Entry /\ Missing \in Entry
BY DEF NoEntry, Entry, Record, Status

\* A step of the collector keeps every type.
LEMMA GCStepType ==
    ASSUME TypeInv, GCStep
    PROVE  TypeInv'
<1> USE DEF TypeInv
<1>a. GC \in Proc /\ (pc[GC] # "idle" => cur[GC] \in Attempt)
  BY DEF Proc, ProcTypeOK
<1>1. CASE Tick
  BY <1>1, EntryType DEF Tick, PlaceTypeOK, CacheTypeOK, ProcTypeOK, procVars, cacheVars, NoFault
<1>12. CASE ReadListed
  <2>1. batch' \in [Attempt -> Entry]
    BY <1>12, EntryType DEF ReadListed, Found, PlaceTypeOK, CacheTypeOK, Entry
  <2> QED
    BY <1>12, <2>1 DEF ReadListed, PlaceTypeOK, CacheTypeOK, ProcTypeOK, procVars, cacheVars, NoFault, Fault
<1>13. CASE \E id \in Attempt : Prune(id)
  BY <1>13, EntryType DEF Prune, PlaceTypeOK, CacheTypeOK, ProcTypeOK, procVars, NoFault, Fault
<1>2. CASE \E id \in Attempt : Visit(id)
  <2> PICK id \in Attempt : Visit(id)
    BY <1>2
  <2>1. ProcTypeOK'
    <3>1. CASE UNCHANGED procVars
      BY <3>1 DEF procVars, ProcTypeOK
    <3>2. CASE \E label \in {"staleGet", "terminate", "cleanup"} : Take(GC, id, label)
      BY <3>2, <1>a, TakeType DEF Label, Replacing
    <3> QED
      BY <3>1, <3>2 DEF Visit
  <2>2. PlaceTypeOK'
    BY EntryType DEF Visit, PlaceTypeOK, CacheTypeOK, cacheVars
  <2> QED
    BY <2>1, <2>2 DEF Visit, PingFails, PingOK, NoFault, Fault
<1>3. CASE TermStep(GC)
  BY <1>3, <1>a, TermStepType
<1>4. CASE StaleGet
  <2>1. ProcTypeOK'
    BY <1>4, <1>a, GotoType, ReturnType DEF StaleGet, At, Label, Replacing
  <2>2. PlaceTypeOK'
    BY <1>4, <1>a, StayType DEF StaleGet, At
  <2> QED
    BY <1>4, <2>1, <2>2 DEF StaleGet, NoFault, Fault
<1>5. CASE StaleDelete
  <2>1. ProcTypeOK'
    BY <1>5, <1>a, CopyType, ReturnType DEF StaleDelete, At, DeleteGet, PlaceTypeOK, CacheTypeOK, Label, Replacing
  <2>2. PlaceTypeOK'
    BY <1>5, <1>a, StayType DEF StaleDelete, At, DeleteGet, DeleteGetFails, cacheVars
  <2> QED
    BY <1>5, <2>1, <2>2 DEF StaleDelete, DeleteGet, DeleteGetFails, NoFault, Fault
<1>6. CASE StaleErase
  <2>1. ProcTypeOK'
    BY <1>6, <1>a, CopyType, ReturnType DEF StaleErase, At, NoEntry, Record, Status, Label, Replacing
  <2>2. PlaceTypeOK'
    BY <1>6, <1>a, EraseType DEF StaleErase, At, EraseOK, EraseFails, EraseCur, PlaceTypeOK, CacheTypeOK, cacheVars
  <2> QED
    BY <1>6, <2>1, <2>2 DEF StaleErase, EraseOK, EraseFails, EraseCur, NoFault, Fault
<1>7. CASE StaleMark
  <2>1. ProcTypeOK'
    BY <1>7, <1>a, ReturnType DEF StaleMark, At, Label, Replacing
  <2>2. PlaceTypeOK'
    BY <1>7, <1>a, SaveType DEF StaleMark, At, Status, cacheVars
  <2> QED
    BY <1>7, <2>1, <2>2 DEF StaleMark, SaveOK, SaveFails, NoFault, Fault
<1>8. CASE CleanupPassed
  <2>1. ProcTypeOK'
    BY <1>8, <1>a, GotoType, ReturnType DEF CleanupPassed, At, Label, Replacing
  <2>2. PlaceTypeOK'
    BY <1>8, <1>a, StayType DEF CleanupPassed, At
  <2> QED
    BY <1>8, <2>1, <2>2 DEF CleanupPassed, GetYields, GetFails, NoFault, Fault
<1>9. CASE CleanStop
  <2>1. ProcTypeOK'
    BY <1>9, <1>a, GotoType DEF CleanStop, At, Label, Replacing
  <2>2. PlaceTypeOK'
    BY <1>9, <1>a, StopType DEF CleanStop, At, cacheVars
  <2> QED
    BY <1>9, <2>1, <2>2 DEF CleanStop, StopBox, NoFault, Fault
<1>10. CASE CleanDelete
  <2>1. ProcTypeOK'
    BY <1>10, <1>a, CopyType, ReturnType DEF CleanDelete, At, DeleteGet, PlaceTypeOK, CacheTypeOK, Label, Replacing
  <2>2. PlaceTypeOK'
    BY <1>10, <1>a, StayType DEF CleanDelete, At, DeleteGet, DeleteGetFails, cacheVars
  <2> QED
    BY <1>10, <2>1, <2>2 DEF CleanDelete, DeleteGet, DeleteGetFails, NoFault, Fault
<1>11. CASE CleanErase
  <2>1. ProcTypeOK'
    BY <1>11, <1>a, ReturnType DEF CleanErase, At, Label, Replacing
  <2>2. PlaceTypeOK'
    BY <1>11, <1>a, EraseType DEF CleanErase, At, EraseOK, EraseFails, EraseCur, PlaceTypeOK, CacheTypeOK, cacheVars
  <2> QED
    BY <1>11, <2>1, <2>2 DEF CleanErase, EraseOK, EraseFails, EraseCur, NoFault, Fault
<1> QED
  BY <1>1, <1>2, <1>3, <1>4, <1>5, <1>6, <1>7, <1>8, <1>9, <1>10, <1>11, <1>12, <1>13 DEF GCStep

\* Time, faults, a crash and the startup Reconcile keep every type.
LEMMA EnvironmentType ==
    ASSUME TypeInv, Environment
    PROVE  TypeInv'
<1> USE DEF TypeInv, PlaceTypeOK, CacheTypeOK, ProcTypeOK, procVars, cacheVars, Fault, NoFault
<1>1. ASSUME NEW id \in Attempt, Age(id)
      PROVE  TypeInv'
  <2>1. main' \in [Attempt -> Record]
    BY <1>1 DEF Age, Record
  <2> QED
    BY <1>1, <2>1 DEF Age
<1>2. ASSUME NEW id \in Attempt, Kill(id)
      PROVE  TypeInv'
  BY <1>2 DEF Kill
<1>3. ASSUME NEW id \in Attempt, Expire(id)
      PROVE  TypeInv'
  <2>1. main' \in [Attempt -> Record]
    BY <1>3 DEF Expire, NoEntry, Record, Status
  <2>2. owner' \in [Owner -> Attempt \cup {NoAttempt}]
    BY <1>3 DEF Expire
  <2> QED
    BY <1>3, <2>1, <2>2 DEF Expire
<1>4. CASE Crash
  <2>1. NoEntry \in Record /\ "idle" \in Label /\ "idle" \notin Replacing
    BY DEF NoEntry, Record, Status, Label, Replacing
  <2> QED
    BY <1>4, <2>1, EntryType DEF Crash
<1>5. CASE Reconcile
  <2>1. box' \in [Attempt -> {"none", "up", "gone"}]
    BY <1>5 DEF Reconcile
  <2>2. booting' \in BOOLEAN /\ UNCHANGED <<cacheVars, db, held, procVars, batch>>
    BY <1>5, Zenon DEF Reconcile
  <2>3. faults' \in Nat
    BY <1>5 DEF Reconcile
  <2> QED
    BY <2>1, <2>2, <2>3
<1> QED
  BY <1>1, <1>2, <1>3, <1>4, <1>5 DEF Environment

\* TypeInv is inductive.
LEMMA TypeInductive == TypeInv /\ [Next]_vars => TypeInv'
<1> SUFFICES ASSUME TypeInv, [Next]_vars
             PROVE  TypeInv'
  OBVIOUS
<1>1. CASE \E w \in Worker : Request(w) \/ WorkerStep(w)
  BY <1>1, RequestType, StartStepType, CallStepType, TermStepType DEF WorkerStep, Proc
<1>2. CASE GCStep
  BY <1>2, GCStepType
<1>3. CASE Environment
  BY <1>3, EnvironmentType
<1>4. CASE UNCHANGED vars
  BY <1>4 DEF vars, procVars, TypeInv, PlaceTypeOK, CacheTypeOK, ProcTypeOK
<1> QED
  BY <1>1, <1>2, <1>3, <1>4 DEF Next

\* The types, with what control needs of them: a process between two round
\* trips has an attempt in hand, and a Start that replaces one has the
\* identifier of the next.
THEOREM TypeInvariant == Spec => []TypeInv
<1>1. Init => TypeInv
  <2> SUFFICES ASSUME Init
               PROVE  TypeInv
    OBVIOUS
  <2>1. NoEntry \in Record /\ "none" \in Status /\ "idle" \in Label \ Replacing
    BY DEF NoEntry, Record, Status, Label, Replacing
  <2>2. ProcTypeOK
    BY <2>1 DEF Init, ProcTypeOK
  <2>3. CacheTypeOK /\ faults \in Nat
    BY <2>1 DEF Init, CacheInit, CacheTypeOK
  <2>4. booting \in BOOLEAN
    BY Zenon DEF Init
  <2>5. db \in [Attempt -> Status] /\ batch \in [Attempt -> Entry] /\ held \subseteq Attempt
    BY <2>1, EntryType DEF Init
  <2>6. box \in [Attempt -> {"none", "up", "gone"}]
    BY DEF Init
  <2> QED
    BY <2>2, <2>3, <2>4, <2>5, <2>6 DEF TypeInv, PlaceTypeOK
<1> QED
  BY <1>1, TypeInductive, PTL DEF Spec

\* Every variable of the lifecycle keeps its type.
THEOREM TypeCorrect == Spec => []TypeOK
<1>1. TypeInv => TypeOK
  BY DEF TypeInv, PlaceTypeOK, ProcTypeOK, TypeOK
<1> QED
  BY <1>1, TypeInvariant, PTL

-----------------------------------------------------------------------------
(***************************************************************************)
(* What the store holds, proved for any number of attempts, owners and     *)
(* handlers and for any set of faults.                                     *)
(***************************************************************************)

\* Labels at which the attempt in hand may not have a row yet.
Unborn == {"idle", "run", "create", "undoRun"}

\* Labels at which the record in hand will be written back.
Copying == {"checkMark", "checkSync", "checkPut", "touchPut"}

\* The statuses of an attempt that is not over.
Open == {"running", "passed"}

\* A record is that of an attempt with a row, and says running or passed; what
\* the row says by now is another matter.
RecordsHaveRows ==
    \A id \in Attempt : Cached(id) => /\ main[id].status \in {"running", "passed"}
                                      /\ db[id] # "none"

(***************************************************************************)
(* Nothing names an attempt without a row but the Start that is to make    *)
(* it: the attempt in hand has one once its Start has created it, so do    *)
(* the attempts the records, the active set, the indexes and the           *)
(* collector's batch name, and a copy a process will write back is one     *)
(* the store may hold.                                                     *)
(***************************************************************************)
OpenInv ==
    /\ RecordsHaveRows
    /\ \A id \in Attempt : batch[id].status # "none" => db[id] # "none"
    /\ \A id \in Attempt : id \in active => db[id] # "none"
    /\ \A o \in Owner : owner[o] # NoAttempt => db[owner[o]] # "none"
    /\ \A p \in Proc : pc[p] \notin Unborn => db[cur[p]] # "none"
    /\ \A p \in Proc : pc[p] \in Copying => snap[p].status \in Open

\* Only p moves, to label, with attempt id, record rec and new in hand.
Moves(p, label, id, rec, new) ==
    /\ pc'[p] = label
    /\ cur'[p] = id
    /\ snap'[p] = rec
    /\ fresh'[p] = new
    /\ \A q \in Proc : q # p => /\ pc'[q] = pc[q]
                               /\ cur'[q] = cur[q]
                               /\ snap'[q] = snap[q]
                               /\ fresh'[q] = fresh[q]

\* Goto, Take, Copy, Return and Begin move one process.
LEMMA GotoMoves ==
    ASSUME ProcTypeOK, NEW p \in Proc, NEW label, Goto(p, label)
    PROVE  Moves(p, label, cur[p], snap[p], fresh[p])
BY DEF ProcTypeOK, Goto, Moves

LEMMA TakeMoves ==
    ASSUME ProcTypeOK, NEW p \in Proc, NEW label, NEW id, Take(p, id, label)
    PROVE  Moves(p, label, id, snap[p], fresh[p])
BY DEF ProcTypeOK, Take, Moves

LEMMA CopyMoves ==
    ASSUME ProcTypeOK, NEW p \in Proc, NEW label, NEW rec, Copy(p, rec, label)
    PROVE  Moves(p, label, cur[p], rec, fresh[p])
BY DEF ProcTypeOK, Copy, Moves

LEMMA ReturnMoves ==
    ASSUME ProcTypeOK, NEW p \in Proc, Return(p)
    PROVE  Moves(p, "idle", NoAttempt, NoEntry, NoAttempt)
BY DEF ProcTypeOK, Return, Moves

LEMMA BeginMoves ==
    ASSUME ProcTypeOK, NEW p \in Proc, NEW id, Begin(p, id)
    PROVE  Moves(p, IF IsSandbox(id) THEN "run" ELSE "create", id, snap[p], NoAttempt)
BY DEF ProcTypeOK, Begin, Moves

-----------------------------------------------------------------------------
\* No row disappears.
RowsStay == \A id \in Attempt : db[id] # "none" => db'[id] # "none"

\* A key is left alone, removed, or written for an attempt that has a row, the
\* record with a status that is open.
RecordsOpen ==
    /\ \A id \in Attempt : \/ main'[id] = main[id]
                           \/ main'[id].status = "none"
                           \/ main'[id].status \in Open /\ db'[id] # "none"
    /\ \A id \in Attempt : id \in active' => id \in active \/ db'[id] # "none"
    /\ \A o \in Owner : \/ owner'[o] = owner[o]
                        \/ owner'[o] = NoAttempt
                        \/ db'[owner'[o]] # "none"

\* A step of p that keeps OpenInv.
KeepsOpen(p) ==
    /\ RowsStay
    /\ RecordsOpen
    /\ batch' = batch
    /\ \E label, id, rec, new :
          /\ label \in Label
          /\ Moves(p, label, id, rec, new)
          /\ label \notin Unborn => db'[id] # "none"
          /\ label \in Copying => rec.status \in Open

\* Such a step keeps OpenInv.
LEMMA OpenStep ==
    ASSUME TypeInv, OpenInv, NEW p \in Proc, KeepsOpen(p)
    PROVE  OpenInv'
<1> PICK label, id, rec, new :
          /\ label \in Label
          /\ Moves(p, label, id, rec, new)
          /\ label \notin Unborn => db'[id] # "none"
          /\ label \in Copying => rec.status \in Open
  BY DEF KeepsOpen
<1>1. RecordsHaveRows'
  BY DEF KeepsOpen, OpenInv, RecordsHaveRows, Cached, Open, RecordsOpen, RowsStay
<1>2. \A q \in Proc : pc'[q] \notin Unborn => db'[cur'[q]] # "none"
  BY DEF KeepsOpen, OpenInv, Moves, RowsStay, TypeInv, ProcTypeOK, Unborn
<1>3. \A q \in Proc : pc'[q] \in Copying => snap'[q].status \in Open
  BY DEF KeepsOpen, OpenInv, Moves
<1>4. \A i \in Attempt : batch'[i].status # "none" => db'[i] # "none"
  BY DEF KeepsOpen, OpenInv, RowsStay
<1>5. \A i \in Attempt : i \in active' => db'[i] # "none"
  BY DEF KeepsOpen, OpenInv, RecordsOpen, RowsStay
<1>6. \A o \in Owner : owner'[o] # NoAttempt => db'[owner'[o]] # "none"
  BY DEF KeepsOpen, OpenInv, RecordsOpen, RowsStay, TypeInv, PlaceTypeOK, CacheTypeOK
<1> QED
  BY <1>1, <1>2, <1>3, <1>4, <1>5, <1>6 DEF OpenInv

\* What the calls on the store and on a row do to one entry.
LEMMA PutEffect ==
    ASSUME CacheTypeOK, NEW id \in Attempt, NEW rec \in Record,
           PutEntry(id, rec) \/ PutBroken(id, rec)
    PROVE  /\ main'[id] \in {rec, main[id]}
           /\ \A i \in Attempt : i # id => main'[i] = main[i]
           /\ active' \in {active, active \cup {id}}
           /\ \A o \in Owner : owner'[o] \in {owner[o], id}
BY OwnerOfAssumption DEF CacheTypeOK, PutEntry, PutBroken, cacheVars

LEMMA EraseEffect ==
    ASSUME CacheTypeOK, NEW id \in Attempt, NEW found,
           EraseEntry(id, found) \/ EraseBroken(id, found)
    PROVE  /\ main'[id] \in {NoEntry, main[id]}
           /\ \A i \in Attempt : i # id => main'[i] = main[i]
           /\ active' \in {active, active \ {id}}
           /\ \A o \in Owner : owner'[o] \in {owner[o], NoAttempt}
BY OwnerOfAssumption DEF CacheTypeOK, EraseEntry, EraseBroken, cacheVars

LEMMA SaveEffect ==
    ASSUME PlaceTypeOK, NEW id \in Attempt, NEW status,
           SaveOK(id, status) \/ SaveFails(id, status)
    PROVE  /\ \A i \in Attempt : i # id => db'[i] = db[i]
           /\ db'[id] \in {db[id], status}
BY DEF PlaceTypeOK, SaveOK, SaveFails, SaveRow

\* A step of a Start in progress keeps OpenInv.
LEMMA StartStepOpen ==
    ASSUME TypeInv, OpenInv, NEW w \in Worker, StartStep(w)
    PROVE  OpenInv'
<1> USE DEF TypeInv, At
<1>a. w \in Proc /\ (pc[w] # "idle" => cur[w] \in Attempt)
  BY DEF Proc, ProcTypeOK
<1>b. /\ pc[w] \notin Unborn => db[cur[w]] # "none"
      /\ pc[w] \in Copying => snap[w].status \in Open
  BY <1>a DEF OpenInv
<1>1. CASE ReusePing(w)
  <2>1. RowsStay /\ RecordsOpen /\ batch' = batch
    BY <1>1, <1>a, <1>b DEF ReusePing, RowsStay, RecordsOpen, Unborn, cacheVars
  <2> QED
    BY <1>1, <1>a, <1>b, <2>1, OpenStep, GotoMoves DEF ReusePing, KeepsOpen, Label, Unborn, Copying
<1>2. CASE RecDelete(w)
  <2>1. RowsStay /\ RecordsOpen /\ batch' = batch
    BY <1>2, <1>a, <1>b DEF RecDelete, RowsStay, RecordsOpen, Unborn, cacheVars, DeleteGet, DeleteGetFails, AfterRecErase
  <2> QED
    BY <1>2, <1>a, <1>b, <2>1, OpenStep, GotoMoves, CopyMoves DEF RecDelete, DeleteGet, DeleteGetFails, cacheVars, AfterRecErase, KeepsOpen, Label, Unborn, Copying
<1>3. CASE RecErase(w)
  <2>1. RowsStay /\ RecordsOpen /\ batch' = batch
    BY <1>3, <1>a, <1>b, EraseEffect DEF RecErase, RowsStay, RecordsOpen, Unborn, cacheVars, EraseOK, EraseFails, EraseCur, NoEntry, PlaceTypeOK, AfterRecErase
  <2> QED
    BY <1>3, <1>a, <1>b, <2>1, OpenStep, CopyMoves DEF RecErase, AfterRecErase, KeepsOpen, Label, Unborn, Copying
<1>4. CASE RecStop(w)
  <2>1. RowsStay /\ RecordsOpen /\ batch' = batch
    BY <1>4, <1>a, <1>b DEF RecStop, RowsStay, RecordsOpen, Unborn, cacheVars, StopBox
  <2> QED
    BY <1>4, <1>a, <1>b, <2>1, OpenStep, GotoMoves DEF RecStop, StopBox, KeepsOpen, Label, Unborn, Copying
<1>5. CASE RecMark(w)
  <2>1. RowsStay /\ RecordsOpen /\ batch' = batch
    BY <1>5, <1>a, <1>b, SaveEffect DEF RecMark, RowsStay, RecordsOpen, Unborn, cacheVars
  <2> QED
    BY <1>5, <1>a, <1>b, <2>1, OpenStep, BeginMoves, SaveEffect DEF RecMark, KeepsOpen, Label, Unborn, Copying
<1>6. CASE Run(w)
  <2>1. RowsStay /\ RecordsOpen /\ batch' = batch
    BY <1>6, <1>a, <1>b DEF Run, RowsStay, RecordsOpen, Unborn, cacheVars
  <2> QED
    BY <1>6, <1>a, <1>b, <2>1, OpenStep, GotoMoves, ReturnMoves DEF Run, KeepsOpen, Label, Unborn, Copying
<1>7. CASE Create(w)
  <2>1. RowsStay /\ RecordsOpen /\ batch' = batch
    BY <1>7, <1>a, <1>b, SaveEffect DEF Create, RowsStay, RecordsOpen, Unborn, cacheVars, SaveOK, SaveRow, PlaceTypeOK
  <2> QED
    BY <1>7, <1>a, <1>b, <2>1, OpenStep, GotoMoves, ReturnMoves, SaveEffect DEF Create, SaveOK, SaveRow, PlaceTypeOK, KeepsOpen, Label, Unborn, Copying
<1>8. CASE UndoRun(w)
  <2>1. RowsStay /\ RecordsOpen /\ batch' = batch
    BY <1>8, <1>a, <1>b DEF UndoRun, RowsStay, RecordsOpen, Unborn, cacheVars, StopBox
  <2> QED
    BY <1>8, <1>a, <1>b, <2>1, OpenStep, ReturnMoves DEF UndoRun, StopBox, KeepsOpen, Label, Unborn, Copying
<1>9. CASE Put(w)
  <2>0. Running \in Record /\ Running.status \in Open
    BY DEF Running, Record, Status, Open
  <2>1. RowsStay /\ RecordsOpen /\ batch' = batch
    BY <1>9, <1>a, <1>b, <2>0, PutEffect DEF Put, RowsStay, RecordsOpen, Unborn, cacheVars, Open, PlaceTypeOK
  <2> QED
    BY <1>9, <1>a, <1>b, <2>1, OpenStep, GotoMoves, ReturnMoves DEF Put, KeepsOpen, Label, Unborn, Copying
<1>10. CASE UndoPut(w)
  <2>1. RowsStay /\ RecordsOpen /\ batch' = batch
    BY <1>10, <1>a, <1>b DEF UndoPut, RowsStay, RecordsOpen, Unborn, cacheVars, StopBox
  <2> QED
    BY <1>10, <1>a, <1>b, <2>1, OpenStep, GotoMoves DEF UndoPut, StopBox, KeepsOpen, Label, Unborn, Copying
<1>11. CASE UndoMark(w)
  <2>1. RowsStay /\ RecordsOpen /\ batch' = batch
    BY <1>11, <1>a, <1>b, SaveEffect DEF UndoMark, RowsStay, RecordsOpen, Unborn, cacheVars
  <2> QED
    BY <1>11, <1>a, <1>b, <2>1, OpenStep, ReturnMoves, SaveEffect DEF UndoMark, KeepsOpen, Label, Unborn, Copying
<1>12. CASE Find(w)
  <2>1. RowsStay /\ RecordsOpen /\ batch' = batch
    BY <1>12 DEF Find, RowsStay, RecordsOpen, cacheVars
  <2>2. AfterFind(cur[w]) \in {"unindex", "recDelete", "reusePing", "touch"}
    BY <1>12, <1>a DEF Find, AfterFind
  <2> QED
    BY <1>12, <1>a, <1>b, <2>1, <2>2, OpenStep, GotoMoves, BeginMoves DEF Find, KeepsOpen, Label, Unborn, Copying
<1>13. CASE Unindex(w)
  <2>1. RowsStay /\ RecordsOpen /\ batch' = batch
    BY <1>13 DEF Unindex, RowsStay, RecordsOpen, PlaceTypeOK, CacheTypeOK
  <2> QED
    BY <1>13, <1>a, <2>1, OpenStep, BeginMoves DEF Unindex, KeepsOpen, Label, Unborn, Copying
<1> QED
  BY <1>1, <1>2, <1>3, <1>4, <1>5, <1>6, <1>7, <1>8, <1>9, <1>10, <1>11, <1>12, <1>13 DEF StartStep

\* A step of Heartbeat, Check or GetWithPing keeps OpenInv.
LEMMA CallStepOpen ==
    ASSUME TypeInv, OpenInv, NEW w \in Worker, CallStep(w)
    PROVE  OpenInv'
<1> USE DEF TypeInv, At
<1>a. w \in Proc /\ (pc[w] # "idle" => cur[w] \in Attempt)
  BY DEF Proc, ProcTypeOK
<1>b. /\ pc[w] \notin Unborn => db[cur[w]] # "none"
      /\ pc[w] \in Copying => snap[w].status \in Open
  BY <1>a DEF OpenInv
<1>1. CASE Touch(w)
  <2>1. RowsStay /\ RecordsOpen /\ batch' = batch
    BY <1>1, <1>a, <1>b DEF Touch, RowsStay, RecordsOpen, Unborn, cacheVars, OpenInv, RecordsHaveRows, Cached, Open
  <2> QED
    BY <1>1, <1>a, <1>b, <2>1, OpenStep, CopyMoves, ReturnMoves DEF Touch, OpenInv, RecordsHaveRows, Cached, Open, KeepsOpen, Label, Unborn, Copying
<1>2. CASE TouchPut(w)
  <2>0. Touched(snap[w]) \in Record /\ Touched(snap[w]).status = snap[w].status
    BY <1>a DEF Touched, Record, ProcTypeOK
  <2>1. RowsStay /\ RecordsOpen /\ batch' = batch
    BY <1>2, <1>a, <1>b, <2>0, PutEffect DEF TouchPut, RowsStay, RecordsOpen, Unborn, cacheVars, Open, PlaceTypeOK, Copying
  <2> QED
    BY <1>2, <1>a, <1>b, <2>1, OpenStep, ReturnMoves DEF TouchPut, Copying, KeepsOpen, Label, Unborn, Copying
<1>3. CASE Judge(w)
  <2>1. RowsStay /\ RecordsOpen /\ batch' = batch
    BY <1>3, <1>a, <1>b DEF Judge, RowsStay, RecordsOpen, Unborn, cacheVars, Open
  <2> QED
    BY <1>3, <1>a, <1>b, <2>1, OpenStep, CopyMoves, ReturnMoves DEF Judge, Open, KeepsOpen, Label, Unborn, Copying
<1>4. CASE CheckMark(w)
  <2>1. RowsStay /\ RecordsOpen /\ batch' = batch
    BY <1>4, <1>a, <1>b, SaveEffect DEF CheckMark, RowsStay, RecordsOpen, Unborn, cacheVars, Copying, Open
  <2> QED
    BY <1>4, <1>a, <1>b, <2>1, OpenStep, GotoMoves, SaveEffect DEF CheckMark, Copying, Open, KeepsOpen, Label, Unborn, Copying
<1>5. CASE CheckSync(w)
  <2>1. RowsStay /\ RecordsOpen /\ batch' = batch
    BY <1>5, <1>a, <1>b DEF CheckSync, RowsStay, RecordsOpen, Unborn, cacheVars
  <2> QED
    BY <1>5, <1>a, <1>b, <2>1, OpenStep, GotoMoves, ReturnMoves DEF CheckSync, KeepsOpen, Label, Unborn, Copying
<1>6. CASE CheckPut(w)
  <2>1. RowsStay /\ RecordsOpen /\ batch' = batch
    BY <1>6, <1>a, <1>b, PutEffect DEF CheckPut, RowsStay, RecordsOpen, Unborn, cacheVars, Open, PlaceTypeOK, ProcTypeOK, Copying
  <2> QED
    BY <1>6, <1>a, <1>b, <2>1, OpenStep, ReturnMoves DEF CheckPut, ProcTypeOK, Copying, KeepsOpen, Label, Unborn, Copying
<1>7. CASE ProbePing(w)
  <2>1. RowsStay /\ RecordsOpen /\ batch' = batch
    BY <1>7, <1>a, <1>b DEF ProbePing, RowsStay, RecordsOpen, Unborn, cacheVars
  <2> QED
    BY <1>7, <1>a, <1>b, <2>1, OpenStep, GotoMoves, ReturnMoves DEF ProbePing, KeepsOpen, Label, Unborn, Copying
<1>8. CASE HealDelete(w)
  <2>1. RowsStay /\ RecordsOpen /\ batch' = batch
    BY <1>8, <1>a, <1>b DEF HealDelete, RowsStay, RecordsOpen, Unborn, cacheVars, DeleteGet, DeleteGetFails
  <2> QED
    BY <1>8, <1>a, <1>b, <2>1, OpenStep, GotoMoves, CopyMoves DEF HealDelete, DeleteGet, DeleteGetFails, cacheVars, KeepsOpen, Label, Unborn, Copying
<1>9. CASE HealErase(w)
  <2>1. RowsStay /\ RecordsOpen /\ batch' = batch
    BY <1>9, <1>a, <1>b, EraseEffect DEF HealErase, RowsStay, RecordsOpen, Unborn, cacheVars, EraseOK, EraseFails, EraseCur, NoEntry, PlaceTypeOK
  <2> QED
    BY <1>9, <1>a, <1>b, <2>1, OpenStep, CopyMoves DEF HealErase, KeepsOpen, Label, Unborn, Copying
<1>10. CASE HealMark(w)
  <2>1. RowsStay /\ RecordsOpen /\ batch' = batch
    BY <1>10, <1>a, <1>b, SaveEffect DEF HealMark, RowsStay, RecordsOpen, Unborn, cacheVars
  <2> QED
    BY <1>10, <1>a, <1>b, <2>1, OpenStep, ReturnMoves, SaveEffect DEF HealMark, KeepsOpen, Label, Unborn, Copying
<1> QED
  BY <1>1, <1>2, <1>3, <1>4, <1>5, <1>6, <1>7, <1>8, <1>9, <1>10 DEF CallStep

\* A step of Terminate keeps OpenInv.
LEMMA TermStepOpen ==
    ASSUME TypeInv, OpenInv, NEW p \in Proc, TermStep(p)
    PROVE  OpenInv'
<1> USE DEF TypeInv, At
<1>a. p \in Proc /\ (pc[p] # "idle" => cur[p] \in Attempt)
  BY DEF Proc, ProcTypeOK
<1>b. /\ pc[p] \notin Unborn => db[cur[p]] # "none"
      /\ pc[p] \in Copying => snap[p].status \in Open
  BY <1>a DEF OpenInv
<1>1. CASE Terminate(p)
  <2>1. RowsStay /\ RecordsOpen /\ batch' = batch
    BY <1>1, <1>a, <1>b DEF Terminate, RowsStay, RecordsOpen, Unborn, cacheVars
  <2> QED
    BY <1>1, <1>a, <1>b, <2>1, OpenStep, GotoMoves, ReturnMoves DEF Terminate, KeepsOpen, Label, Unborn, Copying
<1>2. CASE TermStop(p)
  <2>1. RowsStay /\ RecordsOpen /\ batch' = batch
    BY <1>2, <1>a, <1>b DEF TermStop, RowsStay, RecordsOpen, Unborn, cacheVars, StopBox
  <2> QED
    BY <1>2, <1>a, <1>b, <2>1, OpenStep, GotoMoves DEF TermStop, StopBox, KeepsOpen, Label, Unborn, Copying
<1>3. CASE TermMark(p)
  <2>1. RowsStay /\ RecordsOpen /\ batch' = batch
    BY <1>3, <1>a, <1>b, SaveEffect DEF TermMark, RowsStay, RecordsOpen, Unborn, cacheVars
  <2> QED
    BY <1>3, <1>a, <1>b, <2>1, OpenStep, GotoMoves, ReturnMoves, SaveEffect DEF TermMark, KeepsOpen, Label, Unborn, Copying
<1>4. CASE TermDelete(p)
  <2>1. RowsStay /\ RecordsOpen /\ batch' = batch
    BY <1>4, <1>a, <1>b DEF TermDelete, RowsStay, RecordsOpen, Unborn, cacheVars, DeleteGet, DeleteGetFails
  <2> QED
    BY <1>4, <1>a, <1>b, <2>1, OpenStep, CopyMoves, ReturnMoves DEF TermDelete, DeleteGet, DeleteGetFails, cacheVars, KeepsOpen, Label, Unborn, Copying
<1>5. CASE TermErase(p)
  <2>1. RowsStay /\ RecordsOpen /\ batch' = batch
    BY <1>5, <1>a, <1>b, EraseEffect DEF TermErase, RowsStay, RecordsOpen, Unborn, cacheVars, EraseOK, EraseFails, EraseCur, NoEntry, PlaceTypeOK
  <2> QED
    BY <1>5, <1>a, <1>b, <2>1, OpenStep, ReturnMoves DEF TermErase, KeepsOpen, Label, Unborn, Copying
<1> QED
  BY <1>1, <1>2, <1>3, <1>4, <1>5 DEF TermStep

\* The first round trip of a request keeps OpenInv.
LEMMA RequestOpen ==
    ASSUME TypeInv, OpenInv, NEW w \in Worker, Request(w)
    PROVE  OpenInv'
<1> USE DEF TypeInv
<1> PICK id \in Attempt : \/ Start(w, id) \/ Heartbeat(w, id) \/ Check(w, id)
                         \/ Probe(w, id) \/ GiveUp(w, id)
  BY DEF Request
<1>a. w \in Proc
  BY DEF Proc
<1>b. \A i \in Attempt : Cached(i) => db[i] # "none"
  BY DEF OpenInv, RecordsHaveRows
<1>c. ASSUME NEW label \in {"touch", "judge", "probe", "terminate"}, Take(w, id, label),
             db[id] # "none", UNCHANGED <<cacheVars, db, batch>>
      PROVE  OpenInv'
  <2>1. Moves(w, label, id, snap[w], fresh[w])
    BY <1>a, <1>c, TakeMoves
  <2>2. RowsStay /\ RecordsOpen /\ batch' = batch
    BY <1>c DEF RowsStay, RecordsOpen, cacheVars
  <2> QED
    BY <1>a, <1>c, <2>1, <2>2, OpenStep DEF KeepsOpen, Label, Unborn, Copying
<1>1. CASE Start(w, id)
  <2> DEFINE old == owner[OwnerOf[id]]
  <2>1. RowsStay /\ RecordsOpen /\ batch' = batch
    BY <1>1 DEF Start, RowsStay, RecordsOpen, cacheVars
  <2>2. CASE Begin(w, id)
    BY <1>a, <2>1, <2>2, BeginMoves, OpenStep DEF KeepsOpen, Label, Unborn, Copying
  <2>3. CASE /\ old # NoAttempt
             /\ cur' = [cur EXCEPT ![w] = old]
             /\ fresh' = [fresh EXCEPT ![w] = id]
             /\ snap' = snap
             /\ pc' = [pc EXCEPT ![w] = "find"]
    <3>1. db'[old] # "none"
      BY <1>1, <2>3, OwnerOfAssumption DEF Start, OpenInv
    <3>2. Moves(w, "find", old, snap[w], id)
      BY <1>a, <2>3 DEF Moves, ProcTypeOK
    <3> QED
      BY <1>a, <2>1, <3>1, <3>2, OpenStep DEF KeepsOpen, Label, Unborn, Copying
  <2> QED
    BY <1>1, <2>2, <2>3 DEF Start
<1>2. CASE Heartbeat(w, id)
  BY <1>2, <1>b, <1>c DEF Heartbeat, GetYields
<1>3. CASE Check(w, id)
  BY <1>3, <1>b, <1>c DEF Check, GetYields
<1>4. CASE Probe(w, id)
  BY <1>4, <1>b, <1>c DEF Probe, GetYields
<1>5. CASE GiveUp(w, id)
  BY <1>5, <1>c DEF GiveUp
<1> QED
  BY <1>1, <1>2, <1>3, <1>4, <1>5

\* A step of the collector keeps OpenInv.
LEMMA GCStepOpen ==
    ASSUME TypeInv, OpenInv, GCStep
    PROVE  OpenInv'
<1> USE DEF TypeInv, At
<1>a. GC \in Proc /\ (pc[GC] # "idle" => cur[GC] \in Attempt)
  BY DEF Proc, ProcTypeOK
<1>b. /\ pc[GC] \notin Unborn => db[cur[GC]] # "none"
      /\ pc[GC] \in Copying => snap[GC].status \in Open
  BY <1>a DEF OpenInv
<1>1. CASE StaleGet
  <2>1. RowsStay /\ RecordsOpen /\ batch' = batch
    BY <1>1, <1>a, <1>b DEF StaleGet, RowsStay, RecordsOpen, Unborn, cacheVars
  <2> QED
    BY <1>1, <1>a, <1>b, <2>1, OpenStep, GotoMoves, ReturnMoves DEF StaleGet, KeepsOpen, Label, Unborn, Copying
<1>2. CASE StaleDelete
  <2>1. RowsStay /\ RecordsOpen /\ batch' = batch
    BY <1>2, <1>a, <1>b DEF StaleDelete, RowsStay, RecordsOpen, Unborn, cacheVars, DeleteGet, DeleteGetFails
  <2> QED
    BY <1>2, <1>a, <1>b, <2>1, OpenStep, CopyMoves, ReturnMoves DEF StaleDelete, DeleteGet, DeleteGetFails, cacheVars, KeepsOpen, Label, Unborn, Copying
<1>3. CASE StaleErase
  <2>1. RowsStay /\ RecordsOpen /\ batch' = batch
    BY <1>3, <1>a, <1>b, EraseEffect DEF StaleErase, RowsStay, RecordsOpen, Unborn, cacheVars, EraseOK, EraseFails, EraseCur, NoEntry, PlaceTypeOK
  <2> QED
    BY <1>3, <1>a, <1>b, <2>1, OpenStep, CopyMoves, ReturnMoves DEF StaleErase, KeepsOpen, Label, Unborn, Copying
<1>4. CASE StaleMark
  <2>1. RowsStay /\ RecordsOpen /\ batch' = batch
    BY <1>4, <1>a, <1>b, SaveEffect DEF StaleMark, RowsStay, RecordsOpen, Unborn, cacheVars
  <2> QED
    BY <1>4, <1>a, <1>b, <2>1, OpenStep, ReturnMoves, SaveEffect DEF StaleMark, KeepsOpen, Label, Unborn, Copying
<1>5. CASE CleanupPassed
  <2>1. RowsStay /\ RecordsOpen /\ batch' = batch
    BY <1>5, <1>a, <1>b DEF CleanupPassed, RowsStay, RecordsOpen, Unborn, cacheVars
  <2> QED
    BY <1>5, <1>a, <1>b, <2>1, OpenStep, GotoMoves, ReturnMoves DEF CleanupPassed, KeepsOpen, Label, Unborn, Copying
<1>6. CASE CleanStop
  <2>1. RowsStay /\ RecordsOpen /\ batch' = batch
    BY <1>6, <1>a, <1>b DEF CleanStop, RowsStay, RecordsOpen, Unborn, cacheVars, StopBox
  <2> QED
    BY <1>6, <1>a, <1>b, <2>1, OpenStep, GotoMoves DEF CleanStop, StopBox, KeepsOpen, Label, Unborn, Copying
<1>7. CASE CleanDelete
  <2>1. RowsStay /\ RecordsOpen /\ batch' = batch
    BY <1>7, <1>a, <1>b DEF CleanDelete, RowsStay, RecordsOpen, Unborn, cacheVars, DeleteGet, DeleteGetFails
  <2> QED
    BY <1>7, <1>a, <1>b, <2>1, OpenStep, CopyMoves, ReturnMoves DEF CleanDelete, DeleteGet, DeleteGetFails, cacheVars, KeepsOpen, Label, Unborn, Copying
<1>8. CASE CleanErase
  <2>1. RowsStay /\ RecordsOpen /\ batch' = batch
    BY <1>8, <1>a, <1>b, EraseEffect DEF CleanErase, RowsStay, RecordsOpen, Unborn, cacheVars, EraseOK, EraseFails, EraseCur, NoEntry, PlaceTypeOK
  <2> QED
    BY <1>8, <1>a, <1>b, <2>1, OpenStep, ReturnMoves DEF CleanErase, KeepsOpen, Label, Unborn, Copying
<1>9. CASE Tick
  <2>1. \A id \in Attempt : batch'[id].status # "none" => db[id] # "none"
    BY <1>9 DEF Tick, OpenInv, NoEntry
  <2> QED
    BY <1>9, <2>1 DEF Tick, OpenInv, RecordsHaveRows, Cached, procVars, cacheVars
<1>12. CASE ReadListed
  <2>1. \A id \in Attempt : batch'[id].status # "none" => db[id] # "none"
    BY <1>12 DEF ReadListed, OpenInv, NoEntry, Listed
  <2> QED
    BY <1>12, <2>1 DEF ReadListed, OpenInv, RecordsHaveRows, Cached, procVars, cacheVars
<1>13. CASE \E id \in Attempt : Prune(id)
  <2>1. \A id \in Attempt : batch'[id].status # "none" => db[id] # "none"
    BY <1>13 DEF Prune, OpenInv, NoEntry, PlaceTypeOK
  <2> QED
    BY <1>13, <2>1 DEF Prune, OpenInv, RecordsHaveRows, Cached, procVars
<1>10. CASE \E id \in Attempt : Visit(id)
  <2> PICK id \in Attempt : Visit(id)
    BY <1>10
  <2>1. db[id] # "none" /\ pc[GC] = "idle"
    BY DEF Visit, Unvisited, OpenInv
  <2>2. \A i \in Attempt : batch'[i].status # "none" => db[i] # "none"
    BY DEF Visit, OpenInv, NoEntry, PlaceTypeOK
  <2>3. UNCHANGED <<db, active, owner>> /\ RecordsHaveRows'
    BY DEF Visit, OpenInv, RecordsHaveRows, Cached, cacheVars
  <2>4. CASE UNCHANGED procVars
    BY <2>2, <2>3, <2>4 DEF OpenInv, procVars
  <2>5. CASE \E label \in {"staleGet", "terminate", "cleanup"} : Take(GC, id, label)
    <3> PICK label \in {"staleGet", "terminate", "cleanup"} : Take(GC, id, label)
      BY <2>5
    <3>1. Moves(GC, label, id, snap[GC], fresh[GC])
      BY <1>a, TakeMoves
    <3>2. \A p \in Proc : pc'[p] \notin Unborn => db'[cur'[p]] # "none"
      BY <2>1, <2>3, <3>1 DEF Moves, OpenInv
    <3>3. \A p \in Proc : pc'[p] \in Copying => snap'[p].status \in Open
      BY <3>1 DEF Moves, OpenInv, Copying
    <3> QED
      BY <2>2, <2>3, <3>2, <3>3 DEF OpenInv
  <2> QED
    BY <2>4, <2>5 DEF Visit
<1>11. CASE TermStep(GC)
  BY <1>11, <1>a, TermStepOpen
<1> QED
  BY <1>1, <1>2, <1>3, <1>4, <1>5, <1>6, <1>7, <1>8, <1>9, <1>10, <1>11, <1>12, <1>13 DEF GCStep

\* Time, faults, a crash and the startup Reconcile keep OpenInv.
LEMMA EnvironmentOpen ==
    ASSUME TypeInv, OpenInv, Environment
    PROVE  OpenInv'
<1> USE DEF TypeInv, OpenInv, RecordsHaveRows, Cached
<1>1. ASSUME NEW id \in Attempt, Age(id)
      PROVE  OpenInv'
  <2>1. \A i \in Attempt : main'[i].status = main[i].status
    BY <1>1 DEF Age, PlaceTypeOK, CacheTypeOK, Record
  <2> QED
    BY <1>1, <2>1 DEF Age, procVars
<1>2. ASSUME NEW id \in Attempt, Kill(id)
      PROVE  OpenInv'
  BY <1>2 DEF Kill, procVars, cacheVars
<1>3. ASSUME NEW id \in Attempt, Expire(id)
      PROVE  OpenInv'
  <2>1. \A i \in Attempt : main'[i] \in {main[i], NoEntry}
    BY <1>3 DEF Expire, PlaceTypeOK, CacheTypeOK
  <2>2. \A o \in Owner : owner'[o] \in {owner[o], NoAttempt}
    BY <1>3, OwnerOfAssumption DEF Expire, PlaceTypeOK, CacheTypeOK
  <2> QED
    BY <1>3, <2>1, <2>2 DEF Expire, procVars, NoEntry
<1>4. CASE Crash
  BY <1>4 DEF Crash, cacheVars, NoEntry, Unborn, Copying
<1>5. CASE Reconcile
  BY <1>5 DEF Reconcile, procVars, cacheVars
<1> QED
  BY <1>1, <1>2, <1>3, <1>4, <1>5 DEF Environment

\* A step that keeps the variables' types keeps OpenInv.
LEMMA OpenInductive == TypeInv /\ OpenInv /\ [Next]_vars => OpenInv'
<1> SUFFICES ASSUME TypeInv, OpenInv, [Next]_vars
             PROVE  OpenInv'
  OBVIOUS
<1>1. CASE \E w \in Worker : Request(w) \/ WorkerStep(w)
  BY <1>1, RequestOpen, StartStepOpen, CallStepOpen, TermStepOpen DEF WorkerStep, Proc
<1>2. CASE GCStep
  BY <1>2, GCStepOpen
<1>3. CASE Environment
  BY <1>3, EnvironmentOpen
<1>4. CASE UNCHANGED vars
  BY <1>4 DEF vars, procVars, OpenInv, RecordsHaveRows, Cached
<1> QED
  BY <1>1, <1>2, <1>3, <1>4 DEF Next

LEMMA OpenInit == Init => OpenInv
BY DEF Init, CacheInit, OpenInv, RecordsHaveRows, Cached, NoEntry, Unborn, Copying

-----------------------------------------------------------------------------
(***************************************************************************)
(* What is gone stays gone, for any number of attempts, owners and         *)
(* handlers and for any set of faults.                                     *)
(***************************************************************************)

\* A Start whose row may not exist yet.
Starting == {"run", "create"}

\* The next round trip is a Put.
Putting == {"put", "touchPut", "checkPut"}

\* Nobody but p has attempt id.
Own(p, id) == \A q \in Proc : q # p => cur[q] # id /\ fresh[q] # id

(***************************************************************************)
(* The row a Start is to create does not exist, and nobody else has the    *)
(* attempt; so it is with an identifier kept for later.  Without it the    *)
(* Put of a Start could be of an attempt that has been and gone.           *)
(***************************************************************************)
NewInv ==
    /\ \A p \in Proc : pc[p] \in Starting => db[cur[p]] = "none" /\ Own(p, cur[p])
    /\ \A p \in Proc : fresh[p] \in Attempt =>
          db[fresh[p]] = "none" /\ Own(p, fresh[p]) /\ cur[p] # fresh[p]

\* A step of p writes the row of its attempt and no other, and brings a record
\* back only with the Put it came to do.
OwnWrites(p) ==
    /\ RowsStay
    /\ \A i \in Attempt : i # cur[p] => db'[i] = db[i]
    /\ \A i \in Attempt : Cached(i)' => Cached(i) \/ (i = cur[p] /\ pc[p] \in Putting)

\* p comes to a Put with a record it found or a row it made only.
FairPut(p, label) ==
    label \in Putting => Cached(cur[p]) \/ pc[p] \in Putting \cup {"create"}

(***************************************************************************)
(* A step of p alone: it takes in hand an attempt with a row, or one that  *)
(* nobody has.                                                             *)
(***************************************************************************)
Alone(p) ==
    /\ \A q \in Proc : q # p => /\ pc'[q] = pc[q]
                               /\ cur'[q] = cur[q]
                               /\ fresh'[q] = fresh[q]
    /\ OwnWrites(p)
    /\ pc'[p] \in Putting => cur'[p] = cur[p]
    /\ FairPut(p, pc'[p])
    /\ \/ cur'[p] \in {cur[p], NoAttempt}
       \/ db[cur'[p]] # "none"
       \/ Own(p, cur'[p])
    /\ pc'[p] \in Starting => db'[cur'[p]] = "none" /\ Own(p, cur'[p])
    /\ fresh'[p] \in Attempt =>
          db'[fresh'[p]] = "none" /\ Own(p, fresh'[p]) /\ cur'[p] # fresh'[p]

\* No record comes out of nothing.
LEMMA AloneKeepsNew ==
    ASSUME TypeInv, NewInv, NEW p \in Proc, Alone(p)
    PROVE  NewInv'
<1> USE DEF TypeInv, ProcTypeOK
<1>1. \A q \in Proc : pc'[q] \in Starting =>
          /\ db'[cur'[q]] = "none"
          /\ \A r \in Proc : r # q => cur'[r] # cur'[q] /\ fresh'[r] # cur'[q]
  <2> SUFFICES ASSUME NEW q \in Proc, pc'[q] \in Starting
               PROVE  /\ db'[cur'[q]] = "none"
                      /\ \A r \in Proc : r # q => cur'[r] # cur'[q] /\ fresh'[r] # cur'[q]
    OBVIOUS
  <2>1. CASE q = p
    BY <2>1 DEF Alone, OwnWrites, FairPut, Own
  <2>2. CASE q # p
    <3>1. /\ cur'[q] = cur[q] /\ cur[q] \in Attempt /\ db[cur[q]] = "none"
          /\ \A r \in Proc : r # q => cur[r] # cur[q] /\ fresh[r] # cur[q]
      BY <2>2 DEF Alone, OwnWrites, FairPut, NewInv, Own, Starting
    <3>2. cur'[p] # cur[q]
      BY <2>2, <3>1, NoAttemptAssumption DEF Alone, OwnWrites, FairPut, Own
    <3>3. fresh'[p] # cur[q]
      BY <2>2, <3>1 DEF Alone, OwnWrites, FairPut, Own
    <3> QED
      BY <2>2, <3>1, <3>2, <3>3 DEF Alone, OwnWrites, FairPut
  <2> QED
    BY <2>1, <2>2
<1>2. \A q \in Proc : fresh'[q] \in Attempt =>
          /\ db'[fresh'[q]] = "none" /\ cur'[q] # fresh'[q]
          /\ \A r \in Proc : r # q => cur'[r] # fresh'[q] /\ fresh'[r] # fresh'[q]
  <2> SUFFICES ASSUME NEW q \in Proc, fresh'[q] \in Attempt
               PROVE  /\ db'[fresh'[q]] = "none" /\ cur'[q] # fresh'[q]
                      /\ \A r \in Proc : r # q => cur'[r] # fresh'[q] /\ fresh'[r] # fresh'[q]
    OBVIOUS
  <2>1. CASE q = p
    BY <2>1 DEF Alone, OwnWrites, FairPut, Own
  <2>2. CASE q # p
    <3>1. /\ fresh'[q] = fresh[q] /\ cur'[q] = cur[q]
          /\ db[fresh[q]] = "none" /\ cur[q] # fresh[q]
          /\ \A r \in Proc : r # q => cur[r] # fresh[q] /\ fresh[r] # fresh[q]
      BY <2>2 DEF Alone, OwnWrites, FairPut, NewInv, Own
    <3>2. cur'[p] # fresh[q]
      BY <2>2, <3>1, NoAttemptAssumption DEF Alone, OwnWrites, FairPut, Own
    <3>3. fresh'[p] # fresh[q]
      BY <2>2, <3>1 DEF Alone, OwnWrites, FairPut, Own
    <3> QED
      BY <2>2, <3>1, <3>2, <3>3 DEF Alone, OwnWrites, FairPut
  <2> QED
    BY <2>1, <2>2
<1> QED
  BY <1>1, <1>2 DEF NewInv, Own

\* Such a step brings nothing back.
LEMMA AloneKeepsGone ==
    ASSUME TypeInv, NewInv, NEW p \in Proc, Alone(p), NEW id \in Attempt, Gone(id)
    PROVE  Gone(id)'
<1>1. cur[p] = id => pc[p] \notin Putting \cup {"create"}
  BY DEF Gone, NewInv, Starting, Putting
<1>2. ~Cached(id)'
  BY <1>1 DEF Alone, OwnWrites, FairPut, Gone
<1>3. \A q \in Proc : cur'[q] = id => pc'[q] \notin Putting
  BY <1>1 DEF Alone, OwnWrites, FairPut, Gone, Putting
<1> QED
  BY <1>2, <1>3 DEF Gone, Alone, OwnWrites, RowsStay, Putting

-----------------------------------------------------------------------------
\* A step of p that keeps its attempt, or lets go of it.
LEMMA StaysAlone ==
    ASSUME TypeInv, NewInv, NEW p \in Proc, OwnWrites(p),
           NEW label \in Label, NEW id \in {cur[p], NoAttempt}, NEW rec,
           NEW new \in {fresh[p], NoAttempt}, Moves(p, label, id, rec, new),
           label \notin Starting, FairPut(p, label),
           label \in Putting => id = cur[p]
    PROVE  Alone(p)
<1>1. new \in Attempt => db'[new] = "none" /\ Own(p, new) /\ id # new
  BY NoAttemptAssumption DEF NewInv, OwnWrites
<1> QED
  BY <1>1 DEF Alone, Moves, Starting, OwnWrites

\* A step that leaves the rows and the calls in progress alone.
LEMMA IdleAlone ==
    ASSUME TypeInv, NewInv, NEW p \in Proc, OwnWrites(p), UNCHANGED <<db, procVars>>
    PROVE  Alone(p)
BY DEF Alone, procVars, NewInv, FairPut, Own

\* A Start that goes on to make the attempt it kept an identifier for.
LEMMA BeginsAlone ==
    ASSUME TypeInv, NEW p \in Proc, OwnWrites(p), NEW id \in Attempt, Begin(p, id),
           db'[id] = "none", Own(p, id)
    PROVE  Alone(p)
<1>1. Moves(p, IF IsSandbox(id) THEN "run" ELSE "create", id, snap[p], NoAttempt)
  BY BeginMoves DEF TypeInv
<1> QED
  BY <1>1, NoAttemptAssumption DEF Alone, Moves, Starting, Putting, FairPut

\* A Start in progress.
LEMMA StartAlone ==
    ASSUME TypeInv, OpenInv, NewInv, NEW w \in Worker, StartStep(w)
    PROVE  Alone(w)
<1> USE DEF TypeInv, At
<1>a. w \in Proc /\ (pc[w] # "idle" => cur[w] \in Attempt) /\ snap[w] \in Record
  BY DEF Proc, ProcTypeOK
<1>b. /\ pc[w] \notin Unborn => db[cur[w]] # "none"
      /\ pc[w] \in Copying => snap[w].status \in Open
  BY <1>a DEF OpenInv
<1>1. CASE ReusePing(w)
  <2>1. OwnWrites(w)
    BY <1>1, <1>a, <1>b DEF ReusePing, OwnWrites, RowsStay, Cached, cacheVars
  <2> QED
    BY <1>1, <1>a, <2>1, StaysAlone, GotoMoves DEF ReusePing, Label, Starting, Putting, FairPut
<1>2. CASE RecDelete(w)
  <2>1. OwnWrites(w)
    BY <1>2, <1>a, <1>b DEF RecDelete, OwnWrites, RowsStay, Cached, cacheVars, AfterRecErase, DeleteGet, DeleteGetFails
  <2> QED
    BY <1>2, <1>a, <2>1, StaysAlone, GotoMoves, CopyMoves DEF RecDelete, Label, Starting, Putting, FairPut, AfterRecErase, DeleteGet, DeleteGetFails, cacheVars
<1>3. CASE RecErase(w)
  <2>1. OwnWrites(w)
    BY <1>3, <1>a, <1>b, EraseEffect DEF RecErase, OwnWrites, RowsStay, Cached, EraseOK, EraseFails, EraseCur, NoEntry, PlaceTypeOK, AfterRecErase
  <2> QED
    BY <1>3, <1>a, <2>1, StaysAlone, CopyMoves DEF RecErase, Label, Starting, Putting, FairPut, AfterRecErase
<1>4. CASE RecStop(w)
  <2>1. OwnWrites(w)
    BY <1>4, <1>a, <1>b DEF RecStop, OwnWrites, RowsStay, Cached, cacheVars, StopBox
  <2> QED
    BY <1>4, <1>a, <2>1, StaysAlone, GotoMoves DEF RecStop, Label, Starting, Putting, FairPut, StopBox
<1>5. CASE RecMark(w)
  <2>1. OwnWrites(w)
    BY <1>5, <1>a, <1>b, SaveEffect DEF RecMark, OwnWrites, RowsStay, Cached, cacheVars, PlaceTypeOK, Unborn
  <2>2. fresh[w] \in Attempt /\ db'[fresh[w]] = "none" /\ Own(w, fresh[w])
    BY <1>5, <1>a, <2>1 DEF RecMark, ProcTypeOK, Replacing, NewInv, OwnWrites
  <2> QED
    BY <1>5, <1>a, <2>1, <2>2, BeginsAlone DEF RecMark
<1>6. CASE Run(w)
  <2>1. OwnWrites(w)
    BY <1>6, <1>a DEF Run, OwnWrites, RowsStay, Cached, cacheVars
  <2> QED
    <3>1. CASE Goto(w, "create")
      <4>1. Moves(w, "create", cur[w], snap[w], fresh[w])
        BY <1>a, <3>1, GotoMoves
      <4>2. db' = db /\ pc[w] \in Starting
        BY <1>6 DEF Run, Starting
      <4> QED
        BY <1>a, <2>1, <4>1, <4>2 DEF Alone, Moves, NewInv, Starting, Putting, FairPut
    <3>2. CASE Return(w)
      BY <1>a, <2>1, <3>2, StaysAlone, ReturnMoves DEF Label, Starting, Putting, FairPut
    <3> QED
      BY <1>6, <3>1, <3>2 DEF Run
<1>7. CASE Create(w)
  <2>1. OwnWrites(w)
    BY <1>7, <1>a, <1>b, SaveEffect DEF Create, OwnWrites, RowsStay, Cached, cacheVars, PlaceTypeOK, Unborn, Copying, Open, SaveOK, SaveRow
  <2> QED
    BY <1>7, <1>a, <2>1, StaysAlone, GotoMoves, ReturnMoves DEF Create, Label, Starting, Putting, FairPut, SaveOK, SaveRow, PlaceTypeOK
<1>8. CASE UndoRun(w)
  <2>1. OwnWrites(w)
    BY <1>8, <1>a, <1>b DEF UndoRun, OwnWrites, RowsStay, Cached, cacheVars, StopBox
  <2> QED
    BY <1>8, <1>a, <2>1, StaysAlone, ReturnMoves DEF UndoRun, Label, Starting, Putting, FairPut, StopBox
<1>9. CASE Put(w)
  <2>0. Running \in Record
    BY DEF Running, Record, Status
  <2>1. OwnWrites(w)
    BY <1>9, <1>a, <2>0, PutEffect DEF Put, OwnWrites, RowsStay, Cached, Putting, PlaceTypeOK
  <2> QED
    BY <1>9, <1>a, <2>1, StaysAlone, GotoMoves, ReturnMoves DEF Put, Label, Starting, Putting, FairPut
<1>10. CASE UndoPut(w)
  <2>1. OwnWrites(w)
    BY <1>10, <1>a, <1>b DEF UndoPut, OwnWrites, RowsStay, Cached, cacheVars, StopBox
  <2> QED
    BY <1>10, <1>a, <2>1, StaysAlone, GotoMoves DEF UndoPut, Label, Starting, Putting, FairPut, StopBox
<1>11. CASE UndoMark(w)
  <2>1. OwnWrites(w)
    BY <1>11, <1>a, <1>b, SaveEffect DEF UndoMark, OwnWrites, RowsStay, Cached, cacheVars, PlaceTypeOK, Unborn, Copying, Open
  <2> QED
    BY <1>11, <1>a, <2>1, StaysAlone, ReturnMoves DEF UndoMark, Label, Starting, Putting, FairPut
<1>12. CASE Find(w)
  <2>1. OwnWrites(w)
    BY <1>12 DEF Find, OwnWrites, RowsStay, Cached, cacheVars
  <2>2. fresh[w] \in Attempt /\ db'[fresh[w]] = "none" /\ Own(w, fresh[w])
    BY <1>12, <1>a DEF Find, ProcTypeOK, Replacing, NewInv
  <2>3. AfterFind(cur[w]) \in {"unindex", "recDelete", "reusePing", "touch"}
    BY <1>12, <1>a DEF Find, AfterFind
  <2> QED
    BY <1>12, <1>a, <2>1, <2>2, <2>3, BeginsAlone, StaysAlone, GotoMoves DEF Find, Label, Starting, Putting, FairPut
<1>13. CASE Unindex(w)
  <2>1. OwnWrites(w)
    BY <1>13 DEF Unindex, OwnWrites, RowsStay, Cached
  <2>2. fresh[w] \in Attempt /\ db'[fresh[w]] = "none" /\ Own(w, fresh[w])
    BY <1>13, <1>a DEF Unindex, ProcTypeOK, Replacing, NewInv
  <2> QED
    BY <1>13, <1>a, <2>1, <2>2, BeginsAlone DEF Unindex
<1> QED
  BY <1>1, <1>2, <1>3, <1>4, <1>5, <1>6, <1>7, <1>8, <1>9, <1>10, <1>11, <1>12, <1>13 DEF StartStep

\* Heartbeat, Check or GetWithPing.
LEMMA CallAlone ==
    ASSUME TypeInv, OpenInv, NewInv, NEW w \in Worker, CallStep(w)
    PROVE  Alone(w)
<1> USE DEF TypeInv, At
<1>a. w \in Proc /\ (pc[w] # "idle" => cur[w] \in Attempt) /\ snap[w] \in Record
  BY DEF Proc, ProcTypeOK
<1>b. /\ pc[w] \notin Unborn => db[cur[w]] # "none"
      /\ pc[w] \in Copying => snap[w].status \in Open
  BY <1>a DEF OpenInv
<1>1. CASE Touch(w)
  <2>1. OwnWrites(w)
    BY <1>1, <1>a, <1>b DEF Touch, OwnWrites, RowsStay, Cached, cacheVars
  <2> QED
    BY <1>1, <1>a, <2>1, StaysAlone, CopyMoves, ReturnMoves DEF Touch, Label, Starting, Putting, FairPut
<1>2. CASE TouchPut(w)
  <2>0. Touched(snap[w]) \in Record
    BY <1>a DEF Touched, Record
  <2>1. OwnWrites(w)
    BY <1>2, <1>a, <2>0, PutEffect DEF TouchPut, OwnWrites, RowsStay, Cached, Putting, PlaceTypeOK
  <2> QED
    BY <1>2, <1>a, <2>1, StaysAlone, ReturnMoves DEF TouchPut, Label, Starting, Putting, FairPut, Touched, Record
<1>3. CASE Judge(w)
  <2>1. OwnWrites(w)
    BY <1>3, <1>a, <1>b DEF Judge, OwnWrites, RowsStay, Cached, cacheVars
  <2> QED
    BY <1>3, <1>a, <2>1, StaysAlone, CopyMoves, ReturnMoves DEF Judge, Label, Starting, Putting, FairPut
<1>4. CASE CheckMark(w)
  <2>1. OwnWrites(w)
    BY <1>4, <1>a, <1>b, SaveEffect DEF CheckMark, OwnWrites, RowsStay, Cached, cacheVars, PlaceTypeOK, Unborn, Copying, Open
  <2> QED
    BY <1>4, <1>a, <2>1, StaysAlone, GotoMoves DEF CheckMark, Label, Starting, Putting, FairPut
<1>5. CASE CheckSync(w)
  <2>1. OwnWrites(w)
    BY <1>5, <1>a, <1>b DEF CheckSync, OwnWrites, RowsStay, Cached, cacheVars
  <2> QED
    BY <1>5, <1>a, <2>1, StaysAlone, GotoMoves, ReturnMoves DEF CheckSync, Label, Starting, Putting, FairPut
<1>6. CASE CheckPut(w)
  <2>1. OwnWrites(w)
    BY <1>6, <1>a, <1>b, PutEffect DEF CheckPut, OwnWrites, RowsStay, Cached, Putting, PlaceTypeOK
  <2> QED
    BY <1>6, <1>a, <2>1, StaysAlone, ReturnMoves DEF CheckPut, Label, Starting, Putting, FairPut
<1>7. CASE ProbePing(w)
  <2>1. OwnWrites(w)
    BY <1>7, <1>a, <1>b DEF ProbePing, OwnWrites, RowsStay, Cached, cacheVars
  <2> QED
    BY <1>7, <1>a, <2>1, StaysAlone, GotoMoves, ReturnMoves DEF ProbePing, Label, Starting, Putting, FairPut
<1>8. CASE HealDelete(w)
  <2>1. OwnWrites(w)
    BY <1>8, <1>a, <1>b DEF HealDelete, OwnWrites, RowsStay, Cached, cacheVars, DeleteGet, DeleteGetFails
  <2> QED
    BY <1>8, <1>a, <2>1, StaysAlone, GotoMoves, CopyMoves DEF HealDelete, Label, Starting, Putting, FairPut, DeleteGet, DeleteGetFails, cacheVars
<1>9. CASE HealErase(w)
  <2>1. OwnWrites(w)
    BY <1>9, <1>a, <1>b, EraseEffect DEF HealErase, OwnWrites, RowsStay, Cached, EraseOK, EraseFails, EraseCur, NoEntry, PlaceTypeOK
  <2> QED
    BY <1>9, <1>a, <2>1, StaysAlone, CopyMoves DEF HealErase, Label, Starting, Putting, FairPut
<1>10. CASE HealMark(w)
  <2>1. OwnWrites(w)
    BY <1>10, <1>a, <1>b, SaveEffect DEF HealMark, OwnWrites, RowsStay, Cached, cacheVars, PlaceTypeOK, Unborn, Copying, Open
  <2> QED
    BY <1>10, <1>a, <2>1, StaysAlone, ReturnMoves DEF HealMark, Label, Starting, Putting, FairPut
<1> QED
  BY <1>1, <1>2, <1>3, <1>4, <1>5, <1>6, <1>7, <1>8, <1>9, <1>10 DEF CallStep

\* Terminate.
LEMMA TermAlone ==
    ASSUME TypeInv, OpenInv, NewInv, NEW p \in Proc, TermStep(p)
    PROVE  Alone(p)
<1> USE DEF TypeInv, At
<1>a. p \in Proc /\ (pc[p] # "idle" => cur[p] \in Attempt) /\ snap[p] \in Record
  BY DEF Proc, ProcTypeOK
<1>b. /\ pc[p] \notin Unborn => db[cur[p]] # "none"
      /\ pc[p] \in Copying => snap[p].status \in Open
  BY <1>a DEF OpenInv
<1>1. CASE Terminate(p)
  <2>1. OwnWrites(p)
    BY <1>1, <1>a, <1>b DEF Terminate, OwnWrites, RowsStay, Cached, cacheVars
  <2> QED
    BY <1>1, <1>a, <2>1, StaysAlone, GotoMoves, ReturnMoves DEF Terminate, Label, Starting, Putting, FairPut
<1>2. CASE TermStop(p)
  <2>1. OwnWrites(p)
    BY <1>2, <1>a, <1>b DEF TermStop, OwnWrites, RowsStay, Cached, cacheVars, StopBox
  <2> QED
    BY <1>2, <1>a, <2>1, StaysAlone, GotoMoves DEF TermStop, Label, Starting, Putting, FairPut, StopBox
<1>3. CASE TermMark(p)
  <2>1. OwnWrites(p)
    BY <1>3, <1>a, <1>b, SaveEffect DEF TermMark, OwnWrites, RowsStay, Cached, cacheVars, PlaceTypeOK, Unborn, Copying, Open
  <2> QED
    BY <1>3, <1>a, <2>1, StaysAlone, GotoMoves, ReturnMoves DEF TermMark, Label, Starting, Putting, FairPut
<1>4. CASE TermDelete(p)
  <2>1. OwnWrites(p)
    BY <1>4, <1>a, <1>b DEF TermDelete, OwnWrites, RowsStay, Cached, cacheVars, DeleteGet, DeleteGetFails
  <2> QED
    BY <1>4, <1>a, <2>1, StaysAlone, ReturnMoves, CopyMoves DEF TermDelete, Label, Starting, Putting, FairPut, DeleteGet, DeleteGetFails, cacheVars
<1>5. CASE TermErase(p)
  <2>1. OwnWrites(p)
    BY <1>5, <1>a, <1>b, EraseEffect DEF TermErase, OwnWrites, RowsStay, Cached, EraseOK, EraseFails, EraseCur, NoEntry, PlaceTypeOK
  <2> QED
    BY <1>5, <1>a, <2>1, StaysAlone, ReturnMoves DEF TermErase, Label, Starting, Putting, FairPut
<1> QED
  BY <1>1, <1>2, <1>3, <1>4, <1>5 DEF TermStep

\* The collector.
LEMMA GCAlone ==
    ASSUME TypeInv, OpenInv, NewInv, GCStep
    PROVE  Alone(GC)
<1> USE DEF TypeInv, At
<1>a. GC \in Proc /\ (pc[GC] # "idle" => cur[GC] \in Attempt) /\ snap[GC] \in Record
  BY DEF Proc, ProcTypeOK
<1>b. /\ pc[GC] \notin Unborn => db[cur[GC]] # "none"
      /\ pc[GC] \in Copying => snap[GC].status \in Open
  BY <1>a DEF OpenInv
<1>1. CASE StaleGet
  <2>1. OwnWrites(GC)
    BY <1>1, <1>a, <1>b DEF StaleGet, OwnWrites, RowsStay, Cached, cacheVars
  <2> QED
    BY <1>1, <1>a, <2>1, StaysAlone, GotoMoves, ReturnMoves DEF StaleGet, Label, Starting, Putting, FairPut
<1>2. CASE StaleDelete
  <2>1. OwnWrites(GC)
    BY <1>2, <1>a, <1>b DEF StaleDelete, OwnWrites, RowsStay, Cached, cacheVars, DeleteGet, DeleteGetFails
  <2> QED
    BY <1>2, <1>a, <2>1, StaysAlone, ReturnMoves, CopyMoves DEF StaleDelete, Label, Starting, Putting, FairPut, DeleteGet, DeleteGetFails, cacheVars
<1>3. CASE StaleErase
  <2>1. OwnWrites(GC)
    BY <1>3, <1>a, <1>b, EraseEffect DEF StaleErase, OwnWrites, RowsStay, Cached, EraseOK, EraseFails, EraseCur, NoEntry, PlaceTypeOK
  <2> QED
    BY <1>3, <1>a, <2>1, StaysAlone, ReturnMoves, CopyMoves DEF StaleErase, Label, Starting, Putting, FairPut
<1>4. CASE StaleMark
  <2>1. OwnWrites(GC)
    BY <1>4, <1>a, <1>b, SaveEffect DEF StaleMark, OwnWrites, RowsStay, Cached, cacheVars, PlaceTypeOK, Unborn, Copying, Open
  <2> QED
    BY <1>4, <1>a, <2>1, StaysAlone, ReturnMoves DEF StaleMark, Label, Starting, Putting, FairPut
<1>5. CASE CleanupPassed
  <2>1. OwnWrites(GC)
    BY <1>5, <1>a, <1>b DEF CleanupPassed, OwnWrites, RowsStay, Cached, cacheVars
  <2> QED
    BY <1>5, <1>a, <2>1, StaysAlone, GotoMoves, ReturnMoves DEF CleanupPassed, Label, Starting, Putting, FairPut
<1>6. CASE CleanStop
  <2>1. OwnWrites(GC)
    BY <1>6, <1>a, <1>b DEF CleanStop, OwnWrites, RowsStay, Cached, cacheVars, StopBox
  <2> QED
    BY <1>6, <1>a, <2>1, StaysAlone, GotoMoves DEF CleanStop, Label, Starting, Putting, FairPut, StopBox
<1>7. CASE CleanDelete
  <2>1. OwnWrites(GC)
    BY <1>7, <1>a, <1>b DEF CleanDelete, OwnWrites, RowsStay, Cached, cacheVars, DeleteGet, DeleteGetFails
  <2> QED
    BY <1>7, <1>a, <2>1, StaysAlone, ReturnMoves, CopyMoves DEF CleanDelete, Label, Starting, Putting, FairPut, DeleteGet, DeleteGetFails, cacheVars
<1>8. CASE CleanErase
  <2>1. OwnWrites(GC)
    BY <1>8, <1>a, <1>b, EraseEffect DEF CleanErase, OwnWrites, RowsStay, Cached, EraseOK, EraseFails, EraseCur, NoEntry, PlaceTypeOK
  <2> QED
    BY <1>8, <1>a, <2>1, StaysAlone, ReturnMoves DEF CleanErase, Label, Starting, Putting, FairPut
<1>9. CASE TermStep(GC)
  BY <1>9, <1>a, TermAlone
<1>10. CASE \E id \in Attempt : Visit(id)
  <2> PICK id \in Attempt : Visit(id)
    BY <1>10
  <2>1. db[id] # "none"
    BY DEF Visit, Unvisited, OpenInv
  <2>2. OwnWrites(GC)
    BY DEF Visit, OwnWrites, RowsStay, Cached, cacheVars
  <2>3. CASE UNCHANGED procVars
    BY <1>a, <2>2, <2>3, IdleAlone DEF Visit
  <2>4. CASE \E label \in {"staleGet", "terminate", "cleanup"} : Take(GC, id, label)
    <3> PICK label \in {"staleGet", "terminate", "cleanup"} : Take(GC, id, label)
      BY <2>4
    <3>1. Moves(GC, label, id, snap[GC], fresh[GC])
      BY <1>a, TakeMoves
    <3>2. fresh[GC] \in Attempt =>
             db'[fresh[GC]] = "none" /\ Own(GC, fresh[GC]) /\ id # fresh[GC]
      BY <1>a, <2>1 DEF Visit, NewInv
    <3> QED
      BY <2>1, <2>2, <3>1, <3>2, NoAttemptAssumption DEF Alone, Moves, Starting, Putting, FairPut
  <2> QED
    BY <2>3, <2>4 DEF Visit
<1>11. CASE Tick \/ ReadListed \/ \E id \in Attempt : Prune(id)
  <2>1. OwnWrites(GC) /\ UNCHANGED procVars
    BY <1>11 DEF Tick, ReadListed, Prune, OwnWrites, RowsStay, Cached, cacheVars
  <2> QED
    BY <1>a, <1>11, <2>1, IdleAlone DEF Tick, ReadListed, Prune
<1> QED
  BY <1>1, <1>2, <1>3, <1>4, <1>5, <1>6, <1>7, <1>8, <1>9, <1>10, <1>11 DEF GCStep

\* The first round trip of a request.
LEMMA RequestAlone ==
    ASSUME TypeInv, OpenInv, NewInv, NEW w \in Worker, Request(w)
    PROVE  Alone(w)
<1> USE DEF TypeInv
<1> PICK id \in Attempt : \/ Start(w, id) \/ Heartbeat(w, id) \/ Check(w, id)
                         \/ Probe(w, id) \/ GiveUp(w, id)
  BY DEF Request
<1>a. w \in Proc
  BY DEF Proc
<1>b. \A i \in Attempt : Cached(i) => db[i] # "none"
  BY DEF OpenInv, RecordsHaveRows
<1>c. ASSUME NEW label \in {"touch", "judge", "probe", "terminate"}, Take(w, id, label),
             db[id] # "none", UNCHANGED <<cacheVars, db>>
      PROVE  Alone(w)
  <2>1. Moves(w, label, id, snap[w], fresh[w])
    BY <1>a, <1>c, TakeMoves
  <2>2. OwnWrites(w)
    BY <1>c DEF OwnWrites, RowsStay, Cached, cacheVars
  <2>3. fresh[w] \in Attempt =>
           db'[fresh[w]] = "none" /\ Own(w, fresh[w]) /\ id # fresh[w]
    BY <1>a, <1>c DEF NewInv
  <2> QED
    BY <1>c, <2>1, <2>2, <2>3 DEF Alone, Moves, Starting, Putting, FairPut
<1>1. CASE Start(w, id)
  <2> DEFINE old == owner[OwnerOf[id]]
  <2>1. OwnWrites(w)
    BY <1>1 DEF Start, OwnWrites, RowsStay, Cached, cacheVars
  <2>2. db'[id] = "none" /\ Own(w, id)
    BY <1>1 DEF Start, Unissued, Own
  <2>3. CASE Begin(w, id)
    BY <1>a, <2>1, <2>2, <2>3, BeginsAlone
  <2>4. CASE /\ old # NoAttempt
             /\ cur' = [cur EXCEPT ![w] = old]
             /\ fresh' = [fresh EXCEPT ![w] = id]
             /\ snap' = snap
             /\ pc' = [pc EXCEPT ![w] = "find"]
    <3>1. db[old] # "none" /\ old # id
      BY <1>1, <2>4, OwnerOfAssumption DEF Start, OpenInv, Unissued
    <3>2. Moves(w, "find", old, snap[w], id)
      BY <1>a, <2>4 DEF Moves, ProcTypeOK
    <3> QED
      BY <2>1, <2>2, <3>1, <3>2 DEF Alone, Moves, Starting, Putting, FairPut
  <2> QED
    BY <1>1, <2>3, <2>4 DEF Start
<1>2. CASE Heartbeat(w, id)
  BY <1>2, <1>b, <1>c DEF Heartbeat, GetYields
<1>3. CASE Check(w, id)
  BY <1>3, <1>b, <1>c DEF Check, GetYields
<1>4. CASE Probe(w, id)
  BY <1>4, <1>b, <1>c DEF Probe, GetYields
<1>5. CASE GiveUp(w, id)
  BY <1>5, <1>c DEF GiveUp
<1> QED
  BY <1>1, <1>2, <1>3, <1>4, <1>5

\* Time, faults, a crash and the startup Reconcile bring nothing back.
LEMMA EnvironmentGone ==
    ASSUME TypeInv, NewInv, Environment \/ UNCHANGED vars
    PROVE  NewInv' /\ \A id \in Attempt : Gone(id) => Gone(id)'
<1>1. CASE Crash
  BY <1>1, NoAttemptAssumption DEF Crash, cacheVars, NewInv, Starting, Gone, Cached, Own
<1>2. CASE UNCHANGED <<db, procVars>> /\ \A i \in Attempt : Cached(i)' => Cached(i)
  BY <1>2 DEF NewInv, procVars, Own, Gone
<1>3. ASSUME NEW id \in Attempt, Age(id) \/ Kill(id) \/ Expire(id)
      PROVE  UNCHANGED <<db, procVars>> /\ \A i \in Attempt : Cached(i)' => Cached(i)
  BY <1>3 DEF Age, Kill, Expire, Cached, cacheVars, procVars, NoEntry, TypeInv, PlaceTypeOK, CacheTypeOK, Record
<1>4. CASE Reconcile \/ UNCHANGED vars
  BY <1>2, <1>4 DEF Reconcile, vars, Cached, cacheVars, procVars
<1> QED
  BY <1>1, <1>2, <1>3, <1>4 DEF Environment

\* No step brings back what is gone.
LEMMA GoneStep ==
    ASSUME TypeInv, OpenInv, NewInv, [Next]_vars
    PROVE  NewInv' /\ \A id \in Attempt : Gone(id) => Gone(id)'
<1>1. ASSUME NEW w \in Worker, Request(w) \/ WorkerStep(w)
      PROVE  w \in Proc /\ Alone(w)
  BY <1>1, RequestAlone, StartAlone, CallAlone, TermAlone DEF WorkerStep, Proc
<1>2. CASE GCStep
  BY <1>2, GCAlone, AloneKeepsNew, AloneKeepsGone DEF Proc
<1>3. CASE Environment \/ UNCHANGED vars
  BY <1>3, EnvironmentGone
<1> QED
  BY <1>1, <1>2, <1>3, AloneKeepsNew, AloneKeepsGone DEF Next

(***************************************************************************)
(* The store no longer holds the attempt and nobody was about to write it: *)
(* nobody ever will again (UpdateLastActive, UpdateStatus), for any number *)
(* of attempts, owners and handlers, and whatever faults.                  *)
(***************************************************************************)
THEOREM GoneIsForGood == Spec => GoneStaysGone
<1>1. Init => OpenInv /\ NewInv
  BY OpenInit, NoAttemptAssumption DEF Init, NewInv, Starting
<1>2. TypeInv /\ OpenInv /\ NewInv /\ [Next]_vars
         => NewInv' /\ [\A id \in Attempt : Gone(id) => Gone(id)']_vars
  BY GoneStep
<1> QED
  BY <1>1, <1>2, TypeInvariant, OpenInductive, PTL DEF Spec, GoneStaysGone

=============================================================================
