------------------------- MODULE AttemptCustodyProofs -------------------------
(***************************************************************************)
(* No container is lost, and no row says terminated over a live container, *)
(* for any number of attempts, owners and handlers, whatever calls on the  *)
(* store and the database fail, containers die and the process crashes, as *)
(* long as the Docker daemon tells the truth (TrueAnswers); and containers *)
(* change hands as BoxCustody says.                                        *)
(***************************************************************************)
EXTENDS AttemptProofs

(***************************************************************************)
(* Ping fails only for a container that does not run, rm -f that fails has *)
(* removed it, docker run that fails has run nothing; and no record that   *)
(* the collector sees expires before it comes by.                          *)
(***************************************************************************)
TrueAnswers == FaultKinds \cap {"inspect", "rm", "orphan", "ttl"} = {}

\* Labels at which the container of the attempt in hand is known not to run.
Stopped == {"recMark", "undoMark", "termMark", "termDelete", "termErase",
            "cleanDelete", "cleanErase", "healDelete", "healErase", "healMark",
            "staleGet", "staleDelete", "staleErase", "staleMark"}

(***************************************************************************)
(* A Start that has no row yet has its attempt to itself; so has one that  *)
(* keeps an identifier for later; containers are those of sandboxes; and   *)
(* at the labels Stopped the container does not run.                       *)
(***************************************************************************)
HandsInv ==
    /\ \A p \in Proc : pc[p] \in Starting =>
          /\ db[cur[p]] = "none"
          /\ \A q \in Proc : q # p => cur[q] # cur[p] /\ fresh[q] # cur[p]
    /\ \A p \in Proc : fresh[p] \in Attempt =>
          /\ db[fresh[p]] = "none"
          /\ box[fresh[p]] = "none"
          /\ \A q \in Proc : cur[q] # fresh[p] /\ (q # p => fresh[q] # fresh[p])
    /\ \A p \in Proc : pc[p] = "run" => IsSandbox(cur[p]) /\ box[cur[p]] = "none"
    /\ \A id \in Attempt : Up(id) => IsSandbox(id)
    /\ \A p \in Proc : pc[p] \in Stopped => ~Up(cur[p])

\* A Start that has not put its attempt in the store yet.
Unput == Starting \cup {"undoRun", "put"}

\* The store has never heard of id, or has forgotten it.
Absent(id) == ~Cached(id) /\ id \notin active

(***************************************************************************)
(* Until its Start puts it there nothing in the store names an attempt,    *)
(* and nobody else is about to write it.                                   *)
(***************************************************************************)
UnputInv ==
    \A p \in Proc : pc[p] \in Unput =>
        /\ Absent(cur[p])
        /\ batch[cur[p]].status = "none"
        /\ \A q \in Proc : q # p /\ cur[q] = cur[p] => pc[q] \notin Unput \cup Putting

\* The next round trip stops the container.
Stopping == {"undoPut", "recStop"}

(***************************************************************************)
(* When a Snapshot is about to remove a member from the active set, the    *)
(* record may be back; but then its container is about to be stopped.      *)
(***************************************************************************)
PruneInv ==
    /\ \A id \in Attempt : batch[id] = Missing /\ Up(id) =>
          \E p \in Proc : cur[p] = id /\ pc[p] \in Stopping
    /\ booting => \A id \in Attempt : batch[id].status = "none"

\* The inductive invariant.
CustodyInv == HandsInv /\ TerminatedIsStopped /\ NoOrphanBox /\ UnputInv /\ PruneInv

-----------------------------------------------------------------------------
\* The only row and container p touches are those of the attempt in hand, and
\* it runs one only at "run".
Local(p) ==
    /\ \A id \in Attempt : id # cur[p] => db'[id] = db[id] /\ box'[id] = box[id]
    /\ \A id \in Attempt : Up(id)' => Up(id) \/ (id = cur[p] /\ pc[p] = "run")

\* What p goes on with is consistent with HandsInv.
HandsOn(p) ==
    \E label \in Label, id \in Attempt \cup {NoAttempt}, rec \in Record,
       new \in Attempt \cup {NoAttempt} :
       /\ Moves(p, label, id, rec, new)
       /\ \/ id = cur[p]
          \/ id = NoAttempt
          \/ db[id] # "none"
          \/ Own(p, id)
       /\ label \in Starting => db'[id] = "none" /\ Own(p, id)
       /\ label = "run" => IsSandbox(id) /\ box'[id] = "none"
       /\ label \in Stopped => box'[id] # "up"
       /\ new \in Attempt => /\ Own(p, new) /\ new # id
                            /\ db'[new] = "none" /\ box'[new] = "none"

\* Such a step keeps HandsInv.
LEMMA HandsStep ==
    ASSUME TypeInv, HandsInv, NEW p \in Proc, Local(p), HandsOn(p)
    PROVE  HandsInv'
<1> USE DEF TypeInv, ProcTypeOK
<1> PICK label \in Label, id \in Attempt \cup {NoAttempt}, rec \in Record,
         new \in Attempt \cup {NoAttempt} :
       /\ Moves(p, label, id, rec, new)
       /\ \/ id = cur[p]
          \/ id = NoAttempt
          \/ db[id] # "none"
          \/ Own(p, id)
       /\ label \in Starting => db'[id] = "none" /\ Own(p, id)
       /\ label = "run" => IsSandbox(id) /\ box'[id] = "none"
       /\ label \in Stopped => box'[id] # "up"
       /\ new \in Attempt => /\ Own(p, new) /\ new # id
                            /\ db'[new] = "none" /\ box'[new] = "none"
  BY DEF HandsOn
<1>1. \A q \in Proc : pc'[q] \in Starting =>
          /\ db'[cur'[q]] = "none"
          /\ \A r \in Proc : r # q => cur'[r] # cur'[q] /\ fresh'[r] # cur'[q]
  <2> SUFFICES ASSUME NEW q \in Proc, pc'[q] \in Starting
               PROVE  /\ db'[cur'[q]] = "none"
                      /\ \A r \in Proc : r # q => cur'[r] # cur'[q] /\ fresh'[r] # cur'[q]
    OBVIOUS
  <2>1. CASE q = p
    BY <2>1 DEF Moves, Own
  <2>2. CASE q # p
    <3>1. cur'[q] = cur[q] /\ cur[q] \in Attempt /\ pc[q] \in Starting /\ db[cur[q]] = "none"
      BY <2>2 DEF Moves, HandsInv, Starting
    <3>2. cur[q] # cur[p] /\ \A r \in Proc : r # q => cur[r] # cur[q] /\ fresh[r] # cur[q]
      BY <2>2, <3>1 DEF HandsInv
    <3>3. id # cur[q] /\ new # cur[q]
      BY <2>2, <3>1, <3>2, NoAttemptAssumption DEF Own
    <3> QED
      BY <2>2, <3>1, <3>2, <3>3 DEF Moves, Local
  <2> QED
    BY <2>1, <2>2
<1>2. \A q \in Proc : fresh'[q] \in Attempt =>
          /\ db'[fresh'[q]] = "none"
          /\ box'[fresh'[q]] = "none"
          /\ \A r \in Proc : cur'[r] # fresh'[q] /\ (r # q => fresh'[r] # fresh'[q])
  <2> SUFFICES ASSUME NEW q \in Proc, fresh'[q] \in Attempt
               PROVE  /\ db'[fresh'[q]] = "none"
                      /\ box'[fresh'[q]] = "none"
                      /\ \A r \in Proc : cur'[r] # fresh'[q] /\ (r # q => fresh'[r] # fresh'[q])
    OBVIOUS
  <2>1. CASE q = p
    BY <2>1 DEF Moves, Own
  <2>2. CASE q # p
    <3>1. fresh'[q] = fresh[q] /\ fresh[q] \in Attempt
      BY <2>2 DEF Moves
    <3>2. /\ db[fresh[q]] = "none" /\ box[fresh[q]] = "none"
          /\ \A r \in Proc : cur[r] # fresh[q] /\ (r # q => fresh[r] # fresh[q])
      BY <3>1 DEF HandsInv
    <3>3. id # fresh[q] /\ new # fresh[q]
      BY <2>2, <3>1, <3>2, NoAttemptAssumption DEF Own
    <3> QED
      BY <2>2, <3>1, <3>2, <3>3 DEF Moves, Local
  <2> QED
    BY <2>1, <2>2
<1>3. \A q \in Proc : pc'[q] = "run" => IsSandbox(cur'[q]) /\ box'[cur'[q]] = "none"
  BY DEF Moves, HandsInv, Local, Starting
<1>4. \A i \in Attempt : Up(i)' => IsSandbox(i)
  BY DEF HandsInv, Local, Up
<1>5. \A q \in Proc : pc'[q] \in Stopped => box'[cur'[q]] # "up"
  BY DEF Moves, HandsInv, Local, Up, Starting, Stopped
<1> QED
  BY <1>1, <1>2, <1>3, <1>4, <1>5 DEF HandsInv, IsSandbox, Up

\* No row is terminated over a live container, and no container is run for a
\* terminated row.
KeepsStopped ==
    \A id \in Attempt : db'[id] = "terminated" /\ Up(id)' => db[id] = "terminated" /\ Up(id)

\* p answers for the container in hand as long as the list does not.
KeepsListed(p) ==
    /\ booting' = booting
    /\ \A id \in Attempt : id # cur[p] => (Visible(id) => Visible(id)')
    /\ \A id \in Attempt : id = cur[p] /\ Up(id)' =>
          \/ Visible(id)'
          \/ Responsible(p, id)'
          \/ ~Visible(id) /\ ~Responsible(p, id) /\ pc[p] # "run"

\* p writes only the attempt in hand, only by a Put, and a Put or a rollback
\* only follows the round trip that leads to it.
KeepsUnput(p) ==
    /\ \A id \in Attempt : batch'[id] \in {batch[id], NoEntry}
    /\ \A id \in Attempt : Absent(id) => Absent(id)' \/ (id = cur[p] /\ pc[p] \in Putting)
    /\ pc'[p] \in {"undoRun", "put"} => pc[p] = "create" /\ cur'[p] = cur[p]
    /\ pc'[p] \in {"touchPut", "checkPut"} => Cached(cur[p]) /\ cur'[p] = cur[p]
    /\ pc[p] \in Stopping => box'[cur[p]] # "up"

\* Such a step keeps UnputInv.
LEMMA UnputStep ==
    ASSUME TypeInv, TypeInv', OpenInv', UnputInv, NEW p \in Proc, HandsOn(p), KeepsUnput(p)
    PROVE  UnputInv'
<1> USE DEF TypeInv, ProcTypeOK
<1>a. PICK label \in Label, id \in Attempt \cup {NoAttempt} :
          /\ pc'[p] = label /\ cur'[p] = id
          /\ \A q \in Proc : q # p => pc'[q] = pc[q] /\ cur'[q] = cur[q]
          /\ label \in Starting => db'[id] = "none" /\ Own(p, id)
  BY DEF HandsOn, Moves
<1> SUFFICES ASSUME NEW q \in Proc, pc'[q] \in Unput
             PROVE  /\ main'[cur'[q]].status = "none" /\ cur'[q] \notin active'
                    /\ batch'[cur'[q]].status = "none"
                    /\ \A r \in Proc : r # q /\ cur'[r] = cur'[q] => pc'[r] \notin Unput \cup Putting
  BY DEF UnputInv, Absent, Cached
<1>b. cur'[q] \in Attempt
  BY DEF Unput, Starting
<1>1. CASE q = p /\ label \in Starting
  <2>1. /\ main'[id].status = "none" /\ id \notin active' /\ batch'[id].status = "none"
    BY <1>a, <1>b, <1>1 DEF OpenInv, RecordsHaveRows, Cached
  <2> QED
    BY <1>a, <1>1, <2>1 DEF Own
<1>2. CASE q = p /\ label \notin Starting
  <2>1. pc[p] = "create" /\ cur'[p] = cur[p]
    BY <1>a, <1>2 DEF KeepsUnput, Unput
  <2>2. /\ Absent(cur[p]) /\ batch[cur[p]].status = "none"
        /\ \A r \in Proc : r # p /\ cur[r] = cur[p] => pc[r] \notin Unput \cup Putting
    BY <2>1 DEF UnputInv, Unput, Starting
  <2>3. Absent(cur[p])' /\ batch'[cur[p]].status = "none"
    BY <1>b, <1>2, <2>1, <2>2 DEF KeepsUnput, Putting, NoEntry
  <2> QED
    BY <1>a, <1>2, <2>1, <2>2, <2>3 DEF Absent, Cached
<1>3. CASE q # p
  <2>1. pc[q] \in Unput /\ cur'[q] = cur[q] /\ pc'[q] = pc[q] /\ cur[q] \in Attempt
    BY <1>a, <1>b, <1>3
  <2>2. /\ Absent(cur[q]) /\ batch[cur[q]].status = "none"
        /\ \A r \in Proc : r # q /\ cur[r] = cur[q] => pc[r] \notin Unput \cup Putting
    BY <2>1 DEF UnputInv
  <2>3. Absent(cur[q])' /\ batch'[cur[q]].status = "none"
    BY <1>3, <2>1, <2>2 DEF KeepsUnput, NoEntry
  <2>4. id = cur[q] => label \notin Unput \cup Putting
    <3>1. CASE label \in Starting
      BY <1>a, <1>3, <2>1, <3>1 DEF Own
    <3>2. CASE label \in {"undoRun", "put"}
      BY <1>a, <1>3, <2>1, <2>2, <3>2 DEF KeepsUnput, Unput, Starting
    <3>3. CASE label \in {"touchPut", "checkPut"}
      BY <1>a, <2>2, <3>3 DEF KeepsUnput, Absent
    <3> QED
      BY <3>1, <3>2, <3>3 DEF Unput, Putting
  <2> QED
    BY <1>a, <1>3, <2>1, <2>2, <2>3, <2>4 DEF Absent, Cached
<1> QED
  BY <1>1, <1>2, <1>3

\* Such a step keeps PruneInv.
LEMMA PruneStep ==
    ASSUME TypeInv, CustodyInv, NEW p \in Proc,
           Local(p), HandsOn(p), KeepsUnput(p), booting' = booting
    PROVE  PruneInv'
<1> USE DEF TypeInv, ProcTypeOK
<1>a. \A q \in Proc : q # p => pc'[q] = pc[q] /\ cur'[q] = cur[q]
  BY DEF HandsOn, Moves
<1>1. ASSUME NEW id \in Attempt, batch'[id] = Missing, box'[id] = "up"
      PROVE  \E q \in Proc : cur'[q] = id /\ pc'[q] \in Stopping
  <2>1. batch[id] = Missing
    BY <1>1 DEF KeepsUnput, Missing, NoEntry
  <2>2. Up(id)
    <3>1. ~(pc[p] = "run" /\ id = cur[p])
      BY <2>1 DEF CustodyInv, UnputInv, Unput, Starting, Missing
    <3> QED
      BY <1>1, <3>1 DEF Local, Up
  <2>3. PICK q \in Proc : cur[q] = id /\ pc[q] \in Stopping
    BY <2>1, <2>2 DEF CustodyInv, PruneInv
  <2>4. q # p
    BY <1>1, <2>3 DEF KeepsUnput
  <2> QED
    BY <1>a, <2>3, <2>4
<1>2. booting' => \A id \in Attempt : batch'[id].status = "none"
  BY DEF CustodyInv, PruneInv, KeepsUnput, NoEntry
<1> QED
  BY <1>1, <1>2 DEF PruneInv, Up

\* A step of p that keeps every part keeps CustodyInv.
LEMMA CustodyStep ==
    ASSUME TypeInv, TypeInv', OpenInv', CustodyInv, NEW p \in Proc,
           Local(p), HandsOn(p), KeepsStopped, KeepsListed(p), KeepsUnput(p)
    PROVE  CustodyInv'
<1>1. HandsInv'
  BY HandsStep DEF CustodyInv
<1>2. TerminatedIsStopped'
  BY DEF CustodyInv, TerminatedIsStopped, KeepsStopped
<1>3. NoOrphanBox'
  <2> SUFFICES ASSUME NEW id \in Attempt, Up(id)'
               PROVE  Visible(id)' \/ InHand(id)' \/ booting'
    BY DEF NoOrphanBox
  <2>1. \A q \in Proc : q # p => pc'[q] = pc[q] /\ cur'[q] = cur[q]
    BY DEF HandsOn, Moves
  <2>2. ASSUME NEW q \in Proc, q # p, Responsible(q, id)
        PROVE  InHand(id)'
    BY <2>1, <2>2 DEF Responsible, InHand
  <2>3. CASE id # cur[p]
    <3>1. Up(id) /\ ~Responsible(p, id)
      BY <2>3 DEF Local, Up, Responsible
    <3> QED
      BY <2>2, <2>3, <3>1 DEF CustodyInv, NoOrphanBox, InHand, KeepsListed
  <2>4. CASE id = cur[p]
    BY <2>2, <2>4 DEF CustodyInv, NoOrphanBox, InHand, KeepsListed, Local
  <2> QED
    BY <2>3, <2>4
<1>4. UnputInv'
  BY UnputStep DEF CustodyInv
<1>5. PruneInv'
  BY PruneStep DEF KeepsListed
<1> QED
  BY <1>1, <1>2, <1>3, <1>4, <1>5 DEF CustodyInv

-----------------------------------------------------------------------------
(* What the calls on the four places do to containers and to the list.     *)

\* Stop leaves the container gone and the others alone.
LEMMA StopEffect ==
    ASSUME TrueAnswers, PlaceTypeOK, NEW id \in Attempt, StopBox(id)
    PROVE  /\ box'[id] = "gone"
           /\ \A i \in Attempt : i # id => box'[i] = box[i]
BY DEF TrueAnswers, PlaceTypeOK, StopBox, Fault

\* A ping that fails has found a container that does not run.
LEMMA PingEffect ==
    ASSUME TrueAnswers, NEW id \in Attempt, PingFails(id)
    PROVE  ~Up(id)
BY DEF TrueAnswers, PingFails, Fault, Up

\* After Put the collector sees the attempt; one that breaks hides none.
LEMMA PutListed ==
    ASSUME CacheTypeOK, NEW id \in Attempt, NEW rec \in Record, rec.status # "none",
           PutEntry(id, rec) \/ PutBroken(id, rec)
    PROVE  /\ PutEntry(id, rec) => Visible(id)'
           /\ \A i \in Attempt : Visible(i) => Visible(i)'
BY DEF CacheTypeOK, PutEntry, PutBroken, Visible, Cached, cacheVars

\* p answers its call.
LEMMA ReturnHands ==
    ASSUME TypeInv, NEW p \in Proc, Return(p)
    PROVE  HandsOn(p)
<1>1. Moves(p, "idle", NoAttempt, NoEntry, NoAttempt)
  BY ReturnMoves DEF TypeInv
<1>2. "idle" \in Label \ (Starting \cup Stopped) /\ NoEntry \in Record
  BY DEF Label, Starting, Stopped, NoEntry, Record, Status
<1> QED
  BY <1>1, <1>2, NoAttemptAssumption DEF HandsOn, Starting

\* p goes on with the attempt it has in hand.
LEMMA KeepHands ==
    ASSUME TypeInv, HandsInv, NEW p \in Proc, Local(p), pc[p] # "idle",
           NEW label \in Label \ Starting, label \in Stopped => box'[cur[p]] # "up",
           Goto(p, label) \/ \E rec \in Record : Copy(p, rec, label)
    PROVE  HandsOn(p)
<1>1. PICK rec \in Record : Moves(p, label, cur[p], rec, fresh[p])
  BY GotoMoves, CopyMoves DEF TypeInv, ProcTypeOK
<1>2. fresh[p] \in Attempt => /\ Own(p, fresh[p]) /\ fresh[p] # cur[p]
                            /\ db'[fresh[p]] = "none" /\ box'[fresh[p]] = "none"
  BY DEF HandsInv, Own, Local
<1>3. cur[p] \in Attempt \cup {NoAttempt} /\ fresh[p] \in Attempt \cup {NoAttempt}
  BY DEF TypeInv, ProcTypeOK
<1> QED
  BY <1>1, <1>2, <1>3 DEF HandsOn, Starting

\* p begins a new attempt.
LEMMA BeginHands ==
    ASSUME TypeInv, NEW p \in Proc, NEW id \in Attempt, Begin(p, id),
           Own(p, id), db'[id] = "none", box'[id] = "none"
    PROVE  HandsOn(p)
<1> DEFINE label == IF IsSandbox(id) THEN "run" ELSE "create"
<1>1. Moves(p, label, id, snap[p], NoAttempt)
  BY BeginMoves DEF TypeInv
<1>2. label \in Label /\ label \notin Stopped /\ snap[p] \in Record /\ (label = "run" => IsSandbox(id))
  BY DEF Label, Stopped, TypeInv, ProcTypeOK
<1> HIDE DEF label
<1> QED
  BY <1>1, <1>2, NoAttemptAssumption DEF HandsOn

\* Delete hides no other attempt.
LEMMA EraseListed ==
    ASSUME CacheTypeOK, NEW id \in Attempt, NEW found,
           EraseEntry(id, found) \/ EraseBroken(id, found)
    PROVE  \A i \in Attempt : i # id => (Visible(i) => Visible(i)')
BY DEF CacheTypeOK, EraseEntry, EraseBroken, Visible, Cached, cacheVars

\* p, idle, takes an attempt that has a row.
LEMMA TakeHands ==
    ASSUME TypeInv, HandsInv, NEW p \in Proc, NEW id \in Attempt, NEW label \in Label \ Starting,
           Local(p), Take(p, id, label), db[id] # "none", label \in Stopped => box'[id] # "up"
    PROVE  HandsOn(p)
<1>1. Moves(p, label, id, snap[p], fresh[p])
  BY TakeMoves DEF TypeInv
<1>2. fresh[p] \in Attempt => /\ Own(p, fresh[p]) /\ fresh[p] # id
                            /\ db'[fresh[p]] = "none" /\ box'[fresh[p]] = "none"
  BY DEF HandsInv, Own, Local
<1>3. snap[p] \in Record /\ fresh[p] \in Attempt \cup {NoAttempt}
  BY DEF TypeInv, ProcTypeOK
<1> QED
  BY <1>1, <1>2, <1>3 DEF HandsOn, Starting

\* A step that moves no process, row or container, hides no record of a live
\* container, writes none, and lists only what the store knows.
LEMMA NothingMoves ==
    ASSUME TypeInv, CustodyInv, UNCHANGED <<db, box, procVars, booting>>,
           \A id \in Attempt : Up(id) /\ Visible(id) => Visible(id)' \/ InHand(id),
           \A id \in Attempt : Absent(id) => Absent(id)',
           \A id \in Attempt : batch'[id].status # "none" =>
               batch[id].status # "none" \/ (~booting /\ ~Absent(id)),
           \A id \in Attempt : batch'[id] = Missing /\ Up(id) =>
               batch[id] = Missing \/ \E p \in Proc : cur[p] = id /\ pc[p] \in Stopping
    PROVE  CustodyInv'
<1>1. HandsInv'
  BY DEF CustodyInv, HandsInv, procVars, Up
<1>2. TerminatedIsStopped'
  BY DEF CustodyInv, TerminatedIsStopped, Up
<1>3. NoOrphanBox'
  BY DEF CustodyInv, NoOrphanBox, InHand, Responsible, procVars, Up
<1>4. UnputInv'
  <2> SUFFICES ASSUME NEW p \in Proc, pc[p] \in Unput
               PROVE  Absent(cur[p])' /\ batch'[cur[p]].status = "none"
    BY DEF CustodyInv, UnputInv, procVars, Absent, Cached
  <2>1. cur[p] \in Attempt /\ Absent(cur[p]) /\ batch[cur[p]].status = "none"
    BY DEF CustodyInv, UnputInv, TypeInv, ProcTypeOK, Unput, Starting
  <2>2. Absent(cur[p])'
    BY <2>1 DEF procVars, Absent, Cached
  <2> QED
    BY <2>1, <2>2
<1>5. PruneInv'
  BY DEF CustodyInv, PruneInv, procVars, Up
<1> QED
  BY <1>1, <1>2, <1>3, <1>4, <1>5 DEF CustodyInv

\* A step of a Start in progress keeps CustodyInv, and its container in somebody's care.
LEMMA StartStepCustody ==
    ASSUME TrueAnswers, TypeInv, TypeInv', OpenInv, OpenInv', CustodyInv,
           NEW w \in Worker, StartStep(w)
    PROVE  CustodyInv' /\ KeepsListed(w)
<1> USE DEF TypeInv, At, Up
<1>a. w \in Proc /\ (pc[w] # "idle" => cur[w] \in Attempt) /\ snap[w] \in Record
  BY DEF Proc, ProcTypeOK
<1>b. pc[w] \notin Unborn => db[cur[w]] # "none"
  BY <1>a DEF OpenInv
<1>c. /\ pc[w] \in Starting => db[cur[w]] = "none" /\ Own(w, cur[w])
      /\ pc[w] = "run" => IsSandbox(cur[w]) /\ box[cur[w]] = "none"
      /\ pc[w] \in Stopped => ~Up(cur[w])
  BY <1>a DEF CustodyInv, HandsInv, Own
<1>d. fresh[w] \in Attempt => /\ Own(w, fresh[w]) /\ cur[w] # fresh[w]
                             /\ db[fresh[w]] = "none" /\ box[fresh[w]] = "none"
  BY <1>a DEF CustodyInv, HandsInv, Own
<1>e. fresh[w] \in Attempt \cup {NoAttempt} /\ \A id \in Attempt : Up(id) => IsSandbox(id)
  BY <1>a DEF CustodyInv, HandsInv, ProcTypeOK
<1>f. \A id \in Attempt : db[id] = "terminated" => ~Up(id)
  BY DEF CustodyInv, TerminatedIsStopped
<1>1. CASE ReusePing(w)
  <2>1. Local(w)
    BY <1>1, <1>a, <1>c DEF ReusePing, Local
  <2>2. HandsOn(w)
    BY <1>1, <1>a, <1>c, <2>1, KeepHands, PingEffect DEF ReusePing, Label, Starting, Stopped, CustodyInv
  <2>3. KeepsStopped
    BY <1>1, <1>a, <1>c, <1>f DEF ReusePing, KeepsStopped, Stopped, Starting
  <2>4. KeepsListed(w)
    BY <1>1, <1>a, <1>c, <1>e, GotoMoves DEF ReusePing, KeepsListed, Responsible, Visible, Cached, Moves, Stopped, PlaceTypeOK, cacheVars
  <2>5. KeepsUnput(w)
    BY <1>1, <1>a, GotoMoves DEF ReusePing, KeepsUnput, Absent, Putting, Stopping, Cached, Moves, PlaceTypeOK, cacheVars
  <2> QED
    BY <1>a, <2>1, <2>2, <2>3, <2>4, <2>5, CustodyStep
<1>2. CASE RecDelete(w)
  <2>1. Local(w)
    BY <1>2, <1>a, <1>c DEF RecDelete, Local, DeleteGet, DeleteGetFails, cacheVars, PlaceTypeOK, CacheTypeOK, AfterRecErase
  <2>2. HandsOn(w)
    <3>1. /\ AfterRecErase(cur[w]) \in Label \ Starting
          /\ AfterRecErase(cur[w]) \in Stopped => ~Up(cur[w])
      BY <1>2, <1>a, <1>e DEF RecDelete, AfterRecErase, Label, Starting, Stopped
    <3>2. CASE DeleteGet(w, "recErase")
      <4>1. main[cur[w]] \in Record /\ Copy(w, main[cur[w]], "recErase")
        BY <1>2, <1>a, <3>2 DEF RecDelete, DeleteGet, PlaceTypeOK, CacheTypeOK
      <4> QED
        BY <1>2, <1>a, <2>1, <4>1, KeepHands DEF RecDelete, Label, Starting, Stopped, CustodyInv
    <3>3. CASE DeleteGetFails /\ Goto(w, AfterRecErase(cur[w]))
      BY <1>2, <1>a, <2>1, <3>1, <3>3, KeepHands DEF RecDelete, CustodyInv
    <3> QED
      BY <1>2, <3>2, <3>3 DEF RecDelete
  <2>3. KeepsStopped
    BY <1>2, <1>a, <1>c, <1>f DEF RecDelete, KeepsStopped, Stopped, Starting, DeleteGet, DeleteGetFails, cacheVars, PlaceTypeOK, CacheTypeOK, AfterRecErase
  <2>4. KeepsListed(w)
    BY <1>2, <1>a, <1>c, <1>e, GotoMoves, CopyMoves DEF RecDelete, KeepsListed, Responsible, Visible, Cached, Moves, Stopped, PlaceTypeOK, cacheVars, DeleteGet, DeleteGetFails, CacheTypeOK, AfterRecErase
  <2>5. KeepsUnput(w)
    BY <1>2, <1>a, GotoMoves, CopyMoves DEF RecDelete, KeepsUnput, Absent, Putting, Stopping, Cached, Moves, PlaceTypeOK, cacheVars, DeleteGet, DeleteGetFails, CacheTypeOK, AfterRecErase
  <2> QED
    BY <1>a, <2>1, <2>2, <2>3, <2>4, <2>5, CustodyStep
<1>3. CASE RecErase(w)
  <2>1. Local(w)
    BY <1>3, <1>a, <1>c DEF RecErase, Local, AfterRecErase, NoEntry, Record, Status
  <2>2. HandsOn(w)
    <3>1. /\ AfterRecErase(cur[w]) \in Label \ Starting
          /\ AfterRecErase(cur[w]) \in Stopped => ~Up(cur[w])
      BY <1>3, <1>a, <1>e DEF RecErase, AfterRecErase, Label, Starting, Stopped
    <3>2. NoEntry \in Record /\ Copy(w, NoEntry, AfterRecErase(cur[w])) /\ box' = box
      BY <1>3 DEF RecErase, NoEntry, Record, Status
    <3> QED
      BY <1>3, <1>a, <2>1, <3>1, <3>2, KeepHands DEF RecErase, CustodyInv
  <2>3. KeepsStopped
    BY <1>3, <1>a, <1>c, <1>f DEF RecErase, KeepsStopped, Stopped, Starting, AfterRecErase, NoEntry, Record, Status
  <2>4. KeepsListed(w)
    BY <1>3, <1>a, <1>c, <1>e, CopyMoves, EraseListed DEF RecErase, KeepsListed, Responsible, Visible, Cached, Moves, Stopped, PlaceTypeOK, cacheVars, EraseOK, EraseFails, EraseCur, AfterRecErase, NoEntry, Record, Status
  <2>5. KeepsUnput(w)
    BY <1>3, <1>a, CopyMoves, EraseEffect DEF RecErase, KeepsUnput, Absent, Putting, Stopping, Cached, Moves, PlaceTypeOK, cacheVars, EraseOK, EraseFails, EraseCur, AfterRecErase, NoEntry, Record, Status
  <2> QED
    BY <1>a, <2>1, <2>2, <2>3, <2>4, <2>5, CustodyStep
<1>4. CASE RecStop(w)
  <2>1. Local(w)
    BY <1>4, <1>a, <1>c, StopEffect DEF RecStop, Local
  <2>2. HandsOn(w)
    BY <1>4, <1>a, <1>c, <2>1, KeepHands, StopEffect DEF RecStop, Label, Starting, Stopped, CustodyInv
  <2>3. KeepsStopped
    BY <1>4, <1>a, <1>c, <1>f, StopEffect DEF RecStop, KeepsStopped, Stopped, Starting
  <2>4. KeepsListed(w)
    BY <1>4, <1>a, <1>c, <1>e, GotoMoves, StopEffect DEF RecStop, KeepsListed, Responsible, Visible, Cached, Moves, Stopped, PlaceTypeOK, cacheVars
  <2>5. KeepsUnput(w)
    BY <1>4, <1>a, GotoMoves, StopEffect DEF RecStop, KeepsUnput, Absent, Putting, Stopping, Cached, Moves, PlaceTypeOK, cacheVars
  <2> QED
    BY <1>a, <2>1, <2>2, <2>3, <2>4, <2>5, CustodyStep
<1>5. CASE RecMark(w)
  <2>1. Local(w)
    BY <1>5, <1>a, <1>c, SaveEffect DEF RecMark, Local
  <2>2. HandsOn(w)
    <3>1. fresh[w] \in Attempt
      BY <1>5, <1>a DEF RecMark, ProcTypeOK, Replacing
    <3>2. Begin(w, fresh[w]) /\ box' = box
      BY <1>5 DEF RecMark
    <3>3. db'[fresh[w]] = "none" /\ box'[fresh[w]] = "none" /\ Own(w, fresh[w])
      BY <1>a, <1>d, <2>1, <3>1, <3>2 DEF Local
    <3> QED
      BY <1>a, <3>1, <3>2, <3>3, BeginHands
  <2>3. KeepsStopped
    BY <1>5, <1>a, <1>c, <1>f, SaveEffect DEF RecMark, KeepsStopped, Stopped, Starting
  <2>4. KeepsListed(w)
    BY <1>5, <1>a, <1>c, <1>e, BeginMoves, SaveEffect DEF RecMark, KeepsListed, Responsible, Visible, Cached, Moves, Stopped, PlaceTypeOK, cacheVars
  <2>5. KeepsUnput(w)
    BY <1>5, <1>a, BeginMoves, SaveEffect DEF RecMark, KeepsUnput, Absent, Putting, Stopping, Cached, Moves, PlaceTypeOK, cacheVars
  <2> QED
    BY <1>a, <2>1, <2>2, <2>3, <2>4, <2>5, CustodyStep
<1>6. CASE Run(w)
  <2>1. Local(w)
    BY <1>6, <1>a, <1>c DEF Run, Local, PlaceTypeOK, TrueAnswers, Fault, NoEntry, Record, Status
  <2>2. HandsOn(w)
    <3>1. CASE Goto(w, "create")
      <4>1. Moves(w, "create", cur[w], snap[w], fresh[w])
        BY <1>a, <3>1, GotoMoves
      <4>2. fresh[w] \in Attempt => db'[fresh[w]] = "none" /\ box'[fresh[w]] = "none"
        BY <1>d, <2>1 DEF Local
      <4>3. db'[cur[w]] = "none" /\ Own(w, cur[w])
        BY <1>6, <1>c DEF Run, Starting
      <4> QED
        BY <1>6, <1>a, <1>d, <1>e, <4>1, <4>2, <4>3 DEF Run, HandsOn, Label, Stopped
    <3>2. CASE Return(w)
      BY <1>a, <3>2, ReturnHands
    <3> QED
      BY <1>6, <3>1, <3>2 DEF Run
  <2>3. KeepsStopped
    BY <1>6, <1>a, <1>c, <1>f DEF Run, KeepsStopped, Stopped, Starting, PlaceTypeOK, TrueAnswers, Fault, NoEntry, Record, Status
  <2>4. KeepsListed(w)
    BY <1>6, <1>a, <1>c, <1>e, GotoMoves, ReturnMoves DEF Run, KeepsListed, Responsible, Visible, Cached, Moves, Stopped, PlaceTypeOK, cacheVars, TrueAnswers, Fault, NoEntry, Record, Status
  <2>5. KeepsUnput(w)
    BY <1>6, <1>a, GotoMoves, ReturnMoves DEF Run, KeepsUnput, Absent, Putting, Stopping, Cached, Moves, PlaceTypeOK, cacheVars, Fault, NoEntry, Record, Status
  <2> QED
    BY <1>a, <2>1, <2>2, <2>3, <2>4, <2>5, CustodyStep
<1>7. CASE Create(w)
  <2>1. Local(w)
    BY <1>7, <1>a, <1>c, SaveEffect DEF Create, Local, NoEntry, Record, Status
  <2>2. HandsOn(w)
    BY <1>7, <1>a, <1>c, <2>1, KeepHands, ReturnHands, SaveEffect DEF Create, Label, Starting, Stopped, CustodyInv, NoEntry, Record, Status
  <2>3. KeepsStopped
    BY <1>7, <1>a, <1>c, <1>f, SaveEffect DEF Create, KeepsStopped, Stopped, Starting, NoEntry, Record, Status
  <2>4. KeepsListed(w)
    BY <1>7, <1>a, <1>c, <1>e, GotoMoves, ReturnMoves, SaveEffect DEF Create, KeepsListed, Responsible, Visible, Cached, Moves, Stopped, PlaceTypeOK, cacheVars, NoEntry, Record, Status
  <2>5. KeepsUnput(w)
    BY <1>7, <1>a, GotoMoves, ReturnMoves, SaveEffect DEF Create, KeepsUnput, Absent, Putting, Stopping, Cached, Moves, PlaceTypeOK, cacheVars, NoEntry, Record, Status
  <2> QED
    BY <1>a, <2>1, <2>2, <2>3, <2>4, <2>5, CustodyStep
<1>8. CASE UndoRun(w)
  <2>1. Local(w)
    BY <1>8, <1>a, <1>c, StopEffect DEF UndoRun, Local, NoEntry, Record, Status
  <2>2. HandsOn(w)
    BY <1>8, <1>a, <1>c, <2>1, ReturnHands, StopEffect DEF UndoRun, Label, Starting, Stopped, CustodyInv, NoEntry, Record, Status
  <2>3. KeepsStopped
    BY <1>8, <1>a, <1>c, <1>f, StopEffect DEF UndoRun, KeepsStopped, Stopped, Starting, NoEntry, Record, Status
  <2>4. KeepsListed(w)
    BY <1>8, <1>a, <1>c, <1>e, ReturnMoves, StopEffect DEF UndoRun, KeepsListed, Responsible, Visible, Cached, Moves, Stopped, PlaceTypeOK, cacheVars, NoEntry, Record, Status
  <2>5. KeepsUnput(w)
    BY <1>8, <1>a, ReturnMoves, StopEffect DEF UndoRun, KeepsUnput, Absent, Putting, Stopping, Cached, Moves, PlaceTypeOK, cacheVars, NoEntry, Record, Status
  <2> QED
    BY <1>a, <2>1, <2>2, <2>3, <2>4, <2>5, CustodyStep
<1>9. CASE Put(w)
  <2>0. Running \in Record /\ Running.status # "none"
    BY DEF Running, Record, Status
  <2>1. Local(w)
    BY <1>9, <1>a, <1>c, <2>0 DEF Put, Local, NoEntry, Record, Status
  <2>2. HandsOn(w)
    <3>1. CASE Return(w)
      BY <1>a, <3>1, ReturnHands
    <3>2. CASE IsSandbox(cur[w]) /\ Goto(w, "undoPut")
      BY <1>9, <1>a, <2>1, <3>2, KeepHands DEF Put, Label, Starting, Stopped, CustodyInv
    <3>3. CASE ~IsSandbox(cur[w]) /\ Goto(w, "undoMark")
      BY <1>9, <1>a, <1>e, <2>1, <3>3, KeepHands DEF Put, Label, Starting, Stopped, CustodyInv
    <3> QED
      BY <1>9, <3>1, <3>2, <3>3 DEF Put
  <2>3. KeepsStopped
    BY <1>9, <1>a, <1>c, <1>f, <2>0 DEF Put, KeepsStopped, Stopped, Starting, NoEntry, Record, Status
  <2>4. KeepsListed(w)
    BY <1>9, <1>a, <1>c, <1>e, GotoMoves, ReturnMoves, <2>0, PutListed DEF Put, KeepsListed, Responsible, Visible, Cached, Moves, Stopped, PlaceTypeOK, cacheVars, NoEntry, Record, Status
  <2>5. KeepsUnput(w)
    BY <1>9, <1>a, GotoMoves, ReturnMoves, <2>0, PutEffect DEF Put, KeepsUnput, Absent, Putting, Stopping, Cached, Moves, PlaceTypeOK, cacheVars, NoEntry, Record, Status
  <2> QED
    BY <1>a, <2>1, <2>2, <2>3, <2>4, <2>5, CustodyStep
<1>10. CASE UndoPut(w)
  <2>1. Local(w)
    BY <1>10, <1>a, <1>c, StopEffect DEF UndoPut, Local
  <2>2. HandsOn(w)
    BY <1>10, <1>a, <1>c, <2>1, KeepHands, StopEffect DEF UndoPut, Label, Starting, Stopped, CustodyInv
  <2>3. KeepsStopped
    BY <1>10, <1>a, <1>c, <1>f, StopEffect DEF UndoPut, KeepsStopped, Stopped, Starting
  <2>4. KeepsListed(w)
    BY <1>10, <1>a, <1>c, <1>e, GotoMoves, StopEffect DEF UndoPut, KeepsListed, Responsible, Visible, Cached, Moves, Stopped, PlaceTypeOK, cacheVars
  <2>5. KeepsUnput(w)
    BY <1>10, <1>a, GotoMoves, StopEffect DEF UndoPut, KeepsUnput, Absent, Putting, Stopping, Cached, Moves, PlaceTypeOK, cacheVars
  <2> QED
    BY <1>a, <2>1, <2>2, <2>3, <2>4, <2>5, CustodyStep
<1>11. CASE UndoMark(w)
  <2>1. Local(w)
    BY <1>11, <1>a, <1>c, SaveEffect DEF UndoMark, Local, NoEntry, Record, Status
  <2>2. HandsOn(w)
    BY <1>11, <1>a, <1>c, <2>1, ReturnHands, SaveEffect DEF UndoMark, Label, Starting, Stopped, CustodyInv, NoEntry, Record, Status
  <2>3. KeepsStopped
    BY <1>11, <1>a, <1>c, <1>f, SaveEffect DEF UndoMark, KeepsStopped, Stopped, Starting, NoEntry, Record, Status
  <2>4. KeepsListed(w)
    BY <1>11, <1>a, <1>c, <1>e, ReturnMoves, SaveEffect DEF UndoMark, KeepsListed, Responsible, Visible, Cached, Moves, Stopped, PlaceTypeOK, cacheVars, NoEntry, Record, Status
  <2>5. KeepsUnput(w)
    BY <1>11, <1>a, ReturnMoves, SaveEffect DEF UndoMark, KeepsUnput, Absent, Putting, Stopping, Cached, Moves, PlaceTypeOK, cacheVars, NoEntry, Record, Status
  <2> QED
    BY <1>a, <2>1, <2>2, <2>3, <2>4, <2>5, CustodyStep
<1>g. pc[w] \in Replacing => fresh[w] \in Attempt
  BY <1>a DEF ProcTypeOK
<1>12. CASE Find(w)
  <2>1. Local(w)
    BY <1>12, <1>a, <1>c DEF Find, Local
  <2>2. HandsOn(w)
    <3>1. CASE Begin(w, fresh[w])
      BY <1>12, <1>a, <1>d, <1>g, <3>1, BeginHands DEF Find, Replacing
    <3>2. CASE Goto(w, AfterFind(cur[w]))
      <4>1. AfterFind(cur[w]) \in Label /\ AfterFind(cur[w]) \notin Starting \cup Stopped
        BY <1>12, <1>a DEF Find, AfterFind, OpenInv, RecordsHaveRows, Cached, Label, Starting, Stopped
      <4> QED
        BY <1>12, <1>a, <2>1, <3>2, <4>1, KeepHands DEF Find, CustodyInv
    <3> QED
      BY <1>12, <3>1, <3>2 DEF Find
  <2>3. KeepsStopped
    BY <1>12, <1>a, <1>f DEF Find, KeepsStopped
  <2>4. KeepsListed(w)
    BY <1>12, <1>a DEF Find, KeepsListed, Responsible, Visible, Cached, cacheVars
  <2>5. KeepsUnput(w)
    <3>1. pc'[w] \notin {"undoRun", "put", "touchPut", "checkPut"}
      BY <1>12, <1>a, GotoMoves, BeginMoves DEF Find, Moves, AfterFind, OpenInv, RecordsHaveRows, Cached, ProcTypeOK, Begin
    <3> QED
      BY <1>12, <1>a, <3>1 DEF Find, KeepsUnput, Absent, Cached, cacheVars, Stopping
  <2> QED
    BY <1>a, <2>1, <2>2, <2>3, <2>4, <2>5, CustodyStep
<1>13. CASE Unindex(w)
  <2>1. Local(w)
    BY <1>13, <1>a, <1>c DEF Unindex, Local
  <2>2. HandsOn(w)
    BY <1>13, <1>a, <1>d, <1>g, BeginHands DEF Unindex, Replacing
  <2>3. KeepsStopped
    BY <1>13, <1>a, <1>f DEF Unindex, KeepsStopped
  <2>4. KeepsListed(w)
    BY <1>13, <1>a DEF Unindex, KeepsListed, Responsible, Visible, Cached
  <2>5. KeepsUnput(w)
    <3>1. pc'[w] \in {"run", "create"}
      BY <1>13, <1>a DEF Unindex, Begin, ProcTypeOK
    <3> QED
      BY <1>13, <1>a, <3>1 DEF Unindex, KeepsUnput, Absent, Cached, Stopping
  <2> QED
    BY <1>a, <2>1, <2>2, <2>3, <2>4, <2>5, CustodyStep
<1> QED
  BY <1>1, <1>2, <1>3, <1>4, <1>5, <1>6, <1>7, <1>8, <1>9, <1>10, <1>11, <1>12, <1>13 DEF StartStep

\* A step of Heartbeat, Check or GetWithPing keeps CustodyInv.
LEMMA CallStepCustody ==
    ASSUME TrueAnswers, TypeInv, TypeInv', OpenInv, OpenInv', CustodyInv,
           NEW w \in Worker, CallStep(w)
    PROVE  CustodyInv' /\ KeepsListed(w)
<1> USE DEF TypeInv, At, Up
<1>a. w \in Proc /\ (pc[w] # "idle" => cur[w] \in Attempt) /\ snap[w] \in Record
  BY DEF Proc, ProcTypeOK
<1>b. pc[w] \notin Unborn => db[cur[w]] # "none"
  BY <1>a DEF OpenInv
<1>c. /\ pc[w] \in Starting => db[cur[w]] = "none" /\ Own(w, cur[w])
      /\ pc[w] = "run" => IsSandbox(cur[w]) /\ box[cur[w]] = "none"
      /\ pc[w] \in Stopped => ~Up(cur[w])
  BY <1>a DEF CustodyInv, HandsInv, Own
<1>d. fresh[w] \in Attempt => /\ Own(w, fresh[w]) /\ cur[w] # fresh[w]
                             /\ db[fresh[w]] = "none" /\ box[fresh[w]] = "none"
  BY <1>a DEF CustodyInv, HandsInv, Own
<1>e. fresh[w] \in Attempt \cup {NoAttempt} /\ \A id \in Attempt : Up(id) => IsSandbox(id)
  BY <1>a DEF CustodyInv, HandsInv, ProcTypeOK
<1>f. \A id \in Attempt : db[id] = "terminated" => ~Up(id)
  BY DEF CustodyInv, TerminatedIsStopped
<1>1. CASE Touch(w)
  <2>1. Local(w)
    BY <1>1, <1>a, <1>c DEF Touch, Local, PlaceTypeOK, CacheTypeOK, NoEntry, Record, Status
  <2>2. HandsOn(w)
    BY <1>1, <1>a, <1>c, <2>1, KeepHands, ReturnHands DEF Touch, Label, Starting, Stopped, CustodyInv, PlaceTypeOK, CacheTypeOK, NoEntry, Record, Status
  <2>3. KeepsStopped
    BY <1>1, <1>a, <1>c, <1>f DEF Touch, KeepsStopped, Stopped, Starting, PlaceTypeOK, CacheTypeOK, NoEntry, Record, Status
  <2>4. KeepsListed(w)
    BY <1>1, <1>a, <1>c, <1>e, CopyMoves, ReturnMoves DEF Touch, KeepsListed, Responsible, Visible, Cached, Moves, Stopped, PlaceTypeOK, cacheVars, CacheTypeOK, NoEntry, Record, Status
  <2>5. KeepsUnput(w)
    BY <1>1, <1>a, CopyMoves, ReturnMoves DEF Touch, KeepsUnput, Absent, Putting, Stopping, Cached, Moves, PlaceTypeOK, cacheVars, CacheTypeOK, NoEntry, Record, Status
  <2> QED
    BY <1>a, <2>1, <2>2, <2>3, <2>4, <2>5, CustodyStep
<1>2. CASE TouchPut(w)
  <2>0. Touched(snap[w]) \in Record /\ Touched(snap[w]).status # "none"
    BY <1>2, <1>a DEF TouchPut, Touched, Record, OpenInv, Copying, Open
  <2>1. Local(w)
    BY <1>2, <1>a, <1>c, <2>0 DEF TouchPut, Local, NoEntry, Record, Status
  <2>2. HandsOn(w)
    BY <1>2, <1>a, <1>c, <2>1, ReturnHands DEF TouchPut, Label, Starting, Stopped, CustodyInv, NoEntry, Record, Status
  <2>3. KeepsStopped
    BY <1>2, <1>a, <1>c, <1>f, <2>0 DEF TouchPut, KeepsStopped, Stopped, Starting, NoEntry, Record, Status
  <2>4. KeepsListed(w)
    BY <1>2, <1>a, <1>c, <1>e, ReturnMoves, <2>0, PutListed DEF TouchPut, KeepsListed, Responsible, Visible, Cached, Moves, Stopped, PlaceTypeOK, cacheVars, NoEntry, Record, Status
  <2>5. KeepsUnput(w)
    BY <1>2, <1>a, ReturnMoves, <2>0, PutEffect DEF TouchPut, KeepsUnput, Absent, Putting, Stopping, Cached, Moves, PlaceTypeOK, cacheVars, NoEntry, Record, Status
  <2> QED
    BY <1>a, <2>1, <2>2, <2>3, <2>4, <2>5, CustodyStep
<1>3. CASE Judge(w)
  <2>1. Local(w)
    BY <1>3, <1>a, <1>c DEF Judge, Local, NoEntry, Record, Status
  <2>2. HandsOn(w)
    BY <1>3, <1>a, <1>c, <2>1, KeepHands, ReturnHands DEF Judge, Label, Starting, Stopped, CustodyInv, NoEntry, Record, Status
  <2>3. KeepsStopped
    BY <1>3, <1>a, <1>c, <1>f DEF Judge, KeepsStopped, Stopped, Starting, NoEntry, Record, Status
  <2>4. KeepsListed(w)
    BY <1>3, <1>a, <1>c, <1>e, CopyMoves, ReturnMoves DEF Judge, KeepsListed, Responsible, Visible, Cached, Moves, Stopped, PlaceTypeOK, cacheVars, NoEntry, Record, Status
  <2>5. KeepsUnput(w)
    BY <1>3, <1>a, CopyMoves, ReturnMoves DEF Judge, KeepsUnput, Absent, Putting, Stopping, Cached, Moves, PlaceTypeOK, cacheVars, NoEntry, Record, Status
  <2> QED
    BY <1>a, <2>1, <2>2, <2>3, <2>4, <2>5, CustodyStep
<1>4. CASE CheckMark(w)
  <2>0. snap[w].status \in Open
    BY <1>4, <1>a DEF CheckMark, OpenInv, Copying
  <2>1. Local(w)
    BY <1>4, <1>a, <1>c, <2>0, SaveEffect DEF CheckMark, Local, Open
  <2>2. HandsOn(w)
    BY <1>4, <1>a, <1>c, <2>1, KeepHands, SaveEffect DEF CheckMark, Label, Starting, Stopped, CustodyInv, Open
  <2>3. KeepsStopped
    BY <1>4, <1>a, <1>c, <1>f, <2>0, SaveEffect DEF CheckMark, KeepsStopped, Stopped, Starting, Open
  <2>4. KeepsListed(w)
    BY <1>4, <1>a, <1>c, <1>e, GotoMoves, <2>0, SaveEffect DEF CheckMark, KeepsListed, Responsible, Visible, Cached, Moves, Stopped, PlaceTypeOK, cacheVars, Open
  <2>5. KeepsUnput(w)
    BY <1>4, <1>a, GotoMoves, <2>0, SaveEffect DEF CheckMark, KeepsUnput, Absent, Putting, Stopping, Cached, Moves, PlaceTypeOK, cacheVars
  <2> QED
    BY <1>a, <2>1, <2>2, <2>3, <2>4, <2>5, CustodyStep
<1>5. CASE CheckSync(w)
  <2>1. Local(w)
    BY <1>5, <1>a, <1>c DEF CheckSync, Local, NoEntry, Record, Status
  <2>2. HandsOn(w)
    BY <1>5, <1>a, <1>c, <2>1, KeepHands, ReturnHands DEF CheckSync, Label, Starting, Stopped, CustodyInv, NoEntry, Record, Status
  <2>3. KeepsStopped
    BY <1>5, <1>a, <1>c, <1>f DEF CheckSync, KeepsStopped, Stopped, Starting, NoEntry, Record, Status
  <2>4. KeepsListed(w)
    BY <1>5, <1>a, <1>c, <1>e, GotoMoves, ReturnMoves DEF CheckSync, KeepsListed, Responsible, Visible, Cached, Moves, Stopped, PlaceTypeOK, cacheVars, NoEntry, Record, Status
  <2>5. KeepsUnput(w)
    BY <1>5, <1>a, GotoMoves, ReturnMoves DEF CheckSync, KeepsUnput, Absent, Putting, Stopping, Cached, Moves, PlaceTypeOK, cacheVars, NoEntry, Record, Status
  <2> QED
    BY <1>a, <2>1, <2>2, <2>3, <2>4, <2>5, CustodyStep
<1>6. CASE CheckPut(w)
  <2>0. snap[w] \in Record /\ snap[w].status # "none"
    BY <1>6, <1>a DEF CheckPut, OpenInv, Copying, Open
  <2>1. Local(w)
    BY <1>6, <1>a, <1>c, <2>0 DEF CheckPut, Local, NoEntry, Record, Status
  <2>2. HandsOn(w)
    BY <1>6, <1>a, <1>c, <2>1, ReturnHands DEF CheckPut, Label, Starting, Stopped, CustodyInv, NoEntry, Record, Status
  <2>3. KeepsStopped
    BY <1>6, <1>a, <1>c, <1>f, <2>0 DEF CheckPut, KeepsStopped, Stopped, Starting, NoEntry, Record, Status
  <2>4. KeepsListed(w)
    BY <1>6, <1>a, <1>c, <1>e, ReturnMoves, <2>0, PutListed DEF CheckPut, KeepsListed, Responsible, Visible, Cached, Moves, Stopped, PlaceTypeOK, cacheVars, NoEntry, Record, Status
  <2>5. KeepsUnput(w)
    BY <1>6, <1>a, ReturnMoves, <2>0, PutEffect DEF CheckPut, KeepsUnput, Absent, Putting, Stopping, Cached, Moves, PlaceTypeOK, cacheVars, NoEntry, Record, Status
  <2> QED
    BY <1>a, <2>1, <2>2, <2>3, <2>4, <2>5, CustodyStep
<1>7. CASE ProbePing(w)
  <2>1. Local(w)
    BY <1>7, <1>a, <1>c DEF ProbePing, Local, NoEntry, Record, Status
  <2>2. HandsOn(w)
    BY <1>7, <1>a, <1>c, <2>1, KeepHands, ReturnHands, PingEffect DEF ProbePing, Label, Starting, Stopped, CustodyInv, NoEntry, Record, Status
  <2>3. KeepsStopped
    BY <1>7, <1>a, <1>c, <1>f DEF ProbePing, KeepsStopped, Stopped, Starting, NoEntry, Record, Status
  <2>4. KeepsListed(w)
    BY <1>7, <1>a, <1>c, <1>e, GotoMoves, ReturnMoves DEF ProbePing, KeepsListed, Responsible, Visible, Cached, Moves, Stopped, PlaceTypeOK, cacheVars, NoEntry, Record, Status
  <2>5. KeepsUnput(w)
    BY <1>7, <1>a, GotoMoves, ReturnMoves DEF ProbePing, KeepsUnput, Absent, Putting, Stopping, Cached, Moves, PlaceTypeOK, cacheVars, NoEntry, Record, Status
  <2> QED
    BY <1>a, <2>1, <2>2, <2>3, <2>4, <2>5, CustodyStep
<1>8. CASE HealDelete(w)
  <2>1. Local(w)
    BY <1>8, <1>a, <1>c DEF HealDelete, Local, DeleteGet, DeleteGetFails, cacheVars, PlaceTypeOK, CacheTypeOK
  <2>2. HandsOn(w)
    BY <1>8, <1>a, <1>c, <2>1, KeepHands DEF HealDelete, Label, Starting, Stopped, CustodyInv, DeleteGet, DeleteGetFails, cacheVars, PlaceTypeOK, CacheTypeOK
  <2>3. KeepsStopped
    BY <1>8, <1>a, <1>c, <1>f DEF HealDelete, KeepsStopped, Stopped, Starting, DeleteGet, DeleteGetFails, cacheVars, PlaceTypeOK, CacheTypeOK
  <2>4. KeepsListed(w)
    BY <1>8, <1>a, <1>c, <1>e, GotoMoves, CopyMoves DEF HealDelete, KeepsListed, Responsible, Visible, Cached, Moves, Stopped, PlaceTypeOK, cacheVars, DeleteGet, DeleteGetFails, CacheTypeOK
  <2>5. KeepsUnput(w)
    BY <1>8, <1>a, GotoMoves, CopyMoves DEF HealDelete, KeepsUnput, Absent, Putting, Stopping, Cached, Moves, PlaceTypeOK, cacheVars, DeleteGet, DeleteGetFails, CacheTypeOK
  <2> QED
    BY <1>a, <2>1, <2>2, <2>3, <2>4, <2>5, CustodyStep
<1>9. CASE HealErase(w)
  <2>1. Local(w)
    BY <1>9, <1>a, <1>c DEF HealErase, Local, NoEntry, Record, Status
  <2>2. HandsOn(w)
    BY <1>9, <1>a, <1>c, <2>1, KeepHands DEF HealErase, Label, Starting, Stopped, CustodyInv, EraseOK, EraseFails, EraseCur, NoEntry, Record, Status
  <2>3. KeepsStopped
    BY <1>9, <1>a, <1>c, <1>f DEF HealErase, KeepsStopped, Stopped, Starting, NoEntry, Record, Status
  <2>4. KeepsListed(w)
    BY <1>9, <1>a, <1>c, <1>e, CopyMoves, EraseListed DEF HealErase, KeepsListed, Responsible, Visible, Cached, Moves, Stopped, PlaceTypeOK, cacheVars, EraseOK, EraseFails, EraseCur, NoEntry, Record, Status
  <2>5. KeepsUnput(w)
    BY <1>9, <1>a, CopyMoves, EraseEffect DEF HealErase, KeepsUnput, Absent, Putting, Stopping, Cached, Moves, PlaceTypeOK, cacheVars, EraseOK, EraseFails, EraseCur, NoEntry, Record, Status
  <2> QED
    BY <1>a, <2>1, <2>2, <2>3, <2>4, <2>5, CustodyStep
<1>10. CASE HealMark(w)
  <2>1. Local(w)
    BY <1>10, <1>a, <1>c, SaveEffect DEF HealMark, Local, NoEntry, Record, Status
  <2>2. HandsOn(w)
    BY <1>10, <1>a, <1>c, <2>1, ReturnHands, SaveEffect DEF HealMark, Label, Starting, Stopped, CustodyInv, NoEntry, Record, Status
  <2>3. KeepsStopped
    BY <1>10, <1>a, <1>c, <1>f, SaveEffect DEF HealMark, KeepsStopped, Stopped, Starting, NoEntry, Record, Status
  <2>4. KeepsListed(w)
    BY <1>10, <1>a, <1>c, <1>e, ReturnMoves, SaveEffect DEF HealMark, KeepsListed, Responsible, Visible, Cached, Moves, Stopped, PlaceTypeOK, cacheVars, NoEntry, Record, Status
  <2>5. KeepsUnput(w)
    BY <1>10, <1>a, ReturnMoves, SaveEffect DEF HealMark, KeepsUnput, Absent, Putting, Stopping, Cached, Moves, PlaceTypeOK, cacheVars, NoEntry, Record, Status
  <2> QED
    BY <1>a, <2>1, <2>2, <2>3, <2>4, <2>5, CustodyStep
<1> QED
  BY <1>1, <1>2, <1>3, <1>4, <1>5, <1>6, <1>7, <1>8, <1>9, <1>10 DEF CallStep

\* A step of Terminate keeps CustodyInv.
LEMMA TermStepCustody ==
    ASSUME TrueAnswers, TypeInv, TypeInv', OpenInv, OpenInv', CustodyInv,
           NEW p \in Proc, TermStep(p)
    PROVE  CustodyInv' /\ KeepsListed(p)
<1> USE DEF TypeInv, At, Up
<1>a. p \in Proc /\ (pc[p] # "idle" => cur[p] \in Attempt) /\ snap[p] \in Record
  BY DEF Proc, ProcTypeOK
<1>b. pc[p] \notin Unborn => db[cur[p]] # "none"
  BY <1>a DEF OpenInv
<1>c. /\ pc[p] \in Starting => db[cur[p]] = "none" /\ Own(p, cur[p])
      /\ pc[p] = "run" => IsSandbox(cur[p]) /\ box[cur[p]] = "none"
      /\ pc[p] \in Stopped => ~Up(cur[p])
  BY <1>a DEF CustodyInv, HandsInv, Own
<1>d. fresh[p] \in Attempt => /\ Own(p, fresh[p]) /\ cur[p] # fresh[p]
                             /\ db[fresh[p]] = "none" /\ box[fresh[p]] = "none"
  BY <1>a DEF CustodyInv, HandsInv, Own
<1>e. fresh[p] \in Attempt \cup {NoAttempt} /\ \A id \in Attempt : Up(id) => IsSandbox(id)
  BY <1>a DEF CustodyInv, HandsInv, ProcTypeOK
<1>f. \A id \in Attempt : db[id] = "terminated" => ~Up(id)
  BY DEF CustodyInv, TerminatedIsStopped
<1>1. CASE Terminate(p)
  <2>1. Local(p)
    BY <1>1, <1>a, <1>c DEF Terminate, Local, NoEntry, Record, Status
  <2>2. HandsOn(p)
    <3>1. CASE Return(p)
      BY <1>a, <3>1, ReturnHands
    <3>2. CASE IsSandbox(cur[p]) /\ Goto(p, "termStop")
      BY <1>1, <1>a, <2>1, <3>2, KeepHands DEF Terminate, Label, Starting, Stopped, CustodyInv
    <3>3. CASE ~IsSandbox(cur[p]) /\ Goto(p, "termMark")
      BY <1>1, <1>a, <1>e, <2>1, <3>3, KeepHands DEF Terminate, Label, Starting, Stopped, CustodyInv
    <3> QED
      BY <1>1, <3>1, <3>2, <3>3 DEF Terminate
  <2>3. KeepsStopped
    BY <1>1, <1>a, <1>c, <1>f DEF Terminate, KeepsStopped, Stopped, Starting, NoEntry, Record, Status
  <2>4. KeepsListed(p)
    BY <1>1, <1>a, <1>c, <1>e, GotoMoves, ReturnMoves DEF Terminate, KeepsListed, Responsible, Visible, Cached, Moves, Stopped, PlaceTypeOK, cacheVars, NoEntry, Record, Status
  <2>5. KeepsUnput(p)
    BY <1>1, <1>a, GotoMoves, ReturnMoves DEF Terminate, KeepsUnput, Absent, Putting, Stopping, Cached, Moves, PlaceTypeOK, cacheVars, NoEntry, Record, Status
  <2> QED
    BY <1>a, <2>1, <2>2, <2>3, <2>4, <2>5, CustodyStep
<1>2. CASE TermStop(p)
  <2>1. Local(p)
    BY <1>2, <1>a, <1>c, StopEffect DEF TermStop, Local
  <2>2. HandsOn(p)
    BY <1>2, <1>a, <1>c, <2>1, KeepHands, StopEffect DEF TermStop, Label, Starting, Stopped, CustodyInv
  <2>3. KeepsStopped
    BY <1>2, <1>a, <1>c, <1>f, StopEffect DEF TermStop, KeepsStopped, Stopped, Starting
  <2>4. KeepsListed(p)
    BY <1>2, <1>a, <1>c, <1>e, GotoMoves, StopEffect DEF TermStop, KeepsListed, Responsible, Visible, Cached, Moves, Stopped, PlaceTypeOK, cacheVars
  <2>5. KeepsUnput(p)
    BY <1>2, <1>a, GotoMoves, StopEffect DEF TermStop, KeepsUnput, Absent, Putting, Stopping, Cached, Moves, PlaceTypeOK, cacheVars
  <2> QED
    BY <1>a, <2>1, <2>2, <2>3, <2>4, <2>5, CustodyStep
<1>3. CASE TermMark(p)
  <2>1. Local(p)
    BY <1>3, <1>a, <1>c, SaveEffect DEF TermMark, Local, NoEntry, Record, Status
  <2>2. HandsOn(p)
    BY <1>3, <1>a, <1>c, <2>1, KeepHands, ReturnHands, SaveEffect DEF TermMark, Label, Starting, Stopped, CustodyInv, NoEntry, Record, Status
  <2>3. KeepsStopped
    BY <1>3, <1>a, <1>c, <1>f, SaveEffect DEF TermMark, KeepsStopped, Stopped, Starting, NoEntry, Record, Status
  <2>4. KeepsListed(p)
    BY <1>3, <1>a, <1>c, <1>e, GotoMoves, ReturnMoves, SaveEffect DEF TermMark, KeepsListed, Responsible, Visible, Cached, Moves, Stopped, PlaceTypeOK, cacheVars, NoEntry, Record, Status
  <2>5. KeepsUnput(p)
    BY <1>3, <1>a, GotoMoves, ReturnMoves, SaveEffect DEF TermMark, KeepsUnput, Absent, Putting, Stopping, Cached, Moves, PlaceTypeOK, cacheVars, NoEntry, Record, Status
  <2> QED
    BY <1>a, <2>1, <2>2, <2>3, <2>4, <2>5, CustodyStep
<1>4. CASE TermDelete(p)
  <2>1. Local(p)
    BY <1>4, <1>a, <1>c DEF TermDelete, Local, DeleteGet, DeleteGetFails, cacheVars, PlaceTypeOK, CacheTypeOK, NoEntry, Record, Status
  <2>2. HandsOn(p)
    BY <1>4, <1>a, <1>c, <2>1, KeepHands, ReturnHands DEF TermDelete, Label, Starting, Stopped, CustodyInv, DeleteGet, DeleteGetFails, cacheVars, PlaceTypeOK, CacheTypeOK, NoEntry, Record, Status
  <2>3. KeepsStopped
    BY <1>4, <1>a, <1>c, <1>f DEF TermDelete, KeepsStopped, Stopped, Starting, DeleteGet, DeleteGetFails, cacheVars, PlaceTypeOK, CacheTypeOK, NoEntry, Record, Status
  <2>4. KeepsListed(p)
    BY <1>4, <1>a, <1>c, <1>e, CopyMoves, ReturnMoves DEF TermDelete, KeepsListed, Responsible, Visible, Cached, Moves, Stopped, PlaceTypeOK, cacheVars, DeleteGet, DeleteGetFails, CacheTypeOK, NoEntry, Record, Status
  <2>5. KeepsUnput(p)
    BY <1>4, <1>a, CopyMoves, ReturnMoves DEF TermDelete, KeepsUnput, Absent, Putting, Stopping, Cached, Moves, PlaceTypeOK, cacheVars, DeleteGet, DeleteGetFails, CacheTypeOK, NoEntry, Record, Status
  <2> QED
    BY <1>a, <2>1, <2>2, <2>3, <2>4, <2>5, CustodyStep
<1>5. CASE TermErase(p)
  <2>1. Local(p)
    BY <1>5, <1>a, <1>c DEF TermErase, Local, NoEntry, Record, Status
  <2>2. HandsOn(p)
    BY <1>5, <1>a, <1>c, <2>1, ReturnHands DEF TermErase, Label, Starting, Stopped, CustodyInv, EraseOK, EraseFails, EraseCur, NoEntry, Record, Status
  <2>3. KeepsStopped
    BY <1>5, <1>a, <1>c, <1>f DEF TermErase, KeepsStopped, Stopped, Starting, NoEntry, Record, Status
  <2>4. KeepsListed(p)
    BY <1>5, <1>a, <1>c, <1>e, ReturnMoves, EraseListed DEF TermErase, KeepsListed, Responsible, Visible, Cached, Moves, Stopped, PlaceTypeOK, cacheVars, EraseOK, EraseFails, EraseCur, NoEntry, Record, Status
  <2>5. KeepsUnput(p)
    BY <1>5, <1>a, ReturnMoves, EraseEffect DEF TermErase, KeepsUnput, Absent, Putting, Stopping, Cached, Moves, PlaceTypeOK, cacheVars, EraseOK, EraseFails, EraseCur, NoEntry, Record, Status
  <2> QED
    BY <1>a, <2>1, <2>2, <2>3, <2>4, <2>5, CustodyStep
<1> QED
  BY <1>1, <1>2, <1>3, <1>4, <1>5 DEF TermStep

\* The steps of the collector on the attempt in hand.
Collects ==
    \/ \E id \in Attempt : Visit(id)
    \/ StaleGet \/ StaleDelete \/ StaleErase \/ StaleMark
    \/ CleanupPassed \/ CleanStop \/ CleanDelete \/ CleanErase

\* Such a step keeps CustodyInv.
LEMMA CollectsCustody ==
    ASSUME TrueAnswers, TypeInv, TypeInv', OpenInv, OpenInv', CustodyInv,
           Collects
    PROVE  CustodyInv' /\ KeepsListed(GC)
<1> USE DEF TypeInv, At, Up
<1>a. GC \in Proc /\ (pc[GC] # "idle" => cur[GC] \in Attempt) /\ snap[GC] \in Record
  BY DEF Proc, ProcTypeOK
<1>b. pc[GC] \notin Unborn => db[cur[GC]] # "none"
  BY <1>a DEF OpenInv
<1>c. /\ pc[GC] \in Starting => db[cur[GC]] = "none" /\ Own(GC, cur[GC])
      /\ pc[GC] = "run" => IsSandbox(cur[GC]) /\ box[cur[GC]] = "none"
      /\ pc[GC] \in Stopped => ~Up(cur[GC])
  BY <1>a DEF CustodyInv, HandsInv, Own
<1>d. fresh[GC] \in Attempt => /\ Own(GC, fresh[GC]) /\ cur[GC] # fresh[GC]
                             /\ db[fresh[GC]] = "none" /\ box[fresh[GC]] = "none"
  BY <1>a DEF CustodyInv, HandsInv, Own
<1>e. fresh[GC] \in Attempt \cup {NoAttempt} /\ \A id \in Attempt : Up(id) => IsSandbox(id)
  BY <1>a DEF CustodyInv, HandsInv, ProcTypeOK
<1>f. \A id \in Attempt : db[id] = "terminated" => ~Up(id)
  BY DEF CustodyInv, TerminatedIsStopped
<1>1. CASE StaleGet
  <2>1. Local(GC)
    BY <1>1, <1>a, <1>c DEF StaleGet, Local, NoEntry, Record, Status
  <2>2. HandsOn(GC)
    BY <1>1, <1>a, <1>c, <2>1, KeepHands, ReturnHands DEF StaleGet, Label, Starting, Stopped, CustodyInv, NoEntry, Record, Status
  <2>3. KeepsStopped
    BY <1>1, <1>a, <1>c, <1>f DEF StaleGet, KeepsStopped, Stopped, Starting, NoEntry, Record, Status
  <2>4. KeepsListed(GC)
    BY <1>1, <1>a, <1>c, <1>e, GotoMoves, ReturnMoves DEF StaleGet, KeepsListed, Responsible, Visible, Cached, Moves, Stopped, PlaceTypeOK, cacheVars, NoEntry, Record, Status
  <2>5. KeepsUnput(GC)
    BY <1>1, <1>a, GotoMoves, ReturnMoves DEF StaleGet, KeepsUnput, Absent, Putting, Stopping, Cached, Moves, PlaceTypeOK, cacheVars, NoEntry, Record, Status
  <2> QED
    BY <1>a, <2>1, <2>2, <2>3, <2>4, <2>5, CustodyStep
<1>2. CASE StaleDelete
  <2>1. Local(GC)
    BY <1>2, <1>a, <1>c DEF StaleDelete, Local, DeleteGet, DeleteGetFails, cacheVars, PlaceTypeOK, CacheTypeOK, NoEntry, Record, Status
  <2>2. HandsOn(GC)
    BY <1>2, <1>a, <1>c, <2>1, KeepHands, ReturnHands DEF StaleDelete, Label, Starting, Stopped, CustodyInv, DeleteGet, DeleteGetFails, cacheVars, PlaceTypeOK, CacheTypeOK, NoEntry, Record, Status
  <2>3. KeepsStopped
    BY <1>2, <1>a, <1>c, <1>f DEF StaleDelete, KeepsStopped, Stopped, Starting, DeleteGet, DeleteGetFails, cacheVars, PlaceTypeOK, CacheTypeOK, NoEntry, Record, Status
  <2>4. KeepsListed(GC)
    BY <1>2, <1>a, <1>c, <1>e, CopyMoves, ReturnMoves DEF StaleDelete, KeepsListed, Responsible, Visible, Cached, Moves, Stopped, PlaceTypeOK, cacheVars, DeleteGet, DeleteGetFails, CacheTypeOK, NoEntry, Record, Status
  <2>5. KeepsUnput(GC)
    BY <1>2, <1>a, CopyMoves, ReturnMoves DEF StaleDelete, KeepsUnput, Absent, Putting, Stopping, Cached, Moves, PlaceTypeOK, cacheVars, DeleteGet, DeleteGetFails, CacheTypeOK, NoEntry, Record, Status
  <2> QED
    BY <1>a, <2>1, <2>2, <2>3, <2>4, <2>5, CustodyStep
<1>3. CASE StaleErase
  <2>1. Local(GC)
    BY <1>3, <1>a, <1>c DEF StaleErase, Local, NoEntry, Record, Status
  <2>2. HandsOn(GC)
    BY <1>3, <1>a, <1>c, <2>1, KeepHands, ReturnHands DEF StaleErase, Label, Starting, Stopped, CustodyInv, EraseOK, EraseFails, EraseCur, NoEntry, Record, Status
  <2>3. KeepsStopped
    BY <1>3, <1>a, <1>c, <1>f DEF StaleErase, KeepsStopped, Stopped, Starting, NoEntry, Record, Status
  <2>4. KeepsListed(GC)
    BY <1>3, <1>a, <1>c, <1>e, CopyMoves, ReturnMoves, EraseListed DEF StaleErase, KeepsListed, Responsible, Visible, Cached, Moves, Stopped, PlaceTypeOK, cacheVars, EraseOK, EraseFails, EraseCur, NoEntry, Record, Status
  <2>5. KeepsUnput(GC)
    BY <1>3, <1>a, CopyMoves, ReturnMoves, EraseEffect DEF StaleErase, KeepsUnput, Absent, Putting, Stopping, Cached, Moves, PlaceTypeOK, cacheVars, EraseOK, EraseFails, EraseCur, NoEntry, Record, Status
  <2> QED
    BY <1>a, <2>1, <2>2, <2>3, <2>4, <2>5, CustodyStep
<1>4. CASE StaleMark
  <2>1. Local(GC)
    BY <1>4, <1>a, <1>c, SaveEffect DEF StaleMark, Local, NoEntry, Record, Status
  <2>2. HandsOn(GC)
    BY <1>4, <1>a, <1>c, <2>1, ReturnHands, SaveEffect DEF StaleMark, Label, Starting, Stopped, CustodyInv, NoEntry, Record, Status
  <2>3. KeepsStopped
    BY <1>4, <1>a, <1>c, <1>f, SaveEffect DEF StaleMark, KeepsStopped, Stopped, Starting, NoEntry, Record, Status
  <2>4. KeepsListed(GC)
    BY <1>4, <1>a, <1>c, <1>e, ReturnMoves, SaveEffect DEF StaleMark, KeepsListed, Responsible, Visible, Cached, Moves, Stopped, PlaceTypeOK, cacheVars, NoEntry, Record, Status
  <2>5. KeepsUnput(GC)
    BY <1>4, <1>a, ReturnMoves, SaveEffect DEF StaleMark, KeepsUnput, Absent, Putting, Stopping, Cached, Moves, PlaceTypeOK, cacheVars, NoEntry, Record, Status
  <2> QED
    BY <1>a, <2>1, <2>2, <2>3, <2>4, <2>5, CustodyStep
<1>5. CASE CleanupPassed
  <2>1. Local(GC)
    BY <1>5, <1>a, <1>c DEF CleanupPassed, Local, NoEntry, Record, Status
  <2>2. HandsOn(GC)
    <3>1. CASE Return(GC)
      BY <1>a, <3>1, ReturnHands
    <3>2. CASE IsSandbox(cur[GC]) /\ Goto(GC, "cleanStop")
      BY <1>5, <1>a, <2>1, <3>2, KeepHands DEF CleanupPassed, Label, Starting, Stopped, CustodyInv
    <3>3. CASE ~IsSandbox(cur[GC]) /\ Goto(GC, "cleanDelete")
      BY <1>5, <1>a, <1>e, <2>1, <3>3, KeepHands DEF CleanupPassed, Label, Starting, Stopped, CustodyInv
    <3> QED
      BY <1>5, <3>1, <3>2, <3>3 DEF CleanupPassed
  <2>3. KeepsStopped
    BY <1>5, <1>a, <1>c, <1>f DEF CleanupPassed, KeepsStopped, Stopped, Starting, NoEntry, Record, Status
  <2>4. KeepsListed(GC)
    BY <1>5, <1>a, <1>c, <1>e, GotoMoves, ReturnMoves DEF CleanupPassed, KeepsListed, Responsible, Visible, Cached, Moves, Stopped, PlaceTypeOK, cacheVars, NoEntry, Record, Status
  <2>5. KeepsUnput(GC)
    BY <1>5, <1>a, GotoMoves, ReturnMoves DEF CleanupPassed, KeepsUnput, Absent, Putting, Stopping, Cached, Moves, PlaceTypeOK, cacheVars, NoEntry, Record, Status
  <2> QED
    BY <1>a, <2>1, <2>2, <2>3, <2>4, <2>5, CustodyStep
<1>6. CASE CleanStop
  <2>1. Local(GC)
    BY <1>6, <1>a, <1>c, StopEffect DEF CleanStop, Local
  <2>2. HandsOn(GC)
    BY <1>6, <1>a, <1>c, <2>1, KeepHands, StopEffect DEF CleanStop, Label, Starting, Stopped, CustodyInv
  <2>3. KeepsStopped
    BY <1>6, <1>a, <1>c, <1>f, StopEffect DEF CleanStop, KeepsStopped, Stopped, Starting
  <2>4. KeepsListed(GC)
    BY <1>6, <1>a, <1>c, <1>e, GotoMoves, StopEffect DEF CleanStop, KeepsListed, Responsible, Visible, Cached, Moves, Stopped, PlaceTypeOK, cacheVars
  <2>5. KeepsUnput(GC)
    BY <1>6, <1>a, GotoMoves, StopEffect DEF CleanStop, KeepsUnput, Absent, Putting, Stopping, Cached, Moves, PlaceTypeOK, cacheVars
  <2> QED
    BY <1>a, <2>1, <2>2, <2>3, <2>4, <2>5, CustodyStep
<1>7. CASE CleanDelete
  <2>1. Local(GC)
    BY <1>7, <1>a, <1>c DEF CleanDelete, Local, DeleteGet, DeleteGetFails, cacheVars, PlaceTypeOK, CacheTypeOK, NoEntry, Record, Status
  <2>2. HandsOn(GC)
    BY <1>7, <1>a, <1>c, <2>1, KeepHands, ReturnHands DEF CleanDelete, Label, Starting, Stopped, CustodyInv, DeleteGet, DeleteGetFails, cacheVars, PlaceTypeOK, CacheTypeOK, NoEntry, Record, Status
  <2>3. KeepsStopped
    BY <1>7, <1>a, <1>c, <1>f DEF CleanDelete, KeepsStopped, Stopped, Starting, DeleteGet, DeleteGetFails, cacheVars, PlaceTypeOK, CacheTypeOK, NoEntry, Record, Status
  <2>4. KeepsListed(GC)
    BY <1>7, <1>a, <1>c, <1>e, CopyMoves, ReturnMoves DEF CleanDelete, KeepsListed, Responsible, Visible, Cached, Moves, Stopped, PlaceTypeOK, cacheVars, DeleteGet, DeleteGetFails, CacheTypeOK, NoEntry, Record, Status
  <2>5. KeepsUnput(GC)
    BY <1>7, <1>a, CopyMoves, ReturnMoves DEF CleanDelete, KeepsUnput, Absent, Putting, Stopping, Cached, Moves, PlaceTypeOK, cacheVars, DeleteGet, DeleteGetFails, CacheTypeOK, NoEntry, Record, Status
  <2> QED
    BY <1>a, <2>1, <2>2, <2>3, <2>4, <2>5, CustodyStep
<1>8. CASE CleanErase
  <2>1. Local(GC)
    BY <1>8, <1>a, <1>c DEF CleanErase, Local, NoEntry, Record, Status
  <2>2. HandsOn(GC)
    BY <1>8, <1>a, <1>c, <2>1, ReturnHands DEF CleanErase, Label, Starting, Stopped, CustodyInv, EraseOK, EraseFails, EraseCur, NoEntry, Record, Status
  <2>3. KeepsStopped
    BY <1>8, <1>a, <1>c, <1>f DEF CleanErase, KeepsStopped, Stopped, Starting, NoEntry, Record, Status
  <2>4. KeepsListed(GC)
    BY <1>8, <1>a, <1>c, <1>e, ReturnMoves, EraseListed DEF CleanErase, KeepsListed, Responsible, Visible, Cached, Moves, Stopped, PlaceTypeOK, cacheVars, EraseOK, EraseFails, EraseCur, NoEntry, Record, Status
  <2>5. KeepsUnput(GC)
    BY <1>8, <1>a, ReturnMoves, EraseEffect DEF CleanErase, KeepsUnput, Absent, Putting, Stopping, Cached, Moves, PlaceTypeOK, cacheVars, EraseOK, EraseFails, EraseCur, NoEntry, Record, Status
  <2> QED
    BY <1>a, <2>1, <2>2, <2>3, <2>4, <2>5, CustodyStep
<1>9. CASE \E id \in Attempt : Visit(id)
  <2> PICK id \in Attempt : Visit(id)
    BY <1>9
  <2>1. db[id] # "none" /\ pc[GC] = "idle"
    BY DEF Visit, Unvisited, OpenInv
  <2>2. UNCHANGED <<cacheVars, db, box, booting>>
    BY DEF Visit
  <2>3. \A i \in Attempt : (Visible(i) => Visible(i)') /\ (Absent(i) => Absent(i)')
    BY <2>2 DEF Visible, Absent, Cached, cacheVars
  <2>8. \A i \in Attempt : batch'[i] \in {batch[i], NoEntry}
    BY DEF Visit, PlaceTypeOK
  <2>4. CASE UNCHANGED procVars
    <3>1. CustodyInv'
      BY <2>2, <2>3, <2>4, <2>8, NothingMoves DEF NoEntry, Missing
    <3>2. KeepsListed(GC)
      BY <2>1, <2>2, <2>3, <2>4 DEF KeepsListed, Responsible, procVars
    <3> QED
      BY <3>1, <3>2
  <2>5. ASSUME NEW label \in {"staleGet", "terminate", "cleanup"}, Take(GC, id, label),
               label = "staleGet" => box[id] # "up"
        PROVE  CustodyInv' /\ KeepsListed(GC)
    <3>1. Local(GC)
      BY <2>2 DEF Local
    <3>2. HandsOn(GC)
      BY <1>a, <2>1, <2>2, <2>5, <3>1, TakeHands DEF Label, Starting, Stopped, CustodyInv
    <3>3. KeepsStopped
      BY <2>2 DEF KeepsStopped
    <3>4. KeepsListed(GC)
      BY <2>1, <2>2, <2>3 DEF KeepsListed, Responsible
    <3>5. KeepsUnput(GC)
      BY <1>a, <2>1, <2>3, <2>5, <2>8, TakeMoves DEF KeepsUnput, Moves, Stopping
    <3> QED
      BY <1>a, <3>1, <3>2, <3>3, <3>4, <3>5, CustodyStep
  <2>6. CASE PingFails(id) /\ Take(GC, id, "staleGet")
    <3>1. box[id] # "up"
      BY <2>6, PingEffect
    <3> QED
      BY <2>5, <2>6, <3>1
  <2>7. CASE Take(GC, id, "terminate") \/ Take(GC, id, "cleanup")
    BY <2>5, <2>7
  <2> QED
    BY <2>4, <2>6, <2>7 DEF Visit
<1> QED
  BY <1>1, <1>2, <1>3, <1>4, <1>5, <1>6, <1>7, <1>8, <1>9 DEF Collects

\* So does every other step of the collector.
LEMMA GCStepCustody ==
    ASSUME TrueAnswers, TypeInv, TypeInv', OpenInv, OpenInv', CustodyInv,
           GCStep
    PROVE  CustodyInv'
<1> USE DEF TypeInv
<1>1. CASE Tick
  <2>1. \A id \in Attempt : (Visible(id) => Visible(id)') /\ (Absent(id) => Absent(id)')
    BY <1>1 DEF Tick, cacheVars, Visible, Absent, Cached
  <2>2. \A id \in Attempt : batch'[id].status # "none" => ~booting /\ ~Absent(id)
    BY <1>1 DEF Tick, Absent, NoEntry, Listed
  <2>4. \A id \in Attempt : batch'[id] # Missing
    BY <1>1 DEF Tick, NoEntry, Listed, Missing
  <2>3. UNCHANGED <<db, box, procVars, booting>>
    BY <1>1 DEF Tick
  <2> QED
    BY <2>1, <2>2, <2>3, <2>4, NothingMoves
<1>2. CASE ReadListed
  <2>1. \A id \in Attempt : (Visible(id) => Visible(id)') /\ (Absent(id) => Absent(id)')
    BY <1>2 DEF ReadListed, cacheVars, Visible, Absent, Cached
  <2>2. \A id \in Attempt : batch'[id].status # "none" => batch[id] = Listed
    BY <1>2 DEF ReadListed, NoEntry
  <2>3. ASSUME NEW id \in Attempt, batch'[id] = Missing, Up(id)
        PROVE  \E p \in Proc : cur[p] = id /\ pc[p] \in Stopping
    <3>1. batch[id] = Listed /\ batch[id].status # "none" /\ ~Cached(id)
      <4>1. batch[id] = Listed /\ batch[id].status # "none"
        BY <2>2, <2>3 DEF Missing, Listed
      <4>2. batch'[id] # NoEntry
        BY <2>3 DEF Missing, NoEntry
      <4>3. Found(id) = Missing
        BY <1>2, <2>3, <4>1, <4>2 DEF ReadListed
      <4>4. main[id] # Missing
        BY DEF Missing, PlaceTypeOK, CacheTypeOK, Record, Status
      <4> QED
        BY <4>1, <4>3, <4>4 DEF Found
    <3>2. PICK p \in Proc : Responsible(p, id)
      BY <2>3, <3>1 DEF CustodyInv, NoOrphanBox, PruneInv, InHand, Visible
    <3>3. pc[p] \notin Unput
      BY <3>1, <3>2 DEF CustodyInv, UnputInv, Responsible
    <3> QED
      BY <3>2, <3>3 DEF Responsible, Unput, Starting, Stopping
  <2> QED
    BY <1>2, <2>1, <2>2, <2>3, NothingMoves DEF ReadListed, Listed
<1>3. CASE \E id \in Attempt : Prune(id)
  <2> PICK id \in Attempt : Prune(id)
    BY <1>3
  <2>1. \A i \in Attempt : Absent(i) => Absent(i)'
    BY DEF Prune, Absent, Cached
  <2>2. \A i \in Attempt : i # id => (Visible(i) => Visible(i)')
    BY DEF Prune, Visible, Cached
  <2>3. Up(id) => InHand(id)
    BY DEF Prune, CustodyInv, PruneInv, Stopping, InHand, Responsible
  <2>4. \A i \in Attempt : batch'[i] \in {batch[i], NoEntry}
    BY DEF Prune, PlaceTypeOK
  <2> QED
    BY <2>1, <2>2, <2>3, <2>4, NothingMoves DEF Prune, NoEntry, Missing
<1>4. CASE TermStep(GC)
  BY <1>4, TermStepCustody DEF Proc
<1>5. CASE Collects
  BY <1>5, CollectsCustody
<1> QED
  BY <1>1, <1>2, <1>3, <1>4, <1>5 DEF GCStep, Collects

\* The first round trip of a request keeps CustodyInv.
LEMMA RequestCustody ==
    ASSUME TypeInv, TypeInv', OpenInv, OpenInv', CustodyInv,
           NEW w \in Worker, Request(w)
    PROVE  CustodyInv' /\ KeepsListed(w)
<1> USE DEF TypeInv, At, Up
<1> PICK id \in Attempt : \/ Start(w, id) \/ Heartbeat(w, id) \/ Check(w, id)
                         \/ Probe(w, id) \/ GiveUp(w, id)
  BY DEF Request
<1>a. w \in Proc /\ pc[w] = "idle"
  BY DEF Proc, Start, Heartbeat, Check, Probe, GiveUp
<1>b. \A i \in Attempt : Cached(i) => db[i] # "none"
  BY DEF OpenInv, RecordsHaveRows
<1>c. UNCHANGED <<main, active, db, box, batch, booting>>
  BY DEF Start, Heartbeat, Check, Probe, GiveUp, cacheVars
<1>d. Local(w) /\ KeepsStopped
  BY <1>c DEF Local, KeepsStopped
<1>e. KeepsListed(w)
  <2>1. \A i \in Attempt : Visible(i) => Visible(i)'
    BY <1>c DEF Visible, Cached
  <2> QED
    BY <1>a, <1>c, <2>1 DEF KeepsListed, Responsible
<1>f. ASSUME HandsOn(w), pc'[w] \notin {"undoRun", "put", "touchPut", "checkPut"}
      PROVE  CustodyInv' /\ KeepsListed(w)
  <2>1. KeepsUnput(w)
    BY <1>a, <1>c, <1>f DEF KeepsUnput, Absent, Cached, Stopping
  <2> QED
    BY <1>a, <1>d, <1>e, <1>f, <2>1, CustodyStep
<1>g. ASSUME NEW label \in {"touch", "judge", "probe", "terminate"}, Take(w, id, label),
             db[id] # "none"
      PROVE  CustodyInv' /\ KeepsListed(w)
  <2>1. HandsOn(w)
    BY <1>a, <1>d, <1>g, TakeHands DEF Label, Starting, Stopped, CustodyInv
  <2> QED
    BY <1>a, <1>f, <1>g, <2>1, TakeMoves DEF Moves
<1>1. CASE Start(w, id)
  <2> DEFINE old == owner[OwnerOf[id]]
  <2>1. Own(w, id) /\ db'[id] = "none" /\ box'[id] = "none" /\ db[id] = "none"
    BY <1>1, <1>c DEF Start, Unissued, Own
  <2>2. CASE Begin(w, id)
    <3>1. pc'[w] \in {"run", "create"}
      BY <1>a, <2>2 DEF Begin, ProcTypeOK
    <3> QED
      BY <1>a, <1>f, <2>1, <2>2, <3>1, BeginHands
  <2>3. CASE /\ old # NoAttempt
             /\ pc' = [pc EXCEPT ![w] = "find"]
             /\ cur' = [cur EXCEPT ![w] = old]
             /\ fresh' = [fresh EXCEPT ![w] = id]
             /\ UNCHANGED snap
    <3>1. old \in Attempt /\ db[old] # "none"
      BY <2>3, OwnerOfAssumption DEF PlaceTypeOK, CacheTypeOK, OpenInv
    <3>2. Moves(w, "find", old, snap[w], id)
      BY <1>a, <2>3 DEF Moves, ProcTypeOK
    <3>3. "find" \in Label \ (Starting \cup Stopped) /\ snap[w] \in Record
      BY <1>a DEF Label, Starting, Stopped, ProcTypeOK
    <3> HIDE DEF old
    <3>4. HandsOn(w)
      BY <2>1, <3>1, <3>2, <3>3 DEF HandsOn, Starting
    <3> QED
      BY <1>f, <3>2, <3>4 DEF Moves
  <2> QED
    BY <1>1, <2>2, <2>3 DEF Start
<1>2. CASE Heartbeat(w, id)
  BY <1>2, <1>b, <1>g DEF Heartbeat, GetYields
<1>3. CASE Check(w, id)
  BY <1>3, <1>b, <1>g DEF Check, GetYields
<1>4. CASE Probe(w, id)
  BY <1>4, <1>b, <1>g DEF Probe, GetYields
<1>5. CASE GiveUp(w, id)
  BY <1>5, <1>g DEF GiveUp
<1> QED
  BY <1>1, <1>2, <1>3, <1>4, <1>5

\* Time, a container that dies, a crash and Reconcile keep CustodyInv.
LEMMA EnvironmentCustody ==
    ASSUME TrueAnswers, TypeInv, CustodyInv, Environment
    PROVE  CustodyInv'
<1> USE DEF TypeInv
<1>1. ASSUME NEW id \in Attempt, Age(id)
      PROVE  CustodyInv'
  <2>1. \A i \in Attempt : (Visible(i) => Visible(i)') /\ (Absent(i) => Absent(i)')
    BY <1>1 DEF Age, PlaceTypeOK, CacheTypeOK, Record, Visible, Absent, Cached
  <2> QED
    BY <1>1, <2>1, NothingMoves DEF Age
<1>2. ASSUME UNCHANGED <<cacheVars, db, procVars, batch>>,
             \A i \in Attempt : box'[i] = box[i] \/ (box[i] = "up" /\ box'[i] = "gone"),
             booting' = booting \/ (~booting' /\ \A i \in Attempt : box'[i] # "up")
      PROVE  CustodyInv'
  <2>1. HandsInv'
    <3>1. \A i \in Attempt : /\ box[i] = "none" => box'[i] = "none"
                             /\ Up(i)' => Up(i)
      BY <1>2 DEF Up
    <3>2. \A p \in Proc : pc[p] = "run" \/ pc[p] \in Stopped => cur[p] \in Attempt
      BY DEF ProcTypeOK, Stopped
    <3>3. /\ \A p \in Proc : pc'[p] = "run" => IsSandbox(cur'[p]) /\ box'[cur'[p]] = "none"
          /\ \A p \in Proc : pc'[p] \in Stopped => box'[cur'[p]] # "up"
          /\ \A i \in Attempt : Up(i)' => IsSandbox(i)
      BY <1>2, <3>1, <3>2 DEF CustodyInv, HandsInv, procVars, Up
    <3>4. \A p \in Proc : fresh'[p] \in Attempt => box'[fresh'[p]] = "none"
      BY <1>2, <3>1 DEF CustodyInv, HandsInv, procVars
    <3>5. /\ \A p \in Proc : pc'[p] \in Starting =>
                /\ db'[cur'[p]] = "none"
                /\ \A q \in Proc : q # p => cur'[q] # cur'[p] /\ fresh'[q] # cur'[p]
          /\ \A p \in Proc : fresh'[p] \in Attempt =>
                /\ db'[fresh'[p]] = "none"
                /\ \A q \in Proc : cur'[q] # fresh'[p] /\ (q # p => fresh'[q] # fresh'[p])
      BY <1>2 DEF CustodyInv, HandsInv, procVars
    <3> QED
      BY <3>3, <3>4, <3>5 DEF HandsInv, IsSandbox, Up
  <2>2. TerminatedIsStopped'
    BY <1>2 DEF CustodyInv, TerminatedIsStopped, Up
  <2>3. NoOrphanBox'
    BY <1>2 DEF CustodyInv, NoOrphanBox, InHand, Responsible, procVars, cacheVars, Up, Visible, Cached
  <2>4. UnputInv'
    BY <1>2 DEF CustodyInv, UnputInv, procVars, cacheVars, Absent, Cached
  <2>5. PruneInv'
    BY <1>2 DEF CustodyInv, PruneInv, procVars, Up
  <2> QED
    BY <2>1, <2>2, <2>3, <2>4, <2>5 DEF CustodyInv
<1>3. ASSUME NEW id \in Attempt, Kill(id)
      PROVE  CustodyInv'
  BY <1>2, <1>3 DEF Kill, PlaceTypeOK
<1>4. ASSUME NEW id \in Attempt, Expire(id)
      PROVE  CustodyInv'
  <2>1. ~Visible(id)
    BY <1>4 DEF Expire, Fault, TrueAnswers
  <2>2. \A i \in Attempt : /\ Visible(i) => Visible(i)'
                           /\ Absent(i) => Absent(i)'
    BY <1>4, <2>1 DEF Expire, PlaceTypeOK, CacheTypeOK, Visible, Absent, Cached, NoEntry
  <2> QED
    BY <1>4, <2>2, NothingMoves DEF Expire
<1>5. CASE Crash
  <2>1. HandsInv'
    BY <1>5, NoAttemptAssumption DEF Crash, CustodyInv, HandsInv, Starting, Stopped, Up
  <2>2. TerminatedIsStopped'
    BY <1>5 DEF Crash, CustodyInv, TerminatedIsStopped, Up
  <2>3. NoOrphanBox'
    BY <1>5 DEF Crash, NoOrphanBox
  <2>4. UnputInv'
    BY <1>5 DEF Crash, UnputInv, Unput, Starting
  <2>5. PruneInv'
    BY <1>5 DEF Crash, PruneInv, NoEntry, Missing
  <2> QED
    BY <2>1, <2>2, <2>3, <2>4, <2>5 DEF CustodyInv
<1>6. CASE Reconcile
  <2>1. ~Fault("rm")
    BY DEF Fault, TrueAnswers
  <2>2. ~booting' /\ UNCHANGED <<cacheVars, db, procVars, batch>>
    BY <1>6 DEF Reconcile
  <2>3. box' = [id \in Attempt |-> IF box[id] = "up" THEN "gone" ELSE box[id]]
    BY <1>6, <2>1 DEF Reconcile
  <2>4. \A i \in Attempt : /\ box'[i] = box[i] \/ (box[i] = "up" /\ box'[i] = "gone")
                           /\ box'[i] # "up"
    BY <2>3
  <2> QED
    BY <1>2, <2>2, <2>4
<1> QED
  BY <1>1, <1>3, <1>4, <1>5, <1>6 DEF Environment

\* CustodyInv is inductive, next to the types and the open store.
LEMMA CustodyInductive ==
    ASSUME TrueAnswers
    PROVE  TypeInv /\ OpenInv /\ CustodyInv /\ [Next]_vars => CustodyInv'
<1> SUFFICES ASSUME TypeInv, OpenInv, CustodyInv, [Next]_vars
             PROVE  CustodyInv'
  OBVIOUS
<1>a. TypeInv' /\ OpenInv'
  BY TypeInductive, OpenInductive
<1>1. CASE \E w \in Worker : Request(w) \/ WorkerStep(w)
  BY <1>1, <1>a, RequestCustody, StartStepCustody, CallStepCustody, TermStepCustody DEF WorkerStep, Proc
<1>2. CASE GCStep
  BY <1>2, <1>a, GCStepCustody
<1>3. CASE Environment
  BY <1>3, EnvironmentCustody
<1>4. CASE UNCHANGED vars
  BY <1>4, NothingMoves DEF vars, procVars, Visible, Absent, Cached
<1> QED
  BY <1>1, <1>2, <1>3, <1>4 DEF Next

\* It holds at the start.
LEMMA CustodyInit == Init => CustodyInv
BY NoAttemptAssumption
   DEF Init, CustodyInv, HandsInv, TerminatedIsStopped, NoOrphanBox, UnputInv, PruneInv,
       Unput, Starting, Stopped, Up, NoEntry, Missing

\* So it always holds.
LEMMA CustodyAlways ==
    ASSUME TrueAnswers
    PROVE  Spec => []CustodyInv
<1>1. Init => OpenInv
  BY OpenInit
<1>2. TypeInv /\ OpenInv /\ CustodyInv /\ [Next]_vars => CustodyInv'
  BY CustodyInductive
<1> QED
  BY <1>1, <1>2, CustodyInit, TypeInvariant, OpenInductive, PTL DEF Spec

(***************************************************************************)
(* A live container is always one the collector will see, one a Start has  *)
(* in hand, or one the startup Reconcile is about to remove.               *)
(***************************************************************************)
THEOREM NoBoxIsLost ==
    ASSUME TrueAnswers
    PROVE  Spec => []NoOrphanBox
<1>1. CustodyInv => NoOrphanBox
  BY DEF CustodyInv
<1> QED
  BY <1>1, CustodyAlways, PTL

(***************************************************************************)
(* Whatever the handlers, the collector and a restart do to an attempt at  *)
(* the same time, its row says terminated only when its container is gone. *)
(***************************************************************************)
THEOREM TerminatedMeansStopped ==
    ASSUME TrueAnswers
    PROVE  Spec => []TerminatedIsStopped
<1>1. CustodyInv => TerminatedIsStopped
  BY DEF CustodyInv
<1> QED
  BY <1>1, CustodyAlways, PTL

-----------------------------------------------------------------------------
(* Ports.                                                                  *)

\* No container goes but by the program's own hand.
NoDeaths == FaultKinds \cap {"kill", "crash"} = {}

\* What the runner tracks runs.
HeldInv == ~booting /\ \A id \in held : Up(id)

LEMMA HeldInductive ==
    ASSUME TrueAnswers, NoDeaths
    PROVE  TypeInv /\ HeldInv /\ [Next]_vars => HeldInv'
<1> SUFFICES ASSUME TypeInv, HeldInv, [Next]_vars
             PROVE  HeldInv'
  OBVIOUS
<1>0. box \in [Attempt -> {"none", "up", "gone"}] /\ held \subseteq Attempt /\ booting = FALSE
  BY DEF TypeInv, PlaceTypeOK, HeldInv
<1>1. CASE UNCHANGED <<box, held, booting>>
  BY <1>1 DEF HeldInv, Up
<1>2. ASSUME NEW id, StopBox(id), UNCHANGED booting
      PROVE  HeldInv'
  <2>1. ~Fault("rm")
    BY DEF TrueAnswers, Fault
  <2>2. box' = [box EXCEPT ![id] = "gone"] /\ held' = held \ {id}
    BY <1>2, <2>1 DEF StopBox
  <2> QED
    BY <1>0, <1>2, <2>2 DEF HeldInv, Up
<1>3. ASSUME NEW w \in Worker, Run(w)
      PROVE  HeldInv'
  <2>1. ~Fault("orphan")
    BY DEF TrueAnswers, Fault
  <2>2. CASE box' = [box EXCEPT ![cur[w]] = "up"] /\ held' = held \cup {cur[w]} /\ Goto(w, "create")
    <3>1. cur[w] \in Attempt \/ cur[w] = NoAttempt
      BY DEF TypeInv, ProcTypeOK, Proc
    <3>2. UNCHANGED booting
      BY <1>3 DEF Run
    <3>3. held' \subseteq Attempt
      BY <1>3, <2>2, TypeInductive DEF TypeInv, PlaceTypeOK, Next, WorkerStep, StartStep
    <3> QED
      BY <1>0, <2>2, <3>1, <3>2, <3>3 DEF HeldInv, Up
  <2> QED
    BY <1>1, <1>3, <2>1, <2>2 DEF Run
<1>4. ASSUME NEW w \in Worker, Request(w)
      PROVE  HeldInv'
  BY <1>1, <1>4 DEF Request, Start, Heartbeat, Check, Probe, GiveUp
<1>5. ASSUME NEW w \in Worker, StartStep(w)
      PROVE  HeldInv'
  BY <1>1, <1>2, <1>3, <1>5
  DEF StartStep, Find, Unindex, ReusePing, RecDelete, RecErase, RecStop, RecMark,
      Create, UndoRun, Put, UndoPut, UndoMark
<1>6. ASSUME NEW w \in Worker, CallStep(w)
      PROVE  HeldInv'
  BY <1>1, <1>6
  DEF CallStep, Touch, TouchPut, Judge, CheckMark, CheckSync, CheckPut,
      ProbePing, HealDelete, HealErase, HealMark
<1>7. ASSUME NEW p \in Proc, TermStep(p)
      PROVE  HeldInv'
  BY <1>1, <1>2, <1>7 DEF TermStep, Terminate, TermStop, TermMark, TermDelete, TermErase
<1>8. CASE GCStep
  <2>1. GC \in Proc
    BY DEF Proc
  <2> QED
    BY <1>1, <1>2, <1>7, <1>8, <2>1
    DEF GCStep, Tick, ReadListed, Prune, Visit, StaleGet, StaleDelete, StaleErase, StaleMark,
        CleanupPassed, CleanStop, CleanDelete, CleanErase
<1>9. CASE Environment
  <2>1. ~Fault("kill") /\ ~Fault("crash")
    BY DEF NoDeaths, Fault
  <2> QED
    BY <1>0, <1>1, <1>9, <2>1 DEF Environment, Age, Expire, Kill, Crash, Reconcile
<1>10. CASE UNCHANGED vars
  BY <1>1, <1>10 DEF vars
<1> QED
  BY <1>4, <1>5, <1>6, <1>7, <1>8, <1>9, <1>10 DEF Next, WorkerStep, Proc

(***************************************************************************)
(* As long as no container dies of itself, every port the runner holds is  *)
(* of an attempt that somebody will still stop: the self-healing paths,    *)
(* which forget an attempt without a Stop, then have nothing to heal.      *)
(***************************************************************************)
THEOREM NoPortIsForgotten ==
    ASSUME TrueAnswers, NoDeaths
    PROVE  Spec => []PortsReturn
<1>1. Init => HeldInv
  BY DEF Init, HeldInv
<1>2. TypeInv /\ HeldInv /\ [Next]_vars => HeldInv'
  BY HeldInductive
<1>3. TypeInv /\ HeldInv /\ CustodyInv => PortsReturn
  BY DEF TypeInv, PlaceTypeOK, HeldInv, CustodyInv, NoOrphanBox, PortsReturn
<1> QED
  BY <1>1, <1>2, <1>3, CustodyAlways, TypeInvariant, PTL DEF Spec

-----------------------------------------------------------------------------
(* The lifecycle implements BoxCustody.                                    *)

\* The next round trip of a label here is a Stop.
ToStop == {"undoRun", "undoPut", "recStop", "termStop", "cleanStop"}

\* A sandbox attempt that has a row, or is about to get one, had its container;
\* and only sandboxes are stopped.
RanInv ==
    /\ \A id \in Attempt : IsSandbox(id) /\ db[id] # "none" => box[id] # "none"
    /\ \A p \in Proc : pc[p] \in {"create", "undoRun"} /\ IsSandbox(cur[p]) => box[cur[p]] # "none"
    /\ \A p \in Proc : pc[p] \in ToStop => IsSandbox(cur[p])

\* Labels at which a Start answers for a container (Responsible).
Holding == {"create", "undoRun", "put", "undoPut", "recStop"}

\* Only p moves, and it does not come to hold the live container of another attempt.
HandsApart(p) ==
    /\ \A q \in Proc : q # p => pc'[q] = pc[q] /\ cur'[q] = cur[q]
    /\ cur'[p] # cur[p] /\ pc'[p] \in Holding => box'[cur'[p]] # "up"

LEMMA MovesApart ==
    ASSUME TypeInv, CustodyInv', NEW p \in Proc,
           \/ \E label : Goto(p, label)
           \/ \E rec, label : Copy(p, rec, label)
           \/ Return(p)
           \/ \E id \in Attempt : Begin(p, id)
           \/ \E id \in Attempt, label \in Label \ Holding : Take(p, id, label)
    PROVE  HandsApart(p)
<1> USE DEF TypeInv
<1>1. ASSUME NEW label, Goto(p, label)
      PROVE  HandsApart(p)
  BY <1>1, GotoMoves DEF Moves, HandsApart
<1>2. ASSUME NEW rec, NEW label, Copy(p, rec, label)
      PROVE  HandsApart(p)
  BY <1>2, CopyMoves DEF Moves, HandsApart
<1>3. CASE Return(p)
  BY <1>3, ReturnMoves DEF Moves, HandsApart, Holding
<1>4. ASSUME NEW id \in Attempt, Begin(p, id)
      PROVE  HandsApart(p)
  <2>1. /\ pc'[p] = IF IsSandbox(id) THEN "run" ELSE "create"
        /\ cur'[p] = id
        /\ \A q \in Proc : q # p => pc'[q] = pc[q] /\ cur'[q] = cur[q]
    BY <1>4, BeginMoves DEF Moves
  <2>2. pc'[p] \in Holding => ~IsSandbox(id)
    BY <2>1 DEF Holding
  <2>3. Up(id)' => IsSandbox(id)
    BY DEF CustodyInv, HandsInv, IsSandbox
  <2> QED
    BY <2>1, <2>2, <2>3 DEF HandsApart, Up
<1>5. ASSUME NEW id \in Attempt, NEW label \in Label \ Holding, Take(p, id, label)
      PROVE  HandsApart(p)
  BY <1>5, TakeMoves DEF Moves, HandsApart
<1> QED
  BY <1>1, <1>2, <1>3, <1>4, <1>5

\* The life of a container: it is run by p, or it goes.
Lives(p, id) ==
    \/ box'[id] = box[id]
    \/ box[id] = "up" /\ box'[id] = "gone"
    \/ box[id] = "none" /\ box'[id] = "up" /\ Responsible(p, id)' /\ ~Visible(id)'

\* A step of p is about the container of the attempt in hand.
HandsOver(p) ==
    /\ HandsApart(p)
    /\ \A id \in Attempt : id # cur[p] => box'[id] = box[id] /\ (Visible(id)' <=> Visible(id))
    /\ \A id \in Attempt : id = cur[p] => Lives(p, id)

LEMMA QuietHandsOver ==
    ASSUME NEW p \in Proc, HandsApart(p), UNCHANGED <<main, active, box>>
    PROVE  HandsOver(p)
BY DEF HandsOver, Visible, Cached, Lives

LEMMA WriteHandsOver ==
    ASSUME CacheTypeOK, NEW p \in Proc, HandsApart(p), UNCHANGED box, cur[p] \in Attempt,
           \/ \E rec \in Record : PutEntry(cur[p], rec) \/ PutBroken(cur[p], rec)
           \/ \E found : EraseEntry(cur[p], found) \/ EraseBroken(cur[p], found)
    PROVE  HandsOver(p)
<1>1. \A id \in Attempt : id # cur[p] => main'[id] = main[id]
  BY PutEffect, EraseEffect
<1>2. active' \in {active, active \cup {cur[p]}, active \ {cur[p]}}
  BY PutEffect, EraseEffect
<1> QED
  BY <1>1, <1>2 DEF HandsOver, Visible, Cached, Lives

LEMMA StopHandsOver ==
    ASSUME TrueAnswers, TypeInv, OpenInv, RanInv, NEW p \in Proc, HandsApart(p), pc[p] \in ToStop,
           StopBox(cur[p]), UNCHANGED cacheVars
    PROVE  HandsOver(p)
<1>1. cur[p] \in Attempt /\ IsSandbox(cur[p])
  BY DEF TypeInv, ProcTypeOK, RanInv, ToStop
<1>2. box[cur[p]] # "none"
  <2>1. pc[p] = "undoRun" \/ db[cur[p]] # "none"
    BY DEF OpenInv, Unborn, ToStop
  <2> QED
    BY <1>1, <2>1 DEF RanInv
<1>3. box[cur[p]] \in {"up", "gone"}
  BY <1>1, <1>2 DEF TypeInv, PlaceTypeOK
<1>4. /\ box'[cur[p]] = "gone"
      /\ \A i \in Attempt : i # cur[p] => box'[i] = box[i]
  BY <1>1, StopEffect DEF TypeInv
<1> QED
  BY <1>1, <1>3, <1>4 DEF HandsOver, Visible, Cached, Lives, cacheVars

LEMMA StartHandsOver ==
    ASSUME TrueAnswers, TypeInv, OpenInv, CustodyInv, CustodyInv', RanInv,
           NEW w \in Worker, StartStep(w)
    PROVE  HandsOver(w)
<1> USE DEF At
<1>a. w \in Proc /\ (pc[w] # "idle" => cur[w] \in Attempt)
      /\ (pc[w] \in Replacing => fresh[w] \in Attempt)
      /\ CacheTypeOK
  BY DEF Proc, TypeInv, ProcTypeOK, PlaceTypeOK
<1>1. CASE Find(w) \/ Unindex(w) \/ ReusePing(w) \/ RecDelete(w) \/ RecMark(w) \/ Create(w) \/ UndoMark(w)
  <2>1. HandsApart(w)
    BY <1>1, <1>a, MovesApart
       DEF Find, Unindex, ReusePing, RecDelete, RecMark, Create, UndoMark, DeleteGet, Replacing
  <2>2. UNCHANGED <<main, active, box>>
    BY <1>1 DEF Find, Unindex, ReusePing, RecDelete, RecMark, Create, UndoMark,
                DeleteGet, DeleteGetFails, cacheVars
  <2> QED
    BY <1>a, <2>1, <2>2, QuietHandsOver
<1>2. CASE RecStop(w) \/ UndoRun(w) \/ UndoPut(w)
  <2>1. HandsApart(w)
    BY <1>2, <1>a, MovesApart DEF RecStop, UndoRun, UndoPut
  <2>2. pc[w] \in ToStop /\ StopBox(cur[w]) /\ UNCHANGED cacheVars
    BY <1>2 DEF RecStop, UndoRun, UndoPut, ToStop
  <2> QED
    BY <1>a, <2>1, <2>2, StopHandsOver
<1>3. CASE RecErase(w) \/ Put(w)
  <2>1. HandsApart(w)
    BY <1>3, <1>a, MovesApart DEF RecErase, Put
  <2>2. /\ UNCHANGED box /\ cur[w] \in Attempt
        /\ \/ \E rec \in Record : PutEntry(cur[w], rec) \/ PutBroken(cur[w], rec)
           \/ \E found : EraseEntry(cur[w], found) \/ EraseBroken(cur[w], found)
    <3>1. CASE RecErase(w)
      BY <3>1, <1>a DEF RecErase, EraseOK, EraseFails, EraseCur
    <3>2. CASE Put(w)
      <4>1. Running \in Record
        BY DEF Running, Record, Status
      <4> QED
        BY <3>2, <4>1, <1>a DEF Put
    <3> QED
      BY <1>3, <3>1, <3>2
  <2> QED
    BY <1>a, <2>1, <2>2, WriteHandsOver
<1>4. CASE Run(w)
  <2>1. HandsApart(w)
    BY <1>4, <1>a, MovesApart DEF Run
  <2>2. UNCHANGED <<main, active>> /\ cur[w] \in Attempt /\ ~Fault("orphan")
    BY <1>4, <1>a DEF Run, cacheVars, TrueAnswers, Fault
  <2>3. CASE UNCHANGED box
    BY <1>a, <2>1, <2>2, <2>3, QuietHandsOver
  <2>4. CASE box' = [box EXCEPT ![cur[w]] = "up"] /\ Goto(w, "create")
    <3>1. pc'[w] = "create" /\ cur'[w] = cur[w]
      BY <1>a, <2>4, GotoMoves DEF Moves, TypeInv
    <3>2. box[cur[w]] = "none" /\ ~Visible(cur[w])
      BY <1>4, <1>a DEF Run, CustodyInv, HandsInv, UnputInv, Unput, Starting, Absent, Visible
    <3>3. box'[cur[w]] = "up" /\ \A i \in Attempt : i # cur[w] => box'[i] = box[i]
      BY <2>2, <2>4 DEF TypeInv, PlaceTypeOK
    <3> QED
      BY <2>1, <2>2, <3>1, <3>2, <3>3 DEF HandsOver, Lives, Responsible, Visible, Cached
  <2> QED
    BY <1>4, <2>2, <2>3, <2>4 DEF Run
<1> QED
  BY <1>1, <1>2, <1>3, <1>4 DEF StartStep

LEMMA RequestHandsOver ==
    ASSUME TypeInv, CustodyInv', NEW w \in Worker, Request(w)
    PROVE  HandsOver(w)
<1>1. w \in Proc
  BY DEF Proc
<1>2. PICK id \in Attempt : \/ Start(w, id) \/ Heartbeat(w, id) \/ Check(w, id)
                            \/ Probe(w, id) \/ GiveUp(w, id)
  BY DEF Request
<1>3. UNCHANGED <<main, active, box>>
  BY <1>2 DEF Start, Heartbeat, Check, Probe, GiveUp, cacheVars
<1>4. HandsApart(w)
  <2>1. CASE Start(w, id)
    <3>1. CASE Begin(w, id)
      BY <1>1, <3>1, MovesApart
    <3>2. CASE /\ pc' = [pc EXCEPT ![w] = "find"]
               /\ cur' = [cur EXCEPT ![w] = owner[OwnerOf[id]]]
      BY <1>1, <3>2 DEF HandsApart, Holding, TypeInv, ProcTypeOK
    <3> QED
      BY <2>1, <3>1, <3>2 DEF Start
  <2>2. CASE Heartbeat(w, id) \/ Check(w, id) \/ Probe(w, id) \/ GiveUp(w, id)
    <3>1. {"touch", "judge", "probe", "terminate"} \subseteq Label \ Holding
      BY DEF Label, Holding
    <3> QED
      BY <1>1, <2>2, <3>1, MovesApart DEF Heartbeat, Check, Probe, GiveUp
  <2> QED
    BY <1>2, <2>1, <2>2
<1> QED
  BY <1>1, <1>3, <1>4, QuietHandsOver

LEMMA CallHandsOver ==
    ASSUME TypeInv, CustodyInv', NEW w \in Worker, CallStep(w)
    PROVE  HandsOver(w)
<1> USE DEF At
<1>a. w \in Proc /\ (pc[w] # "idle" => cur[w] \in Attempt) /\ snap[w] \in Record /\ CacheTypeOK
  BY DEF Proc, TypeInv, ProcTypeOK, PlaceTypeOK
<1>1. CASE Touch(w) \/ Judge(w) \/ CheckMark(w) \/ CheckSync(w) \/ ProbePing(w) \/ HealDelete(w) \/ HealMark(w)
  <2>1. HandsApart(w)
    BY <1>1, <1>a, MovesApart
       DEF Touch, Judge, CheckMark, CheckSync, ProbePing, HealDelete, HealMark, DeleteGet
  <2>2. UNCHANGED <<main, active, box>>
    BY <1>1 DEF Touch, Judge, CheckMark, CheckSync, ProbePing, HealDelete, HealMark,
                DeleteGet, DeleteGetFails, cacheVars
  <2> QED
    BY <1>a, <2>1, <2>2, QuietHandsOver
<1>2. CASE TouchPut(w) \/ CheckPut(w) \/ HealErase(w)
  <2>1. HandsApart(w)
    BY <1>2, <1>a, MovesApart DEF TouchPut, CheckPut, HealErase
  <2>2. Touched(snap[w]) \in Record
    BY <1>a DEF Touched, Record
  <2>3. /\ UNCHANGED box /\ cur[w] \in Attempt
        /\ \/ \E rec \in Record : PutEntry(cur[w], rec) \/ PutBroken(cur[w], rec)
           \/ \E found : EraseEntry(cur[w], found) \/ EraseBroken(cur[w], found)
    BY <1>2, <1>a, <2>2 DEF TouchPut, CheckPut, HealErase, EraseOK, EraseFails, EraseCur
  <2> QED
    BY <1>a, <2>1, <2>3, WriteHandsOver
<1> QED
  BY <1>1, <1>2 DEF CallStep

LEMMA TermHandsOver ==
    ASSUME TrueAnswers, TypeInv, OpenInv, CustodyInv', RanInv, NEW p \in Proc, TermStep(p)
    PROVE  HandsOver(p)
<1> USE DEF At
<1>a. (pc[p] # "idle" => cur[p] \in Attempt) /\ CacheTypeOK
  BY DEF TypeInv, ProcTypeOK, PlaceTypeOK
<1>1. CASE Terminate(p) \/ TermMark(p) \/ TermDelete(p)
  <2>1. HandsApart(p)
    BY <1>1, <1>a, MovesApart DEF Terminate, TermMark, TermDelete, DeleteGet
  <2>2. UNCHANGED <<main, active, box>>
    BY <1>1 DEF Terminate, TermMark, TermDelete, DeleteGet, DeleteGetFails, cacheVars
  <2> QED
    BY <2>1, <2>2, QuietHandsOver
<1>2. CASE TermStop(p)
  <2>1. HandsApart(p)
    BY <1>2, <1>a, MovesApart DEF TermStop
  <2>2. pc[p] \in ToStop /\ StopBox(cur[p]) /\ UNCHANGED cacheVars
    BY <1>2 DEF TermStop, ToStop
  <2> QED
    BY <2>1, <2>2, StopHandsOver
<1>3. CASE TermErase(p)
  <2>1. HandsApart(p)
    BY <1>3, <1>a, MovesApart DEF TermErase
  <2>2. /\ UNCHANGED box /\ cur[p] \in Attempt
        /\ \E found : EraseEntry(cur[p], found) \/ EraseBroken(cur[p], found)
    BY <1>3, <1>a DEF TermErase, EraseOK, EraseFails, EraseCur
  <2> QED
    BY <1>a, <2>1, <2>2, WriteHandsOver
<1> QED
  BY <1>1, <1>2, <1>3 DEF TermStep

LEMMA GCHandsOver ==
    ASSUME TrueAnswers, TypeInv, OpenInv, CustodyInv', RanInv, Collects
    PROVE  HandsOver(GC)
<1> USE DEF At
<1>a. GC \in Proc /\ (pc[GC] # "idle" => cur[GC] \in Attempt) /\ CacheTypeOK
  BY DEF Proc, TypeInv, ProcTypeOK, PlaceTypeOK
<1>1. ASSUME NEW id \in Attempt, Visit(id)
      PROVE  HandsOver(GC)
  <2>1. CASE UNCHANGED procVars
    BY <1>1, <1>a, <2>1, QuietHandsOver DEF Visit, HandsApart, procVars, cacheVars
  <2>2. ASSUME NEW label \in {"staleGet", "terminate", "cleanup"}, Take(GC, id, label)
        PROVE  HandsOver(GC)
    <3>1. label \in Label \ Holding
      BY DEF Label, Holding
    <3> QED
      BY <1>1, <1>a, <2>2, <3>1, MovesApart, QuietHandsOver DEF Visit, cacheVars
  <2> QED
    BY <1>1, <2>1, <2>2 DEF Visit
<1>2. CASE StaleGet \/ StaleDelete \/ StaleMark \/ CleanupPassed \/ CleanDelete
  <2>1. HandsApart(GC)
    BY <1>2, <1>a, MovesApart DEF StaleGet, StaleDelete, StaleMark, CleanupPassed, CleanDelete, DeleteGet
  <2>2. UNCHANGED <<main, active, box>>
    BY <1>2 DEF StaleGet, StaleDelete, StaleMark, CleanupPassed, CleanDelete,
                DeleteGet, DeleteGetFails, cacheVars
  <2> QED
    BY <1>a, <2>1, <2>2, QuietHandsOver
<1>3. CASE CleanStop
  <2>1. HandsApart(GC)
    BY <1>3, <1>a, MovesApart DEF CleanStop
  <2>2. pc[GC] \in ToStop /\ StopBox(cur[GC]) /\ UNCHANGED cacheVars
    BY <1>3 DEF CleanStop, ToStop
  <2> QED
    BY <1>a, <2>1, <2>2, StopHandsOver
<1>4. CASE StaleErase \/ CleanErase
  <2>1. HandsApart(GC)
    BY <1>4, <1>a, MovesApart DEF StaleErase, CleanErase
  <2>2. /\ UNCHANGED box /\ cur[GC] \in Attempt
        /\ \E found : EraseEntry(cur[GC], found) \/ EraseBroken(cur[GC], found)
    BY <1>4, <1>a DEF StaleErase, CleanErase, EraseOK, EraseFails, EraseCur
  <2> QED
    BY <1>a, <2>1, <2>2, WriteHandsOver
<1> QED
  BY <1>1, <1>2, <1>3, <1>4 DEF Collects

-----------------------------------------------------------------------------
\* No container un-happens, only a create makes a row, a create follows a run
\* and a rollback a create, and only a sandbox is stopped.
KeepsRan(p) ==
    /\ \A q \in Proc : q # p => pc'[q] = pc[q] /\ cur'[q] = cur[q]
    /\ \A id \in Attempt : box'[id] = "none" => box[id] = "none"
    /\ \A id \in Attempt : db'[id] # "none" => db[id] # "none" \/ (id = cur[p] /\ pc[p] = "create")
    /\ pc'[p] = "create" => ~IsSandbox(cur'[p]) \/ box'[cur'[p]] # "none"
    /\ pc'[p] = "undoRun" => pc[p] = "create" /\ cur'[p] = cur[p]
    /\ pc'[p] \in ToStop => IsSandbox(cur'[p])

LEMMA RanStep ==
    ASSUME TypeInv, TypeInv', RanInv, NEW p \in Proc, KeepsRan(p)
    PROVE  RanInv'
<1> USE DEF KeepsRan
<1>1. \A id \in Attempt : IsSandbox(id) /\ db'[id] # "none" => box'[id] # "none"
  BY DEF RanInv
<1>2. \A q \in Proc : pc'[q] \in {"create", "undoRun"} /\ IsSandbox(cur'[q]) => box'[cur'[q]] # "none"
  <2> SUFFICES ASSUME NEW q \in Proc, pc'[q] \in {"create", "undoRun"}, IsSandbox(cur'[q])
               PROVE  box'[cur'[q]] # "none"
    OBVIOUS
  <2>1. cur'[q] \in Attempt
    BY DEF TypeInv, ProcTypeOK
  <2>2. CASE q # p
    BY <2>1, <2>2 DEF RanInv
  <2>3. CASE q = p
    BY <2>1, <2>3 DEF RanInv
  <2> QED
    BY <2>2, <2>3
<1>3. \A q \in Proc : pc'[q] \in ToStop => IsSandbox(cur'[q])
  BY DEF RanInv
<1> QED
  BY <1>1, <1>2, <1>3 DEF RanInv, IsSandbox

LEMMA StartRan ==
    ASSUME TrueAnswers, TypeInv, OpenInv, CustodyInv, RanInv, NEW w \in Worker, StartStep(w)
    PROVE  KeepsRan(w)
<1> USE DEF At, TypeInv
<1>a. w \in Proc /\ (pc[w] # "idle" => cur[w] \in Attempt)
      /\ (pc[w] \in Replacing => fresh[w] \in Attempt)
      /\ (pc[w] \notin Unborn => db[cur[w]] # "none")
  BY DEF Proc, ProcTypeOK, OpenInv
<1>b. \A id \in Attempt : box[id] = "none" => ~Up(id)
  BY DEF Up
<1>1. CASE Find(w) \/ Unindex(w) \/ RecMark(w)
  <2>1. UNCHANGED box
    BY <1>1 DEF Find, Unindex, RecMark
  <2>2. \A id \in Attempt : db'[id] # "none" => db[id] # "none"
    BY <1>1, <1>a, SaveEffect DEF Find, Unindex, RecMark, Unborn
  <2>3. CASE Begin(w, fresh[w])
    <3>1. pc'[w] = (IF IsSandbox(fresh[w]) THEN "run" ELSE "create") /\ cur'[w] = fresh[w]
          /\ \A q \in Proc : q # w => pc'[q] = pc[q] /\ cur'[q] = cur[q]
      BY <1>a, <2>3, BeginMoves DEF Moves
    <3> QED
      BY <2>1, <2>2, <3>1 DEF KeepsRan, ToStop
  <2>4. CASE Goto(w, AfterFind(cur[w])) /\ Find(w)
    <3>1. AfterFind(cur[w]) \in {"unindex", "recDelete", "reusePing", "touch"}
      BY <2>4, <1>a DEF AfterFind, OpenInv, RecordsHaveRows, Cached, PlaceTypeOK, CacheTypeOK, Record, Status, Find
    <3> QED
      BY <1>a, <2>1, <2>2, <2>4, <3>1, GotoMoves DEF KeepsRan, ToStop, Moves
  <2> QED
    BY <1>1, <2>3, <2>4 DEF Find, Unindex, RecMark
<1>2. CASE ReusePing(w) \/ RecDelete(w) \/ RecErase(w)
  <2>1. UNCHANGED <<box, db>>
    BY <1>2 DEF ReusePing, RecDelete, RecErase
  <2>2. \E label \in {"touch", "recDelete", "recErase", AfterRecErase(cur[w])} :
           Goto(w, label) \/ \E rec : Copy(w, rec, label)
    BY <1>2 DEF ReusePing, RecDelete, RecErase, DeleteGet
  <2>3. PICK label \in {"touch", "recDelete", "recErase", AfterRecErase(cur[w])} :
           /\ pc'[w] = label /\ cur'[w] = cur[w]
           /\ \A q \in Proc : q # w => pc'[q] = pc[q] /\ cur'[q] = cur[q]
    BY <1>a, <2>2, GotoMoves, CopyMoves DEF Moves
  <2> QED
    BY <2>1, <2>3 DEF KeepsRan, ToStop, AfterRecErase
<1>3. CASE RecStop(w) \/ UndoRun(w) \/ UndoPut(w)
  <2>1. cur[w] \in Attempt /\ StopBox(cur[w]) /\ UNCHANGED db
    BY <1>3, <1>a DEF RecStop, UndoRun, UndoPut
  <2>2. \A id \in Attempt : box'[id] = "none" => box[id] = "none"
    BY <2>1, StopEffect
  <2>3. /\ pc'[w] \in {"idle", "recMark", "undoMark"}
        /\ \A q \in Proc : q # w => pc'[q] = pc[q] /\ cur'[q] = cur[q]
    BY <1>3, <1>a, GotoMoves, ReturnMoves DEF RecStop, UndoRun, UndoPut, Moves
  <2> QED
    BY <2>1, <2>2, <2>3 DEF KeepsRan, ToStop
<1>4. CASE Run(w)
  <2>1. UNCHANGED db /\ cur[w] \in Attempt
    BY <1>4, <1>a DEF Run
  <2>2. CASE Return(w)
    <3>1. pc'[w] = "idle" /\ \A q \in Proc : q # w => pc'[q] = pc[q] /\ cur'[q] = cur[q]
      BY <1>a, <2>2, ReturnMoves DEF Moves
    <3>2. \A id \in Attempt : box'[id] = "none" => box[id] = "none"
      BY <1>4, <2>1 DEF Run, PlaceTypeOK
    <3> QED
      BY <2>1, <3>1, <3>2 DEF KeepsRan, ToStop
  <2>3. CASE Goto(w, "create") /\ box' = [box EXCEPT ![cur[w]] = "up"]
    <3>1. /\ pc'[w] = "create" /\ cur'[w] = cur[w]
          /\ \A q \in Proc : q # w => pc'[q] = pc[q] /\ cur'[q] = cur[q]
      BY <1>a, <2>3, GotoMoves DEF Moves
    <3>2. /\ \A id \in Attempt : box'[id] = "none" => box[id] = "none"
          /\ box'[cur[w]] = "up"
      BY <2>1, <2>3 DEF PlaceTypeOK
    <3> QED
      BY <2>1, <3>1, <3>2 DEF KeepsRan, ToStop
  <2> QED
    BY <1>4, <2>2, <2>3 DEF Run
<1>5. CASE Create(w)
  <2>1. UNCHANGED box /\ pc[w] = "create" /\ cur[w] \in Attempt
    BY <1>5, <1>a DEF Create
  <2>2. \A id \in Attempt : db'[id] # "none" => db[id] # "none" \/ id = cur[w]
    BY <1>5, <2>1, SaveEffect DEF Create
  <2>3. /\ pc'[w] \in {"put", "idle"} \/ (pc'[w] = "undoRun" /\ cur'[w] = cur[w] /\ IsSandbox(cur[w]))
        /\ \A q \in Proc : q # w => pc'[q] = pc[q] /\ cur'[q] = cur[q]
    BY <1>5, <1>a, GotoMoves, ReturnMoves DEF Create, Moves
  <2> QED
    BY <2>1, <2>2, <2>3 DEF KeepsRan, ToStop
<1>6. CASE Put(w)
  <2>1. UNCHANGED <<box, db>>
    BY <1>6 DEF Put
  <2>2. /\ pc'[w] \in {"idle", "undoMark"} \/ (pc'[w] = "undoPut" /\ cur'[w] = cur[w] /\ IsSandbox(cur[w]))
        /\ \A q \in Proc : q # w => pc'[q] = pc[q] /\ cur'[q] = cur[q]
    BY <1>6, <1>a, GotoMoves, ReturnMoves DEF Put, Moves
  <2> QED
    BY <2>1, <2>2 DEF KeepsRan, ToStop
<1>7. CASE UndoMark(w)
  <2>1. UNCHANGED box /\ \A id \in Attempt : db'[id] # "none" => db[id] # "none"
    BY <1>7, <1>a, SaveEffect DEF UndoMark, Unborn
  <2>2. pc'[w] = "idle" /\ \A q \in Proc : q # w => pc'[q] = pc[q] /\ cur'[q] = cur[q]
    BY <1>7, <1>a, ReturnMoves DEF UndoMark, Moves
  <2> QED
    BY <2>1, <2>2 DEF KeepsRan, ToStop
<1> QED
  BY <1>1, <1>2, <1>3, <1>4, <1>5, <1>6, <1>7 DEF StartStep

LEMMA RequestRan ==
    ASSUME TypeInv, NEW w \in Worker, Request(w)
    PROVE  KeepsRan(w)
<1>1. w \in Proc
  BY DEF Proc
<1>2. PICK id \in Attempt : \/ Start(w, id) \/ Heartbeat(w, id) \/ Check(w, id)
                            \/ Probe(w, id) \/ GiveUp(w, id)
  BY DEF Request
<1>3. UNCHANGED <<box, db>>
  BY <1>2 DEF Start, Heartbeat, Check, Probe, GiveUp
<1>4. /\ \A q \in Proc : q # w => pc'[q] = pc[q] /\ cur'[q] = cur[q]
      /\ \/ pc'[w] \in {"run", "find", "touch", "judge", "probe", "terminate"}
         \/ pc'[w] = "create" /\ cur'[w] = id /\ ~IsSandbox(id)
  <2>1. CASE Start(w, id)
    <3>1. CASE Begin(w, id)
      BY <1>1, <3>1, BeginMoves DEF Moves, TypeInv
    <3>2. CASE /\ pc' = [pc EXCEPT ![w] = "find"]
               /\ cur' = [cur EXCEPT ![w] = owner[OwnerOf[id]]]
      BY <1>1, <3>2 DEF TypeInv, ProcTypeOK
    <3> QED
      BY <2>1, <3>1, <3>2 DEF Start
  <2>2. CASE Heartbeat(w, id) \/ Check(w, id) \/ Probe(w, id) \/ GiveUp(w, id)
    BY <1>1, <2>2, TakeMoves DEF Heartbeat, Check, Probe, GiveUp, Moves, TypeInv
  <2> QED
    BY <1>2, <2>1, <2>2
<1> QED
  BY <1>3, <1>4 DEF KeepsRan, ToStop

LEMMA CallRan ==
    ASSUME TypeInv, OpenInv, NEW w \in Worker, CallStep(w)
    PROVE  KeepsRan(w)
<1> USE DEF At, TypeInv
<1>a. w \in Proc /\ (pc[w] # "idle" => cur[w] \in Attempt)
      /\ (pc[w] \notin Unborn => db[cur[w]] # "none")
  BY DEF Proc, ProcTypeOK, OpenInv
<1>1. UNCHANGED box
  BY DEF CallStep, Touch, TouchPut, Judge, CheckMark, CheckSync, CheckPut, ProbePing, HealDelete, HealErase, HealMark
<1>2. \A id \in Attempt : db'[id] # "none" => db[id] # "none"
  <2>1. CASE CheckMark(w)
    BY <1>a, <2>1, SaveEffect DEF CheckMark, Unborn
  <2>2. CASE HealMark(w)
    BY <1>a, <2>2, SaveEffect DEF HealMark, Unborn
  <2>3. CASE UNCHANGED db
    BY <2>3
  <2> QED
    BY <2>1, <2>2, <2>3
    DEF CallStep, Touch, TouchPut, Judge, CheckSync, CheckPut, ProbePing, HealDelete, HealErase
<1>3. \E label \in {"touchPut", "checkMark", "checkSync", "checkPut", "healDelete", "healErase", "healMark"} :
         Goto(w, label) \/ Return(w) \/ \E rec : Copy(w, rec, label)
  BY DEF CallStep, Touch, TouchPut, Judge, CheckMark, CheckSync, CheckPut, ProbePing, HealDelete, HealErase, HealMark, DeleteGet
<1>4. /\ \A q \in Proc : q # w => pc'[q] = pc[q] /\ cur'[q] = cur[q]
      /\ pc'[w] \in {"idle", "touchPut", "checkMark", "checkSync", "checkPut", "healDelete", "healErase", "healMark"}
  BY <1>a, <1>3, GotoMoves, ReturnMoves, CopyMoves DEF Moves
<1> QED
  BY <1>1, <1>2, <1>4 DEF KeepsRan, ToStop

LEMMA TermRan ==
    ASSUME TrueAnswers, TypeInv, OpenInv, NEW p \in Proc, TermStep(p)
    PROVE  KeepsRan(p)
<1> USE DEF At, TypeInv
<1>a. (pc[p] # "idle" => cur[p] \in Attempt) /\ (pc[p] \notin Unborn => db[cur[p]] # "none")
  BY DEF ProcTypeOK, OpenInv
<1>1. \A id \in Attempt : box'[id] = "none" => box[id] = "none"
  <2>1. CASE TermStop(p)
    BY <1>a, <2>1, StopEffect DEF TermStop
  <2>2. CASE UNCHANGED box
    BY <2>2
  <2> QED
    BY <2>1, <2>2 DEF TermStep, Terminate, TermMark, TermDelete, TermErase
<1>2. \A id \in Attempt : db'[id] # "none" => db[id] # "none"
  <2>1. CASE TermMark(p)
    BY <1>a, <2>1, SaveEffect DEF TermMark, Unborn
  <2>2. CASE UNCHANGED db
    BY <2>2
  <2> QED
    BY <2>1, <2>2 DEF TermStep, Terminate, TermStop, TermDelete, TermErase
<1>3. \/ \E label \in {"termMark", "termDelete", "termErase"} :
            Goto(p, label) \/ Return(p) \/ \E rec : Copy(p, rec, label)
      \/ Goto(p, "termStop") /\ IsSandbox(cur[p])
  BY DEF TermStep, Terminate, TermStop, TermMark, TermDelete, TermErase, DeleteGet
<1>4. /\ \A q \in Proc : q # p => pc'[q] = pc[q] /\ cur'[q] = cur[q]
      /\ \/ pc'[p] \in {"idle", "termMark", "termDelete", "termErase"}
         \/ pc'[p] = "termStop" /\ cur'[p] = cur[p] /\ IsSandbox(cur[p])
  BY <1>3, GotoMoves, ReturnMoves, CopyMoves DEF Moves
<1> QED
  BY <1>1, <1>2, <1>4 DEF KeepsRan, ToStop

LEMMA GCRan ==
    ASSUME TrueAnswers, TypeInv, OpenInv, Collects
    PROVE  KeepsRan(GC)
<1> USE DEF At, TypeInv
<1>a. GC \in Proc /\ (pc[GC] # "idle" => cur[GC] \in Attempt)
      /\ (pc[GC] \notin Unborn => db[cur[GC]] # "none")
  BY DEF Proc, ProcTypeOK, OpenInv
<1>1. \A id \in Attempt : box'[id] = "none" => box[id] = "none"
  <2>1. CASE CleanStop
    BY <1>a, <2>1, StopEffect DEF CleanStop
  <2>2. CASE UNCHANGED box
    BY <2>2
  <2> QED
    BY <2>1, <2>2
    DEF Collects, Visit, StaleGet, StaleDelete, StaleErase, StaleMark, CleanupPassed, CleanDelete, CleanErase
<1>2. \A id \in Attempt : db'[id] # "none" => db[id] # "none"
  <2>1. CASE StaleMark
    BY <1>a, <2>1, SaveEffect DEF StaleMark, Unborn
  <2>2. CASE UNCHANGED db
    BY <2>2
  <2> QED
    BY <2>1, <2>2
    DEF Collects, Visit, StaleGet, StaleDelete, StaleErase, CleanupPassed, CleanStop, CleanDelete, CleanErase
<1>3. CASE \E id \in Attempt : Visit(id)
  <2>1. PICK id \in Attempt : Visit(id)
    BY <1>3
  <2>2. CASE UNCHANGED procVars /\ pc[GC] = "idle"
    BY <1>1, <1>2, <2>2 DEF procVars, KeepsRan, ToStop
  <2>3. CASE \E label \in {"staleGet", "terminate", "cleanup"} : Take(GC, id, label)
    <3>1. /\ \A q \in Proc : q # GC => pc'[q] = pc[q] /\ cur'[q] = cur[q]
          /\ pc'[GC] \in {"staleGet", "terminate", "cleanup"}
      BY <1>a, <2>3, TakeMoves DEF Moves
    <3> QED
      BY <1>1, <1>2, <3>1 DEF KeepsRan, ToStop
  <2> QED
    BY <2>1, <2>2, <2>3 DEF Visit
<1>4. CASE \/ \E label \in {"staleDelete", "staleErase", "staleMark", "cleanDelete", "cleanErase"} :
                 Goto(GC, label) \/ Return(GC) \/ \E rec : Copy(GC, rec, label)
           \/ Goto(GC, "cleanStop") /\ IsSandbox(cur[GC])
  <2>1. /\ \A q \in Proc : q # GC => pc'[q] = pc[q] /\ cur'[q] = cur[q]
        /\ \/ pc'[GC] \in {"idle", "staleDelete", "staleErase", "staleMark", "cleanDelete", "cleanErase"}
           \/ pc'[GC] = "cleanStop" /\ cur'[GC] = cur[GC] /\ IsSandbox(cur[GC])
    BY <1>4, <1>a, GotoMoves, ReturnMoves, CopyMoves DEF Moves
  <2> QED
    BY <1>1, <1>2, <2>1 DEF KeepsRan, ToStop
<1> QED
  BY <1>3, <1>4
  DEF Collects, StaleGet, StaleDelete, StaleErase, StaleMark, CleanupPassed, CleanStop, CleanDelete, CleanErase, DeleteGet

LEMMA RanInductive ==
    ASSUME TrueAnswers, TypeInv, TypeInv', OpenInv, CustodyInv, RanInv, [Next]_vars
    PROVE  RanInv'
<1>1. ASSUME NEW p \in Proc, KeepsRan(p)
      PROVE  RanInv'
  BY <1>1, RanStep
<1>2. ASSUME NEW w \in Worker, Request(w) \/ WorkerStep(w)
      PROVE  RanInv'
  <2>1. w \in Proc
    BY DEF Proc
  <2>2. KeepsRan(w)
    BY <1>2, <2>1, RequestRan, StartRan, CallRan, TermRan DEF WorkerStep
  <2> QED
    BY <1>1, <2>1, <2>2
<1>3. CASE TermStep(GC) \/ Collects
  <2>1. GC \in Proc
    BY DEF Proc
  <2>2. KeepsRan(GC)
    BY <1>3, <2>1, TermRan, GCRan
  <2> QED
    BY <1>1, <2>1, <2>2
<1>4. ASSUME UNCHANGED <<db, box, pc, cur>>
      PROVE  RanInv'
  BY <1>4 DEF RanInv, IsSandbox
<1>5. CASE Tick \/ ReadListed \/ \E id \in Attempt : Prune(id) \/ Age(id) \/ Expire(id)
  BY <1>4, <1>5 DEF Tick, ReadListed, Prune, Age, Expire, procVars
<1>6. ASSUME \A i \in Attempt : box'[i] = "none" => box[i] = "none",
             UNCHANGED <<db, pc, cur>>
      PROVE  RanInv'
  <2>1. \A p \in Proc : pc[p] # "idle" => cur[p] \in Attempt
    BY DEF TypeInv, ProcTypeOK
  <2> QED
    BY <1>6, <2>1 DEF RanInv, IsSandbox, ToStop
<1>7. ASSUME NEW id \in Attempt, Kill(id)
      PROVE  RanInv'
  BY <1>6, <1>7 DEF Kill, procVars, TypeInv, PlaceTypeOK
<1>8. CASE Crash
  BY <1>8 DEF Crash, RanInv, ToStop, IsSandbox
<1>9. CASE Reconcile
  <2>1. box' \in {[i \in Attempt |-> IF box[i] = "up" THEN "gone" ELSE box[i]], box}
        /\ UNCHANGED <<db, pc, cur>>
    BY <1>9 DEF Reconcile, procVars
  <2> QED
    BY <1>6, <2>1
<1>10. CASE UNCHANGED vars
  BY <1>4, <1>10 DEF vars, procVars
<1> QED
  BY <1>2, <1>3, <1>5, <1>7, <1>8, <1>9, <1>10 DEF Next, GCStep, Environment, Collects

-----------------------------------------------------------------------------
\* The moves of one container in BoxCustody.
Passes(from, to) ==
    \/ from = to
    \/ <<from, to>> \in {<<"none", "inhand">>, <<"inhand", "listed">>, <<"inhand", "gone">>,
                         <<"listed", "inhand">>, <<"listed", "gone">>,
                         <<"left", "inhand">>, <<"left", "listed">>, <<"left", "gone">>}

\* A step of BoxCustody, or one it does not see.
Implements == Custody!Next \/ UNCHANGED <<[i \in Attempt |-> CustodyOf(i)], booting>>

\* A function that differs at one place.
LEMMA OneMoves ==
    ASSUME NEW S, NEW T, NEW c \in [S -> T], NEW d \in [S -> T], NEW id \in S,
           \A i \in S : i # id => d[i] = c[i]
    PROVE  d = [c EXCEPT ![id] = d[id]]
OBVIOUS

\* A step that moves one container at most, as BoxCustody allows, is a step of it.
LEMMA CustodyMoves ==
    ASSUME NEW id \in Attempt, \A i \in Attempt : i # id => CustodyOf(i)' = CustodyOf(i),
           Passes(CustodyOf(id), CustodyOf(id)'), UNCHANGED booting
    PROVE  Implements
<1> DEFINE c == [i \in Attempt |-> CustodyOf(i)]
           T == {CustodyOf(i) : i \in Attempt} \cup {CustodyOf(i)' : i \in Attempt}
<1>1. c \in [Attempt -> T] /\ \A i \in Attempt : c[i] = CustodyOf(i)
  OBVIOUS
<1>2. c' \in [Attempt -> T] /\ \A i \in Attempt : c'[i] = CustodyOf(i)'
  OBVIOUS
<1> HIDE DEF c, T
<1>3. c' = [c EXCEPT ![id] = c'[id]]
  BY <1>1, <1>2, OneMoves
<1>4. Passes(c[id], c'[id])
  BY <1>1, <1>2
<1>5. CASE c'[id] = c[id]
  BY <1>1, <1>3, <1>5 DEF c, Implements
<1>6. CASE c'[id] # c[id]
  <2>1. \/ c[id] \in {"none"} /\ c' = [c EXCEPT ![id] = "inhand"]
        \/ c[id] \in {"inhand"} /\ c' = [c EXCEPT ![id] = "listed"]
        \/ c[id] \in {"inhand"} /\ c' = [c EXCEPT ![id] = "gone"]
        \/ c[id] \in {"listed", "left"} /\ c' = [c EXCEPT ![id] = "inhand"]
        \/ c[id] \in {"left"} /\ c' = [c EXCEPT ![id] = "listed"]
        \/ c[id] \in {"listed", "left"} /\ c' = [c EXCEPT ![id] = "gone"]
    BY <1>3, <1>4, <1>6 DEF Passes
  <2>2. \/ Custody!Run(id) \/ Custody!Settle(id) \/ Custody!TakeOver(id)
        \/ Custody!Relist(id) \/ Custody!Stop(id)
    BY <2>1 DEF c, Custody!Run, Custody!Settle, Custody!TakeOver, Custody!Relist, Custody!Stop, Custody!Move
  <2> QED
    BY <2>2 DEF Custody!Next, Implements
<1> QED
  BY <1>5, <1>6

\* Where a container is when nobody forgets one.
LEMMA CustodyNow ==
    ASSUME NoOrphanBox, NEW id \in Attempt
    PROVE  /\ box[id] \in {"none", "gone"} => CustodyOf(id) = box[id]
           /\ box[id] = "up" => CustodyOf(id) = IF Visible(id) THEN "listed"
                                                ELSE IF InHand(id) THEN "inhand" ELSE "left"
<1>1. Up(id) => Visible(id) \/ InHand(id) \/ booting
  BY DEF NoOrphanBox
<1> QED
  BY <1>1 DEF CustodyOf, Up

LEMMA CustodyNext ==
    ASSUME NoOrphanBox', NEW id \in Attempt
    PROVE  /\ box'[id] \in {"none", "gone"} => CustodyOf(id)' = box'[id]
           /\ box'[id] = "up" => CustodyOf(id)' = IF Visible(id)' THEN "listed"
                                                  ELSE IF InHand(id)' THEN "inhand" ELSE "left"
<1>1. Up(id)' => Visible(id)' \/ InHand(id)' \/ booting'
  BY DEF NoOrphanBox
<1> QED
  BY <1>1 DEF CustodyOf, Up

\* The step does not touch container id, or who answers for it.
Keeps(id) ==
    /\ box'[id] = box[id]
    /\ Visible(id)' <=> Visible(id)
    /\ Up(id)' => (InHand(id)' <=> InHand(id))

\* A live container somebody answers for finds nobody gone.
KeepsAnswer(id) ==
    Up(id) /\ (Visible(id) \/ InHand(id)) => Visible(id)' \/ InHand(id)'

\* A step at which one container at most is run, goes, or changes hands.
LEMMA OneHandsOver ==
    ASSUME TypeInv, TypeInv', CustodyInv, CustodyInv', UNCHANGED booting, NEW id \in Attempt,
           \A i \in Attempt : i # id => Keeps(i),
           \/ box'[id] = box[id] /\ KeepsAnswer(id)
           \/ box[id] = "up" /\ box'[id] = "gone"
           \/ box[id] = "none" /\ box'[id] = "up" /\ ~Visible(id)' /\ InHand(id)'
    PROVE  Implements
<1>1. NoOrphanBox /\ NoOrphanBox'
  BY DEF CustodyInv
<1>2. \A i \in Attempt : box[i] \in {"none", "up", "gone"} /\ box'[i] \in {"none", "up", "gone"}
  BY DEF TypeInv, PlaceTypeOK
<1>3. ASSUME NEW i \in Attempt, i # id
      PROVE  CustodyOf(i)' = CustodyOf(i)
  <2>1. /\ box'[i] = box[i]
        /\ Visible(i)' <=> Visible(i)
        /\ box'[i] = "up" => (InHand(i)' <=> InHand(i))
    BY <1>3 DEF Keeps, Up
  <2> QED
    BY <1>1, <1>2, <2>1, CustodyNow, CustodyNext
<1>4. Passes(CustodyOf(id), CustodyOf(id)')
  <2>1. /\ box[id] \in {"none", "gone"} => CustodyOf(id) = box[id]
        /\ box[id] = "up" => CustodyOf(id) = IF Visible(id) THEN "listed"
                                             ELSE IF InHand(id) THEN "inhand" ELSE "left"
    BY <1>1, CustodyNow
  <2>2. /\ box'[id] \in {"none", "gone"} => CustodyOf(id)' = box'[id]
        /\ box'[id] = "up" => CustodyOf(id)' = IF Visible(id)' THEN "listed"
                                               ELSE IF InHand(id)' THEN "inhand" ELSE "left"
    BY <1>1, CustodyNext
  <2>3. CASE box'[id] = box[id] /\ box[id] # "up"
    <3>1. CustodyOf(id)' = CustodyOf(id)
      BY <1>2, <2>1, <2>2, <2>3
    <3> QED
      BY <3>1 DEF Passes
  <2>4. CASE box[id] = "up" /\ box'[id] = "up" /\ KeepsAnswer(id)
    <3>1. /\ CustodyOf(id) \in {"listed", "inhand", "left"}
          /\ CustodyOf(id)' \in {"listed", "inhand", "left"}
      BY <2>1, <2>2, <2>4
    <3>2. CustodyOf(id)' = "left" => CustodyOf(id) = "left"
      <4>1. CustodyOf(id)' = "left" => ~Visible(id)' /\ ~InHand(id)'
        BY <2>2, <2>4
      <4>2. ~Visible(id)' /\ ~InHand(id)' => ~Visible(id) /\ ~InHand(id)
        BY <2>4 DEF KeepsAnswer, Up
      <4>3. ~Visible(id) /\ ~InHand(id) => CustodyOf(id) = "left"
        BY <2>1, <2>4
      <4> QED
        BY <4>1, <4>2, <4>3
    <3> QED
      BY <3>1, <3>2 DEF Passes
  <2>5. CASE box[id] = "up" /\ box'[id] = "gone"
    <3>1. CustodyOf(id) \in {"listed", "inhand", "left"} /\ CustodyOf(id)' = "gone"
      BY <2>1, <2>2, <2>5
    <3> QED
      BY <3>1 DEF Passes
  <2>6. CASE box[id] = "none" /\ box'[id] = "up" /\ ~Visible(id)' /\ InHand(id)'
    <3>1. CustodyOf(id) = "none" /\ CustodyOf(id)' = "inhand"
      BY <2>1, <2>2, <2>6
    <3> QED
      BY <3>1 DEF Passes
  <2> QED
    BY <1>2, <2>3, <2>4, <2>5, <2>6
<1> QED
  BY <1>3, <1>4, CustodyMoves

\* So is every step of a handler or of the collector.
LEMMA ProcessImplements ==
    ASSUME TypeInv, TypeInv', CustodyInv, CustodyInv', NEW p \in Proc, HandsOver(p), KeepsListed(p)
    PROVE  Implements
<1>1. UNCHANGED booting
  BY DEF KeepsListed
<1>2. /\ \A q \in Proc : q # p => pc'[q] = pc[q] /\ cur'[q] = cur[q]
      /\ cur'[p] # cur[p] /\ pc'[p] \in Holding => box'[cur'[p]] # "up"
  BY DEF HandsOver, HandsApart
<1>3. ASSUME NEW q \in Proc, q # p, NEW i
      PROVE  Responsible(q, i)' <=> Responsible(q, i)
  BY <1>2, <1>3 DEF Responsible
<1>4. ASSUME NEW i \in Attempt, i # cur[p]
      PROVE  Keeps(i)
  <2>1. box'[i] = box[i] /\ (Visible(i)' <=> Visible(i))
    BY <1>4 DEF HandsOver
  <2>2. ~Responsible(p, i)
    BY <1>4 DEF Responsible
  <2>3. Up(i)' => ~Responsible(p, i)'
    BY <1>2, <1>4 DEF Responsible, Up, Holding
  <2> QED
    BY <1>3, <2>1, <2>2, <2>3 DEF Keeps, InHand
<1>5. CASE cur[p] \in Attempt
  <2> PICK id \in Attempt : id = cur[p]
    BY <1>5
  <2>1. Lives(p, id)
    BY DEF HandsOver
  <2>2. box'[id] = box[id] => KeepsAnswer(id)
    <3> SUFFICES ASSUME Up(id), Up(id)', Visible(id) \/ InHand(id)
                 PROVE  Visible(id)' \/ InHand(id)'
      BY DEF KeepsAnswer, Up
    <3>1. Visible(id)' \/ Responsible(p, id)' \/ (~Visible(id) /\ ~Responsible(p, id))
      BY DEF KeepsListed
    <3>2. ASSUME ~Visible(id), ~Responsible(p, id)
          PROVE  InHand(id)'
      <4>1. PICK q \in Proc : Responsible(q, id) /\ q # p
        BY <3>2 DEF InHand
      <4> QED
        BY <1>3, <4>1 DEF InHand
    <3> QED
      BY <3>1, <3>2 DEF InHand
  <2>3. Responsible(p, id)' => InHand(id)'
    BY DEF InHand
  <2> QED
    BY <1>1, <1>4, <2>1, <2>2, <2>3, OneHandsOver DEF Lives
<1>6. CASE cur[p] \notin Attempt
  <2>1. \A i \in Attempt : Keeps(i)
    BY <1>4, <1>6
  <2>2. ASSUME NEW id \in Attempt
        PROVE  Implements
    <3>1. box'[id] = box[id] /\ KeepsAnswer(id)
      BY <2>1 DEF Keeps, KeepsAnswer, Up
    <3> QED
      BY <1>1, <2>1, <3>1, OneHandsOver
  <2>3. CASE Attempt = {}
    BY <1>1, <2>3 DEF Implements
  <2> QED
    BY <2>2, <2>3
<1> QED
  BY <1>5, <1>6

\* And every other step, the end of the process apart.
LEMMA OthersImplement ==
    ASSUME TrueAnswers, TypeInv, TypeInv', CustodyInv, CustodyInv', NEW id \in Attempt,
           Prune(id) \/ Age(id) \/ Kill(id) \/ Expire(id)
    PROVE  Implements
<1> USE DEF TypeInv, PlaceTypeOK, CacheTypeOK
<1>1. UNCHANGED <<pc, cur, booting>>
  BY DEF Prune, Age, Kill, Expire, procVars
<1>2. \A i \in Attempt : InHand(i)' <=> InHand(i)
  BY <1>1 DEF InHand, Responsible
<1>3. \A i \in Attempt : i # id => box'[i] = box[i] /\ (Visible(i)' <=> Visible(i))
  <2>1. CASE Prune(id)
    BY <2>1 DEF Prune, Visible, Cached
  <2>2. CASE Age(id)
    BY <2>2 DEF Age, Visible, Cached
  <2>3. CASE Kill(id)
    BY <2>3 DEF Kill, cacheVars, Visible, Cached
  <2>4. CASE Expire(id)
    BY <2>4 DEF Expire, Visible, Cached
  <2> QED
    BY <2>1, <2>2, <2>3, <2>4
<1>4. \A i \in Attempt : i # id => Keeps(i)
  BY <1>2, <1>3 DEF Keeps
<1>5. box'[id] = box[id] \/ (box[id] = "up" /\ box'[id] = "gone")
  BY DEF Prune, Age, Kill, Expire
<1>6. box'[id] = box[id] => KeepsAnswer(id)
  <2>1. CASE Prune(id)
    <3>1. Up(id) => InHand(id)
      BY <2>1 DEF Prune, CustodyInv, PruneInv, Stopping, InHand, Responsible
    <3> QED
      BY <1>2, <3>1 DEF KeepsAnswer
  <2>2. CASE Age(id)
    <3>1. Visible(id) => Visible(id)'
      BY <2>2 DEF Age, Visible, Cached, Record
    <3> QED
      BY <1>2, <3>1 DEF KeepsAnswer
  <2>3. CASE Kill(id)
    BY <2>3 DEF Kill
  <2>4. CASE Expire(id)
    <3>1. ~Visible(id)
      BY <2>4 DEF Expire, Fault, TrueAnswers
    <3> QED
      BY <1>2, <3>1 DEF KeepsAnswer
  <2> QED
    BY <2>1, <2>2, <2>3, <2>4
<1> QED
  BY <1>1, <1>4, <1>5, <1>6, OneHandsOver

\* The end of the process leaves to Reconcile what its Starts had in hand.
LEMMA CrashImplements ==
    ASSUME TypeInv, CustodyInv, CustodyInv', Crash
    PROVE  Implements
<1>1. /\ UNCHANGED <<main, active, box>>
      /\ \A p \in Proc : pc'[p] = "idle"
      /\ booting' = TRUE
  BY DEF Crash, cacheVars
<1>2. NoOrphanBox /\ NoOrphanBox'
  BY DEF CustodyInv
<1>3. ASSUME NEW i \in Attempt
      PROVE  CustodyOf(i)' = IF CustodyOf(i) = "inhand" THEN "left" ELSE CustodyOf(i)
  <2>1. box'[i] = box[i] /\ (Visible(i)' <=> Visible(i)) /\ ~InHand(i)'
    BY <1>1 DEF Visible, Cached, InHand, Responsible
  <2>2. box[i] \in {"none", "up", "gone"}
    BY DEF TypeInv, PlaceTypeOK
  <2> QED
    BY <1>2, <2>1, <2>2, CustodyNow, CustodyNext
<1>4. Custody!Crash
  BY <1>1, <1>3 DEF Custody!Crash
<1> QED
  BY <1>4 DEF Custody!Next, Implements

\* Reconcile ends every container.
LEMMA ReconcileImplements ==
    ASSUME TrueAnswers, TypeInv, CustodyInv, CustodyInv', Reconcile
    PROVE  Implements
<1>1. ~Fault("rm")
  BY DEF Fault, TrueAnswers
<1>2. /\ booting /\ booting' = FALSE
      /\ box' = [i \in Attempt |-> IF box[i] = "up" THEN "gone" ELSE box[i]]
  BY <1>1 DEF Reconcile
<1>3. NoOrphanBox /\ NoOrphanBox'
  BY DEF CustodyInv
<1>4. ASSUME NEW i \in Attempt
      PROVE  CustodyOf(i)' = IF CustodyOf(i) = "none" THEN "none" ELSE "gone"
  <2>1. box[i] \in {"none", "up", "gone"} /\ box'[i] = IF box[i] = "up" THEN "gone" ELSE box[i]
    BY <1>2 DEF TypeInv, PlaceTypeOK
  <2>2. CustodyOf(i)' = box'[i]
    BY <1>3, <2>1, CustodyNext
  <2>3. CustodyOf(i) = "none" <=> box[i] = "none"
    BY <1>3, <2>1, CustodyNow
  <2> QED
    BY <2>1, <2>2, <2>3
<1>5. Custody!Reconcile
  BY <1>2, <1>4 DEF Custody!Reconcile
<1> QED
  BY <1>5 DEF Custody!Next, Implements

LEMMA StepImplements ==
    ASSUME TrueAnswers, TypeInv, OpenInv, CustodyInv, RanInv, [Next]_vars
    PROVE  Implements
<1>a. TypeInv' /\ OpenInv' /\ CustodyInv'
  BY TypeInductive, OpenInductive, CustodyInductive
<1>1. ASSUME NEW w \in Worker, Request(w) \/ WorkerStep(w)
      PROVE  Implements
  <2>1. w \in Proc
    BY DEF Proc
  <2>2. HandsOver(w)
    BY <1>1, <1>a, <2>1, RequestHandsOver, StartHandsOver, CallHandsOver, TermHandsOver DEF WorkerStep
  <2>3. KeepsListed(w)
    BY <1>1, <1>a, <2>1, RequestCustody, StartStepCustody, CallStepCustody, TermStepCustody DEF WorkerStep
  <2> QED
    BY <1>a, <2>1, <2>2, <2>3, ProcessImplements
<1>2. CASE TermStep(GC) \/ Collects
  <2>1. GC \in Proc
    BY DEF Proc
  <2>2. HandsOver(GC)
    BY <1>2, <1>a, <2>1, TermHandsOver, GCHandsOver
  <2>3. KeepsListed(GC)
    BY <1>2, <1>a, <2>1, TermStepCustody, CollectsCustody
  <2> QED
    BY <1>a, <2>1, <2>2, <2>3, ProcessImplements
<1>3. ASSUME NEW id \in Attempt, Prune(id) \/ Age(id) \/ Kill(id) \/ Expire(id)
      PROVE  Implements
  BY <1>3, <1>a, OthersImplement
<1>4. CASE Tick \/ ReadListed \/ UNCHANGED vars
  <2>1. UNCHANGED <<main, active, box, pc, cur, booting>>
    BY <1>4 DEF Tick, ReadListed, vars, cacheVars, procVars
  <2>2. \A i \in Attempt : CustodyOf(i)' = CustodyOf(i)
    BY <2>1 DEF CustodyOf, Up, Visible, Cached, InHand, Responsible
  <2> QED
    BY <2>1, <2>2 DEF Implements
<1>5. CASE Crash \/ Reconcile
  BY <1>5, <1>a, CrashImplements, ReconcileImplements
<1> QED
  BY <1>1, <1>2, <1>3, <1>4, <1>5 DEF Next, GCStep, Environment, Collects

LEMMA RanInit == Init => RanInv
BY DEF Init, RanInv, IsSandbox, ToStop

LEMMA InitImplements == Init => Custody!Init
<1> SUFFICES ASSUME Init
             PROVE  [id \in Attempt |-> CustodyOf(id)] = [id \in Attempt |-> "none"] /\ booting = FALSE
  BY DEF Custody!Init
<1>1. ASSUME NEW id \in Attempt
      PROVE  CustodyOf(id) = "none"
  <2>1. box[id] = "none"
    BY DEF Init
  <2> QED
    BY <2>1 DEF CustodyOf, Up
<1>2. booting = FALSE
  BY DEF Init
<1> QED
  BY <1>1, <1>2

(***************************************************************************)
(* The lifecycle implements the safety part of BoxCustody: from the run to *)
(* the end of every container one of a Start in progress and the           *)
(* collector's list answers for it, they pass it on without a gap (Start,  *)
(* Terminate, the collector and all their rollbacks), and a container that *)
(* is gone does not come back.  What a process that dies has in hand goes  *)
(* to the Reconcile that is then due, or before it to the list, if a       *)
(* record of it is written; no step but the crash leaves one behind.       *)
(***************************************************************************)
THEOREM BoxesAreHandedOver ==
    ASSUME TrueAnswers
    PROVE  Spec => KeepsHandover
<1>1. Init => OpenInv /\ RanInv
  BY OpenInit, RanInit
<1>2. TypeInv /\ TypeInv' /\ OpenInv /\ CustodyInv /\ RanInv /\ [Next]_vars => OpenInv' /\ RanInv'
  BY OpenInductive, RanInductive
<1>3. Spec => [](TypeInv /\ OpenInv /\ CustodyInv /\ RanInv)
  BY <1>1, <1>2, TypeInvariant, CustodyAlways, PTL DEF Spec
<1>4. /\ TypeInv /\ OpenInv /\ CustodyInv /\ RanInv
      /\ [Next]_vars
      => [Custody!Next]_(Custody!cvars)
  BY StepImplements DEF Implements, Custody!cvars
<1>5. Spec => [][Custody!Next]_(Custody!cvars)
  BY <1>3, <1>4, PTL DEF Spec
<1>6. Spec => Custody!Init
  BY InitImplements DEF Spec
<1> QED
  BY <1>5, <1>6, PTL DEF KeepsHandover, Custody!Handover
=============================================================================
