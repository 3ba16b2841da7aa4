---------------------------- MODULE RunnerProofs ----------------------------
(***************************************************************************)
(* The two runners of the page that keep state: no promise of the bundle   *)
(* runner is forgotten, and the editor's checks see the files of their own *)
(* bundle and what the user wrote, for any number of everything.           *)
(***************************************************************************)
EXTENDS EditRunner, BundleRunner, TLAPS

-----------------------------------------------------------------------------
(* The bundle runner.                                                      *)

\* A call that waits was made.
CallsMade == \A n \in Call : outcome[n] = "waits" => n <= calls

FrameInv == FrameTypeOK /\ CallsMade /\ NoneForgotten

LEMMA FrameInitInv == FrameInit => FrameInv
<1> SUFFICES ASSUME FrameInit PROVE FrameInv
  OBVIOUS
<1>1. FrameTypeOK
  <2>1. mounts \in 0 .. MaxMounts /\ calls \in 0 .. MaxChecks
    BY FrameAssumption DEF FrameInit
  <2>2. outcome \in [Call -> {"none", "waits", "resolved", "rejected"}]
    BY DEF FrameInit
  <2> QED
    BY <2>1, <2>2 DEF FrameInit, FrameTypeOK
<1>2. CallsMade /\ NoneForgotten
  BY DEF FrameInit, CallsMade, NoneForgotten
<1> QED
  BY <1>1, <1>2 DEF FrameInv

\* Settling the call that waits, and forgetting it.
LEMMA SettleCall ==
    ASSUME FrameInv, NEW o \in {"resolved", "rejected"},
           waiting # NoCall, waiting' = NoCall, Become(o), calls' = calls
    PROVE  /\ outcome' \in [Call -> {"none", "waits", "resolved", "rejected"}]
           /\ CallsMade' /\ NoneForgotten'
<1>1. waiting \in Call
  BY DEF FrameInv, FrameTypeOK
<1> QED
  BY <1>1 DEF FrameInv, FrameTypeOK, CallsMade, NoneForgotten, Become, Call, NoCall

LEMMA FrameSame ==
    ASSUME FrameInv, UNCHANGED <<calls, waiting, outcome>>
    PROVE  CallsMade' /\ NoneForgotten'
BY DEF FrameInv, CallsMade, NoneForgotten

LEMMA ClearKeeps ==
    ASSUME FrameInv, ClearPending(TRUE), calls' = calls
    PROVE  /\ waiting' = NoCall
           /\ outcome' \in [Call -> {"none", "waits", "resolved", "rejected"}]
           /\ CallsMade' /\ NoneForgotten'
<1>1. CASE waiting = NoCall
  BY <1>1 DEF ClearPending, FrameInv, FrameTypeOK, CallsMade, NoneForgotten
<1>2. CASE waiting # NoCall
  BY <1>2, SettleCall DEF ClearPending
<1> QED
  BY <1>1, <1>2

LEMMA TriggerKeeps ==
    ASSUME FrameInv, TriggerCheck
    PROVE  FrameInv'
<1> USE FrameAssumption
<1>1. calls + 1 \in Call /\ calls' = calls + 1 /\ calls \in Nat
  BY DEF TriggerCheck, FrameInv, FrameTypeOK, Call
<1>2. CASE ready
  <2>1. /\ waiting' = calls + 1
        /\ outcome' = [outcome EXCEPT ![calls + 1] = "waits"]
        /\ judging' = judging \cup {calls + 1}
    BY <1>2 DEF TriggerCheck
  <2> QED
    BY <1>1, <2>1 DEF TriggerCheck, FrameInv, FrameTypeOK, CallsMade, NoneForgotten, Call, NoCall
<1>3. CASE ~ready
  <2>1. /\ outcome' = [outcome EXCEPT ![calls + 1] = "rejected"]
        /\ waiting' = waiting /\ judging' = judging
    BY <1>3 DEF TriggerCheck
  <2>2. waiting # NoCall => waiting \in Call /\ waiting <= calls
    BY DEF FrameInv, FrameTypeOK, NoneForgotten, CallsMade
  <2> QED
    BY <1>1, <2>1, <2>2 DEF TriggerCheck, FrameInv, FrameTypeOK, CallsMade, NoneForgotten, Call, NoCall
<1> QED
  BY <1>2, <1>3

LEMMA MessageKeeps ==
    ASSUME FrameInv, OnMessage
    PROVE  FrameInv'
<1> PICK m \in inbox :
        /\ inbox' = inbox \ {m}
        /\ IF mounted
           THEN /\ ready' = (ready \/ m = ReadyMsg)
                /\ Hear(m)
                /\ IF m = ReadyMsg \/ waiting = NoCall THEN UNCHANGED outcome
                   ELSE \E o \in {"resolved", "rejected"} : Become(o)
           ELSE UNCHANGED <<ready, waiting, outcome>>
        /\ UNCHANGED <<mounts, mounted, calls, judging>>
  BY DEF OnMessage
<1>1. ready' \in BOOLEAN
  BY DEF FrameInv, FrameTypeOK
<1>2. CASE waiting' = waiting /\ outcome' = outcome
  <2>1. CallsMade' /\ NoneForgotten'
    BY <1>2, FrameSame
  <2> QED
    BY <1>1, <1>2, <2>1 DEF FrameInv, FrameTypeOK
<1>3. CASE ~(waiting' = waiting /\ outcome' = outcome)
  <2>1. PICK o \in {"resolved", "rejected"} : Become(o)
    BY <1>3 DEF Hear
  <2>2. waiting # NoCall /\ waiting' = NoCall
    BY <1>3 DEF Hear
  <2>3. /\ outcome' \in [Call -> {"none", "waits", "resolved", "rejected"}]
        /\ CallsMade' /\ NoneForgotten'
    BY <2>1, <2>2, SettleCall
  <2> QED
    BY <1>1, <2>2, <2>3 DEF FrameInv, FrameTypeOK
<1> QED
  BY <1>2, <1>3

LEMMA FrameStep == FrameInv /\ [FrameNext]_frameVars => FrameInv'
<1> SUFFICES ASSUME FrameInv, [FrameNext]_frameVars PROVE FrameInv'
  OBVIOUS
<1>1. CASE MountFrame
  <2>1. CallsMade' /\ NoneForgotten'
    BY <1>1, FrameSame DEF MountFrame
  <2>2. mounts' \in 0 .. MaxMounts
    BY <1>1, FrameAssumption DEF MountFrame, FrameInv, FrameTypeOK
  <2>3. mounted' \in BOOLEAN /\ ready' \in BOOLEAN
    BY <1>1 DEF MountFrame
  <2>4. UNCHANGED <<calls, waiting, outcome, judging, inbox>>
    BY <1>1 DEF MountFrame
  <2> QED
    BY <2>1, <2>2, <2>3, <2>4 DEF FrameInv, FrameTypeOK
<1>2. CASE UnmountFrame
  <2>1. /\ waiting' = NoCall
        /\ outcome' \in [Call -> {"none", "waits", "resolved", "rejected"}]
        /\ CallsMade' /\ NoneForgotten'
    BY <1>2, ClearKeeps DEF UnmountFrame
  <2> QED
    BY <1>2, <2>1 DEF UnmountFrame, FrameInv, FrameTypeOK
<1>3. CASE TriggerCheck
  BY <1>3, TriggerKeeps
<1>4. CASE CheckTimer
  <2>1. /\ outcome' \in [Call -> {"none", "waits", "resolved", "rejected"}]
        /\ CallsMade' /\ NoneForgotten'
    BY <1>4, SettleCall DEF CheckTimer
  <2> QED
    BY <1>4, <2>1 DEF CheckTimer, FrameInv, FrameTypeOK
<1>5. CASE FrameSpeaks
  <2>1. CallsMade' /\ NoneForgotten'
    BY <1>5, FrameSame DEF FrameSpeaks
  <2> QED
    BY <1>5, <2>1 DEF FrameSpeaks, FrameInv, FrameTypeOK
<1>6. CASE OnMessage
  BY <1>6, MessageKeeps
<1>7. CASE UNCHANGED frameVars
  BY <1>7 DEF frameVars, FrameInv, FrameTypeOK, CallsMade, NoneForgotten
<1> QED
  BY <1>1, <1>2, <1>3, <1>4, <1>5, <1>6, <1>7 DEF FrameNext

(***************************************************************************)
(* Whatever the bundle says, and whenever the runner is unmounted or the   *)
(* user clicks again, only a later click can leave a promise without       *)
(* anybody who will settle it.                                             *)
(***************************************************************************)
THEOREM NoPromiseIsForgotten == FrameSpec => []NoneForgotten
<1>1. FrameInv => NoneForgotten
  BY DEF FrameInv
<1> QED
  BY <1>1, FrameInitInv, FrameStep, PTL DEF FrameSpec

-----------------------------------------------------------------------------
(* The editor's runner.                                                    *)

OwnDisk == \A f \in File : disk[f].of = bundle

\* A start is under way only in a runner that is mounted and not ready; a
\* check of the mounted runner finds it ready.
Phases ==
    /\ bundle = NoBundle => status = "idle" /\ flow = "none"
    /\ status = "ready" => flow = "none"
    /\ \A j \in Slot : Here(j) => status = "ready" /\ job[j].of = bundle

\* Only a check that outlived its runner writes files of another bundle.
Files ==
    /\ flow = "cmd" \/ status = "ready" => outlived \/ OwnDisk
    /\ \A j \in Slot : Active(j) /\ ~job[j].here /\ job[j].at = "flush" => outlived

\* What a check saves is asked for, and what it marked is to be saved or is
\* on the disk as asked for.
Saves(k) ==
    /\ \A f \in File : drafts[f] \in k.asked[f]
    /\ \A f \in k.marked : f \in k.todo \/ disk[f].text \in k.asked[f]

Found(k) == \A f \in k.marked : k.ran[f] \in k.asked[f]

Checks ==
    \A j \in Slot : Here(j) /\ ~outlived =>
        /\ job[j].at = "flush" => Saves(job[j])
        /\ job[j].at = "run" => Found(job[j])

EditInv == EditTypeOK /\ Phases /\ Files /\ Checks

LEMMA EditInitInv == EditInit => EditInv
<1> SUFFICES ASSUME EditInit PROVE EditInv
  OBVIOUS
<1> USE EditAssumption
<1>1. EditTypeOK
  <2>1. drafts \in [File -> Text]
    BY DEF EditInit, Text, Pristine
  <2>2. disk \in [File -> Content]
    BY DEF EditInit, Text, Content
  <2>3. job \in [Slot -> Job \cup {NoJob}]
    BY DEF EditInit
  <2> QED
    BY <2>1, <2>2, <2>3 DEF EditInit, EditTypeOK
<1>2. \A j \in Slot : ~Active(j)
  BY DEF EditInit, Active
<1>3. Phases /\ Files /\ Checks
  BY <1>2 DEF EditInit, Phases, Files, Checks, Here, Active
<1> QED
  BY <1>1, <1>3 DEF EditInv

\* A job is one of two kinds.
LEMMA JobOrNot ==
    ASSUME EditTypeOK, NEW j \in Slot
    PROVE  /\ Active(j) <=> job[j] \in Job
           /\ Active(j) => job[j].here \in BOOLEAN
           /\ Active(j) <=> job[j].at \in {"flush", "run"}
<1>1. NoJob \notin Job /\ NoJob.at = "none"
  <2>1. NoJob.at = "none"
    BY DEF NoJob
  <2>2. \A k \in Job : k.at \in {"flush", "run"}
    BY DEF Job
  <2> QED
    BY <2>1, <2>2
<1>2. job[j] \in Job \/ job[j] = NoJob
  BY DEF EditTypeOK
<1>3. \A k \in Job : k.at \in {"flush", "run"} /\ k.here \in BOOLEAN
  BY DEF Job
<1> QED
  BY <1>1, <1>2, <1>3 DEF Active

\* A step that leaves the checks alone while the runner is not ready.
LEMMA StartKeeps ==
    ASSUME EditInv, status # "ready",
           UNCHANGED <<bundle, drafts, dirty, saving, job, pending, outlived>>,
           status' = "ready" => flow' = "none",
           bundle = NoBundle => status' = "idle" /\ flow' = "none",
           flow' = "cmd" \/ status' = "ready" => outlived \/ OwnDisk',
           EditTypeOK'
    PROVE  EditInv'
<1>1. \A j \in Slot : ~Here(j)
  BY DEF EditInv, Phases
<1>2. \A j \in Slot : ~Here(j)'
  BY <1>1 DEF Here, Active
<1>3. Phases'
  BY <1>2 DEF Phases
<1>4. Files'
  BY DEF EditInv, Files, Active
<1>5. Checks'
  BY <1>2 DEF Checks
<1> QED
  BY <1>3, <1>4, <1>5 DEF EditInv

LEMMA MountInv ==
    ASSUME EditInv, NEW b \in Bundle, Mount(b)
    PROVE  EditInv'
<1>1. bundle = NoBundle /\ status # "ready"
  BY DEF Mount, EditInv, Phases
<1>2. \A j \in Slot : ~Here(j)
  BY <1>1 DEF EditInv, Phases
<1>3. \A j \in Slot : ~Here(j)'
  BY <1>2 DEF Here, Active, Mount, checkVars
<1>4. EditTypeOK'
  BY DEF Mount, EditInv, EditTypeOK, checkVars, textVars
<1>5. Phases'
  BY <1>3, EditAssumption DEF Phases, Mount
<1>6. Files'
  BY DEF Mount, EditInv, Files, Active, checkVars
<1>7. Checks'
  BY <1>3 DEF Checks
<1> QED
  BY <1>4, <1>5, <1>6, <1>7 DEF EditInv

LEMMA UnmountInv ==
    ASSUME EditInv, Unmount
    PROVE  EditInv'
<1> USE DEF EditInv
<1>1. ASSUME NEW k \in Job
      PROVE  /\ Orphan(k) \in Job /\ ~Orphan(k).here
             /\ Orphan(k).at = k.at
  <2> DEFINE text == IF k.at = "flush" THEN drafts ELSE Pristine
  <2>1. Pristine \in [File -> Text] /\ text \in [File -> Text]
    BY EditAssumption DEF Pristine, Text, EditTypeOK
  <2>2. [f \in File |-> {}] \in [File -> SUBSET Text]
    OBVIOUS
  <2> HIDE DEF text
  <2>3. Orphan(k) = [k EXCEPT !.here = FALSE, !.text = text, !.marked = {},
                              !.asked = [f \in File |-> {}], !.ran = Pristine]
    BY DEF Orphan, text
  <2> QED
    BY <2>1, <2>2, <2>3 DEF Job
<1>2. ASSUME NEW j \in Slot
      PROVE  /\ job'[j] \in Job \cup {NoJob}
             /\ ~Here(j)'
             /\ Active(j)' /\ job'[j].at = "flush" => outlived'
  <2>1. CASE Here(j)
    <3>1. job[j] \in Job /\ job'[j] = Orphan(job[j])
      BY <2>1, JobOrNot DEF Unmount, Here
    <3>2. job'[j] \in Job /\ ~job'[j].here /\ job'[j].at = job[j].at
      BY <3>1, <1>1
    <3>3. job[j].at = "flush" => outlived'
      BY <2>1 DEF Unmount
    <3> QED
      BY <3>2, <3>3 DEF Here
  <2>2. CASE ~Here(j)
    <3>1. job'[j] = job[j]
      BY <2>2 DEF Unmount
    <3>2. Active(j)' <=> Active(j)
      BY <3>1 DEF Active
    <3>3. ~Here(j)'
      BY <2>2, <3>1, <3>2 DEF Here
    <3>4. Active(j) /\ job[j].at = "flush" => outlived
      BY <2>2 DEF Files, Here
    <3>5. outlived => outlived'
      BY DEF Unmount
    <3> QED
      BY <3>1, <3>2, <3>3, <3>4, <3>5 DEF EditTypeOK
  <2> QED
    BY <2>1, <2>2
<1>3. EditTypeOK'
  <2>1. job' \in [Slot -> Job \cup {NoJob}]
    BY <1>2 DEF Unmount
  <2>2. drafts' \in [File -> Text]
    BY EditAssumption DEF Unmount, Pristine, Text
  <2>3. outlived' \in BOOLEAN
    BY DEF Unmount, EditTypeOK
  <2> QED
    BY <2>1, <2>2, <2>3 DEF Unmount, EditTypeOK
<1>4. Phases' /\ Files' /\ Checks'
  <2>1. bundle' = NoBundle /\ status' = "idle" /\ flow' = "none"
    BY DEF Unmount
  <2>2. Phases'
    BY <1>2, <2>1 DEF Phases
  <2>3. Files'
    BY <1>2, <2>1 DEF Files
  <2>4. Checks'
    BY <1>2 DEF Checks
  <2> QED
    BY <2>2, <2>3, <2>4
<1> QED
  BY <1>3, <1>4

LEMMA StartInv ==
    ASSUME EditInv, Fetched \/ EngineAwaited \/ CommandEnds
    PROVE  EditInv'
<1> USE DEF EditInv
<1>1. flow # "none" /\ status # "ready" /\ bundle # NoBundle
  BY DEF Fetched, EngineAwaited, CommandEnds, Phases
<1>2. UNCHANGED <<bundle, drafts, dirty, saving, job, pending, outlived>>
  BY DEF Fetched, EngineAwaited, CommandEnds, checkVars, textVars
<1>3. /\ status' = "ready" => flow' = "none"
      /\ flow' = "cmd" \/ status' = "ready" => outlived \/ OwnDisk'
  <2>1. CASE Fetched
    BY <1>1, <2>1 DEF Fetched, StartFails
  <2>2. CASE EngineAwaited
    BY <1>1, <2>2 DEF EngineAwaited, StartFails, FilesMounted, OwnDisk
  <2>3. CASE CommandEnds
    BY <1>1, <2>3 DEF CommandEnds, StartFails, Files, OwnDisk
  <2> QED
    BY <2>1, <2>2, <2>3
<1>4. EditTypeOK'
  <2>1. disk' \in [File -> Content]
    BY EditAssumption DEF Fetched, EngineAwaited, CommandEnds, StartFails, FilesMounted, EditTypeOK, Content, Text
  <2>2. /\ status' \in {"idle", "booting", "installing", "ready", "error"}
        /\ flow' \in {"none", "fetch", "boot", "cmd"}
        /\ engine' \in {"none", "booting", "up", "failed"}
    BY DEF Fetched, EngineAwaited, CommandEnds, StartFails, FilesMounted, EditTypeOK
  <2> QED
    BY <1>2, <2>1, <2>2 DEF EditTypeOK
<1> QED
  BY <1>1, <1>2, <1>3, <1>4, StartKeeps

LEMMA BootedInv ==
    ASSUME EditInv, Booted
    PROVE  EditInv'
<1>1. engine' \in {"none", "booting", "up", "failed"}
  BY DEF Booted
<1>2. UNCHANGED <<bundle, status, flow, drafts, dirty, disk, saving, job, pending, outlived>>
  BY DEF Booted, checkVars, textVars
<1>3. EditTypeOK'
  BY <1>1, <1>2 DEF EditInv, EditTypeOK
<1>4. Phases' /\ Files' /\ Checks'
  BY <1>2 DEF EditInv, Phases, Files, Checks, Here, Active, OwnDisk, Saves, Found
<1> QED
  BY <1>3, <1>4 DEF EditInv

\* A step of a check, or of the editor, that leaves the runner mounted as it
\* is: what remains to show, check by check.
LEMMA RunnerKeeps ==
    ASSUME EditInv, EditTypeOK', UNCHANGED <<bundle, status, flow, outlived>>,
           outlived \/ OwnDisk => outlived \/ OwnDisk',
           \A j \in Slot : Active(j)' =>
               /\ job'[j].here => status = "ready" /\ job'[j].of = bundle
               /\ ~job'[j].here /\ job'[j].at = "flush" => outlived
               /\ job'[j].here /\ ~outlived =>
                     /\ job'[j].at = "flush" => Saves(job[j])'
                     /\ job'[j].at = "run" => Found(job[j])'
    PROVE  EditInv'
<1>1. Phases'
  BY DEF EditInv, Phases, Here
<1>2. Files'
  BY DEF EditInv, Files
<1>3. Checks'
  BY DEF Checks, Here
<1> QED
  BY <1>1, <1>2, <1>3 DEF EditInv

\* What the invariant says of one check.
LEMMA OneCheck ==
    ASSUME EditInv, NEW j \in Slot, Active(j)
    PROVE  /\ job[j].here => status = "ready" /\ job[j].of = bundle
           /\ ~job[j].here /\ job[j].at = "flush" => outlived
           /\ job[j].here /\ ~outlived =>
                 /\ job[j].at = "flush" => Saves(job[j])
                 /\ job[j].at = "run" => Found(job[j])
BY DEF EditInv, Phases, Files, Checks, Here

LEMMA TypedInv ==
    ASSUME EditInv, NEW f \in File, NEW t \in Text, NEW marks \in SUBSET File,
           Typed(f, t, marks)
    PROVE  EditInv'
<1> USE DEF EditInv
<1> DEFINE Wider(k) == [k EXCEPT !.asked[f] = @ \cup {t}]
<1>1. ASSUME NEW k \in Job
      PROVE  /\ Wider(k) \in Job
             /\ Wider(k).at = k.at /\ Wider(k).here = k.here /\ Wider(k).of = k.of
             /\ Wider(k).marked = k.marked /\ Wider(k).todo = k.todo
             /\ Wider(k).asked = [k.asked EXCEPT ![f] = @ \cup {t}]
             /\ k.asked \in [File -> SUBSET Text] /\ k.marked \subseteq File
  BY DEF Job
<1>2. /\ drafts' = [drafts EXCEPT ![f] = t]
      /\ UNCHANGED <<bundle, status, flow, engine, disk, saving, pending, outlived>>
  BY DEF Typed
<1>3. ASSUME NEW j \in Slot
      PROVE  /\ job'[j] \in Job \cup {NoJob}
             /\ Here(j) /\ job[j].at = "flush" => job'[j] = Wider(job[j])
             /\ ~(Here(j) /\ job[j].at = "flush") => job'[j] = job[j]
  <2>1. CASE Here(j) /\ job[j].at = "flush"
    <3>1. job[j] \in Job
      BY <2>1, JobOrNot DEF Here
    <3>2. job'[j] = Wider(job[j])
      BY <2>1 DEF Typed
    <3> QED
      BY <2>1, <3>1, <3>2, <1>1
  <2>2. CASE ~(Here(j) /\ job[j].at = "flush")
    BY <2>2 DEF Typed, EditTypeOK
  <2> QED
    BY <2>1, <2>2
<1>4. EditTypeOK'
  <2>1. job' \in [Slot -> Job \cup {NoJob}]
    BY <1>3 DEF Typed
  <2>2. drafts' \in [File -> Text] /\ dirty' \subseteq File
    BY DEF Typed, EditTypeOK
  <2> QED
    BY <1>2, <2>1, <2>2 DEF EditTypeOK
<1>5. OwnDisk' <=> OwnDisk
  BY <1>2 DEF OwnDisk
<1>6. ASSUME NEW j \in Slot, Active(j)'
      PROVE  /\ job'[j].here => status = "ready" /\ job'[j].of = bundle
             /\ ~job'[j].here /\ job'[j].at = "flush" => outlived
             /\ job'[j].here /\ ~outlived =>
                   /\ job'[j].at = "flush" => Saves(job[j])'
                   /\ job'[j].at = "run" => Found(job[j])'
  <2>1. CASE Here(j) /\ job[j].at = "flush"
    <3>1. Active(j) /\ job[j] \in Job /\ job'[j] = Wider(job[j])
      BY <2>1, <1>3, JobOrNot DEF Here
    <3> HIDE DEF Wider
    <3>2. job'[j].at = "flush" /\ job'[j].of = bundle /\ status = "ready" /\ job'[j].here
      BY <2>1, <3>1, <1>1, OneCheck DEF Here
    <3>3. /\ job'[j].marked = job[j].marked /\ job'[j].todo = job[j].todo
          /\ job'[j].asked = [job[j].asked EXCEPT ![f] = @ \cup {t}]
          /\ job[j].asked \in [File -> SUBSET Text] /\ job[j].marked \subseteq File
      BY <3>1, <1>1
    <3>4. ~outlived => Saves(job[j])
      BY <2>1, <3>1, OneCheck DEF Here
    <3>5. drafts \in [File -> Text]
      BY DEF EditTypeOK
    <3>6. ~outlived => Saves(job[j])'
      BY <1>2, <3>3, <3>4, <3>5 DEF Saves
    <3> QED
      BY <3>2, <3>6
  <2>2. CASE ~(Here(j) /\ job[j].at = "flush")
    <3>1. job'[j] = job[j] /\ Active(j)
      BY <2>2, <1>3, <1>6 DEF Active
    <3>2. ~(job[j].here /\ job[j].at = "flush")
      BY <2>2, <3>1 DEF Here
    <3> QED
      BY <3>1, <3>2, OneCheck DEF Found
  <2> QED
    BY <2>1, <2>2
<1> QED
  BY <1>2, <1>4, <1>5, <1>6, RunnerKeeps

LEMMA SaveInv ==
    ASSUME EditInv, NEW f \in File, Save(f)
    PROVE  EditInv'
<1> USE DEF EditInv
<1>1. /\ status = "ready" /\ disk' = [disk EXCEPT ![f] = [of |-> bundle, text |-> drafts[f]]]
      /\ UNCHANGED <<bundle, status, flow, engine, drafts, dirty, job, pending, outlived>>
  BY DEF Save, Written, textVars, checkVars
<1>2. EditTypeOK'
  <2>1. disk' \in [File -> Content]
    BY <1>1 DEF EditTypeOK, Content
  <2>2. saving' \subseteq File
    BY DEF Save, EditTypeOK
  <2> QED
    BY <1>1, <2>1, <2>2 DEF EditTypeOK
<1>3. OwnDisk => OwnDisk'
  BY <1>1 DEF OwnDisk, EditTypeOK
<1>4. ASSUME NEW j \in Slot, Active(j)'
      PROVE  /\ job'[j].here => status = "ready" /\ job'[j].of = bundle
             /\ ~job'[j].here /\ job'[j].at = "flush" => outlived
             /\ job'[j].here /\ ~outlived =>
                   /\ job'[j].at = "flush" => Saves(job[j])'
                   /\ job'[j].at = "run" => Found(job[j])'
  <2>1. job'[j] = job[j] /\ Active(j)
    BY <1>1, <1>4 DEF Active
  <2>2. Found(job[j])' <=> Found(job[j])
    BY <1>1 DEF Found
  <2>3. Saves(job[j]) => Saves(job[j])'
    BY <1>1 DEF Saves, EditTypeOK
  <2> QED
    BY <2>1, <2>2, <2>3, OneCheck
<1> QED
  BY <1>1, <1>2, <1>3, <1>4, RunnerKeeps

LEMMA SaveAnsweredInv ==
    ASSUME EditInv, NEW f \in File, SaveAnswered(f)
    PROVE  EditInv'
<1>1. UNCHANGED <<bundle, status, flow, engine, drafts, disk, job, pending, outlived>>
  BY DEF SaveAnswered, checkVars
<1>2. EditTypeOK'
  BY <1>1 DEF SaveAnswered, EditInv, EditTypeOK
<1>3. Phases' /\ Files' /\ Checks'
  BY <1>1 DEF EditInv, Phases, Files, Checks, Here, Active, OwnDisk, Saves, Found
<1> QED
  BY <1>2, <1>3 DEF EditInv

\* What one check does to its own record.
LEMMA JobChange ==
    ASSUME EditTypeOK, NEW j \in Slot, NEW k \in Job \cup {NoJob},
           job' = [job EXCEPT ![j] = k]
    PROVE  /\ job' \in [Slot -> Job \cup {NoJob}]
           /\ job'[j] = k
           /\ \A i \in Slot \ {j} : job'[i] = job[i]
BY DEF EditTypeOK

\* The other checks hold whatever was written was asked for.
LEMMA OthersKeep ==
    ASSUME EditInv, NEW j \in Slot, NEW i \in Slot, Active(i)', job'[i] = job[i],
           UNCHANGED <<bundle, status, drafts, outlived>>,
           ~outlived => \A f \in File : \/ disk'[f].text = disk[f].text
                                        \/ disk'[f].text = drafts[f]
    PROVE  /\ job'[i].here => status = "ready" /\ job'[i].of = bundle
           /\ ~job'[i].here /\ job'[i].at = "flush" => outlived
           /\ job'[i].here /\ ~outlived =>
                 /\ job'[i].at = "flush" => Saves(job[i])'
                 /\ job'[i].at = "run" => Found(job[i])'
<1>1. Active(i)
  BY DEF Active
<1>2. job[i] \in Job
  BY <1>1, JobOrNot DEF EditInv
<1>3. job[i].marked \subseteq File
  BY <1>2 DEF Job
<1>4. ~outlived /\ Saves(job[i]) => Saves(job[i])'
  BY <1>3 DEF Saves
<1>5. Found(job[i]) => Found(job[i])'
  BY DEF Found
<1> QED
  BY <1>1, <1>4, <1>5, OneCheck

LEMMA TriggerInv ==
    ASSUME EditInv, NEW j \in Slot, Trigger(j)
    PROVE  EditInv'
<1> USE DEF EditInv
<1> DEFINE k == [at |-> "flush", of |-> bundle, here |-> TRUE, text |-> Pristine,
                 marked |-> dirty, todo |-> dirty, awaits |-> NoFile,
                 asked |-> [f \in File |-> {drafts[f]}], ran |-> Pristine]
<1>1. /\ status = "ready" /\ job' = [job EXCEPT ![j] = k]
      /\ UNCHANGED <<bundle, status, flow, engine, drafts, dirty, disk, saving, outlived>>
      /\ pending' = pending \cup {j}
  BY DEF Trigger, textVars
<1>2. k \in Job
  <2>1. bundle \in Bundle
    BY <1>1 DEF Phases, EditTypeOK
  <2>2. Pristine \in [File -> Text]
    BY EditAssumption DEF Pristine, Text
  <2>3. [f \in File |-> {drafts[f]}] \in [File -> SUBSET Text] /\ dirty \subseteq File
    BY DEF EditTypeOK
  <2> QED
    BY <2>1, <2>2, <2>3 DEF Job
<1>3. k.here /\ k.of = bundle /\ k.at = "flush" /\ k.marked = dirty /\ k.todo = dirty
      /\ k.asked = [f \in File |-> {drafts[f]}]
  OBVIOUS
<1> HIDE DEF k
<1>4. /\ job' \in [Slot -> Job \cup {NoJob}] /\ job'[j] = k
      /\ \A i \in Slot \ {j} : job'[i] = job[i]
  BY <1>1, <1>2, JobChange
<1>5. EditTypeOK'
  BY <1>1, <1>4 DEF EditTypeOK
<1>6. OwnDisk' <=> OwnDisk
  BY <1>1 DEF OwnDisk
<1>7. Saves(job[j])'
  BY <1>1, <1>3, <1>4 DEF Saves, EditTypeOK
<1>8. ASSUME NEW i \in Slot, Active(i)'
      PROVE  /\ job'[i].here => status = "ready" /\ job'[i].of = bundle
             /\ ~job'[i].here /\ job'[i].at = "flush" => outlived
             /\ job'[i].here /\ ~outlived =>
                   /\ job'[i].at = "flush" => Saves(job[i])'
                   /\ job'[i].at = "run" => Found(job[i])'
  <2>1. CASE i = j
    BY <2>1, <1>1, <1>3, <1>4, <1>7
  <2>2. CASE i # j
    BY <2>2, <1>1, <1>4, <1>8, OthersKeep
  <2> QED
    BY <2>1, <2>2
<1> QED
  BY <1>1, <1>5, <1>6, <1>8, RunnerKeeps

LEMMA FlushNextInv ==
    ASSUME EditInv, NEW j \in Slot, FlushNext(j)
    PROVE  EditInv'
<1> USE DEF EditInv
<1> PICK f \in job[j].todo :
        /\ Written(f, job[j].of, IF job[j].here THEN drafts[f] ELSE job[j].text[f])
        /\ job' = [job EXCEPT ![j].todo = @ \ {f}, ![j].awaits = f]
  BY DEF FlushNext
<1> DEFINE k == [job[j] EXCEPT !.todo = @ \ {f}, !.awaits = f]
           t == IF job[j].here THEN drafts[f] ELSE job[j].text[f]
<1>1. /\ Active(j) /\ job[j].at = "flush"
      /\ UNCHANGED <<bundle, status, flow, engine, drafts, dirty, saving, pending, outlived>>
  BY DEF FlushNext, textVars
<1>2. job[j] \in Job
  BY <1>1, JobOrNot
<1>3. f \in File /\ job[j].of \in Bundle /\ job[j].text \in [File -> Text]
  BY <1>2 DEF Job
<1>4. k \in Job
  BY <1>2, <1>3 DEF Job
<1>5. /\ k.here = job[j].here /\ k.of = job[j].of /\ k.at = "flush"
      /\ k.marked = job[j].marked /\ k.todo = job[j].todo \ {f} /\ k.asked = job[j].asked
  BY <1>1, <1>2 DEF Job
<1>6. job' = [job EXCEPT ![j] = k]
  BY DEF EditTypeOK
<1> HIDE DEF k
<1>7. /\ job' \in [Slot -> Job \cup {NoJob}] /\ job'[j] = k
      /\ \A i \in Slot \ {j} : job'[i] = job[i]
  BY <1>4, <1>6, JobChange
<1>8. t \in Text /\ disk' = [disk EXCEPT ![f] = [of |-> job[j].of, text |-> t]]
  BY <1>3 DEF Written, EditTypeOK
<1>9. EditTypeOK'
  <2>1. disk' \in [File -> Content]
    BY <1>3, <1>8 DEF EditTypeOK, Content
  <2> QED
    BY <1>1, <1>7, <2>1 DEF EditTypeOK
<1>10. outlived \/ (job[j].here /\ job[j].of = bundle)
  BY <1>1, OneCheck
<1>11. outlived \/ OwnDisk => outlived' \/ OwnDisk'
  BY <1>1, <1>3, <1>8, <1>10 DEF OwnDisk, EditTypeOK
<1>12. ~outlived => /\ disk'[f].text = drafts[f]
                    /\ \A g \in File \ {f} : disk'[g].text = disk[g].text
  BY <1>3, <1>8, <1>10 DEF EditTypeOK
<1>13. ~outlived => Saves(job[j])'
  <2>1. ~outlived => Saves(job[j])
    BY <1>1, <1>10, OneCheck
  <2>2. job[j].marked \subseteq File
    BY <1>2 DEF Job
  <2> QED
    BY <1>1, <1>3, <1>5, <1>7, <1>12, <2>1, <2>2 DEF Saves
<1>14. ASSUME NEW i \in Slot, Active(i)'
       PROVE  /\ job'[i].here => status = "ready" /\ job'[i].of = bundle
              /\ ~job'[i].here /\ job'[i].at = "flush" => outlived
              /\ job'[i].here /\ ~outlived =>
                    /\ job'[i].at = "flush" => Saves(job[i])'
                    /\ job'[i].at = "run" => Found(job[i])'
  <2>1. CASE i = j
    BY <2>1, <1>1, <1>5, <1>7, <1>13, OneCheck
  <2>2. CASE i # j
    BY <2>2, <1>1, <1>7, <1>12, <1>14, OthersKeep
  <2> QED
    BY <2>1, <2>2
<1> QED
  BY <1>1, <1>9, <1>11, <1>14, RunnerKeeps

LEMMA FlushAnsweredInv ==
    ASSUME EditInv, NEW j \in Slot, FlushAnswered(j)
    PROVE  EditInv'
<1> USE DEF EditInv
<1> DEFINE k == [job[j] EXCEPT !.awaits = NoFile]
<1>1. /\ Active(j) /\ job[j].at = "flush"
      /\ UNCHANGED <<bundle, status, flow, engine, drafts, disk, saving, pending, outlived>>
      /\ dirty' = IF Here(j) THEN dirty \ {job[j].awaits} ELSE dirty
  BY DEF FlushAnswered
<1>2. job[j] \in Job
  BY <1>1, JobOrNot
<1>3. /\ k \in Job /\ k.here = job[j].here /\ k.of = job[j].of /\ k.at = "flush"
      /\ k.marked = job[j].marked /\ k.todo = job[j].todo /\ k.asked = job[j].asked
  BY <1>1, <1>2 DEF Job
<1>4. job' = [job EXCEPT ![j] = k]
  BY DEF FlushAnswered, EditTypeOK
<1> HIDE DEF k
<1>5. /\ job' \in [Slot -> Job \cup {NoJob}] /\ job'[j] = k
      /\ \A i \in Slot \ {j} : job'[i] = job[i]
  BY <1>3, <1>4, JobChange
<1>6. EditTypeOK'
  BY <1>1, <1>5 DEF EditTypeOK
<1>7. OwnDisk' <=> OwnDisk
  BY <1>1 DEF OwnDisk
<1>8. Saves(job[j]) => Saves(job[j])'
  BY <1>1, <1>3, <1>5 DEF Saves
<1>9. ASSUME NEW i \in Slot, Active(i)'
      PROVE  /\ job'[i].here => status = "ready" /\ job'[i].of = bundle
             /\ ~job'[i].here /\ job'[i].at = "flush" => outlived
             /\ job'[i].here /\ ~outlived =>
                   /\ job'[i].at = "flush" => Saves(job[i])'
                   /\ job'[i].at = "run" => Found(job[i])'
  <2>1. CASE i = j
    BY <2>1, <1>1, <1>3, <1>5, <1>8, OneCheck
  <2>2. CASE i # j
    BY <2>2, <1>1, <1>5, <1>9, OthersKeep
  <2> QED
    BY <2>1, <2>2
<1> QED
  BY <1>1, <1>6, <1>7, <1>9, RunnerKeeps

LEMMA SpawnInv ==
    ASSUME EditInv, NEW j \in Slot, Spawn(j)
    PROVE  EditInv'
<1> USE DEF EditInv
<1> DEFINE onDisk == [f \in File |-> disk[f].text]
           k == [job[j] EXCEPT !.at = "run", !.ran = onDisk]
<1>1. /\ Active(j) /\ job[j].at = "flush" /\ job[j].todo = {}
      /\ UNCHANGED <<bundle, status, flow, engine, drafts, dirty, disk, saving, pending, outlived>>
  BY DEF Spawn, textVars, Unsaved
<1>2. job[j] \in Job
  BY <1>1, JobOrNot
<1>3. onDisk \in [File -> Text]
  BY DEF EditTypeOK, Content
<1>4. job' = [job EXCEPT ![j] = k]
  BY DEF Spawn, EditTypeOK
<1>5. \A f \in File : onDisk[f] = disk[f].text
  OBVIOUS
<1> HIDE DEF onDisk
<1>6. /\ k \in Job /\ k.here = job[j].here /\ k.of = job[j].of /\ k.at = "run"
      /\ k.marked = job[j].marked /\ k.asked = job[j].asked /\ k.ran = onDisk
  BY <1>2, <1>3 DEF Job
<1> HIDE DEF k
<1>7. /\ job' \in [Slot -> Job \cup {NoJob}] /\ job'[j] = k
      /\ \A i \in Slot \ {j} : job'[i] = job[i]
  BY <1>4, <1>6, JobChange
<1>8. EditTypeOK'
  BY <1>1, <1>7 DEF EditTypeOK
<1>9. OwnDisk' <=> OwnDisk
  BY <1>1 DEF OwnDisk
<1>10. Saves(job[j]) => Found(job[j])'
  <2>1. job[j].marked \subseteq File
    BY <1>2 DEF Job
  <2> QED
    BY <2>1, <1>1, <1>5, <1>6, <1>7 DEF Saves, Found
<1>11. ASSUME NEW i \in Slot, Active(i)'
       PROVE  /\ job'[i].here => status = "ready" /\ job'[i].of = bundle
              /\ ~job'[i].here /\ job'[i].at = "flush" => outlived
              /\ job'[i].here /\ ~outlived =>
                    /\ job'[i].at = "flush" => Saves(job[i])'
                    /\ job'[i].at = "run" => Found(job[i])'
  <2>1. CASE i = j
    BY <2>1, <1>1, <1>6, <1>7, <1>10, OneCheck
  <2>2. CASE i # j
    BY <2>2, <1>1, <1>7, <1>11, OthersKeep
  <2> QED
    BY <2>1, <2>2
<1> QED
  BY <1>1, <1>8, <1>9, <1>11, RunnerKeeps

\* The body ends, or the timer rejects the promise and kills the command.
LEMMA EndsInv ==
    ASSUME EditInv, NEW j \in Slot, BodyEnds(j) \/ TimerFires(j)
    PROVE  EditInv'
<1> USE DEF EditInv
<1>1. UNCHANGED <<bundle, status, flow, engine, drafts, dirty, disk, saving, outlived>>
  BY DEF BodyEnds, TimerFires, textVars
<1>2. PICK k \in {NoJob, job[j]} : job' = [job EXCEPT ![j] = k]
  BY DEF BodyEnds, TimerFires, EditTypeOK
<1>3. /\ job' \in [Slot -> Job \cup {NoJob}] /\ job'[j] = k
      /\ \A i \in Slot \ {j} : job'[i] = job[i]
  BY <1>2, JobChange DEF EditTypeOK
<1>4. EditTypeOK'
  <2>1. pending' \subseteq Slot
    BY DEF BodyEnds, TimerFires, EditTypeOK
  <2> QED
    BY <1>1, <1>3, <2>1 DEF EditTypeOK
<1>5. OwnDisk' <=> OwnDisk
  BY <1>1 DEF OwnDisk
<1>6. ASSUME NEW i \in Slot, Active(i)'
      PROVE  /\ job'[i].here => status = "ready" /\ job'[i].of = bundle
             /\ ~job'[i].here /\ job'[i].at = "flush" => outlived
             /\ job'[i].here /\ ~outlived =>
                   /\ job'[i].at = "flush" => Saves(job[i])'
                   /\ job'[i].at = "run" => Found(job[i])'
  <2>1. job'[i] = job[i]
    BY <1>2, <1>3, <1>6 DEF Active
  <2> QED
    BY <2>1, <1>1, <1>6, OthersKeep
<1> QED
  BY <1>1, <1>4, <1>5, <1>6, RunnerKeeps

LEMMA EditStep == EditInv /\ [EditNext]_editVars => EditInv'
<1> SUFFICES ASSUME EditInv, [EditNext]_editVars PROVE EditInv'
  OBVIOUS
<1>1. ASSUME NEW f \in File, Edit(f) \/ Revert(f) PROVE EditInv'
  <2>1. PICK t \in Text, marks \in SUBSET File : Typed(f, t, marks)
    BY <1>1, EditAssumption DEF Edit, Revert, EditInv, EditTypeOK, Text
  <2> QED
    BY <2>1, TypedInv
<1>2. CASE UNCHANGED editVars
  BY <1>2 DEF editVars, EditInv, EditTypeOK, Phases, Files, Checks, Here, Active,
              OwnDisk, Saves, Found
<1> QED
  BY <1>1, <1>2, MountInv, UnmountInv, StartInv, BootedInv, SaveInv, SaveAnsweredInv,
     TriggerInv, FlushNextInv, FlushAnsweredInv, SpawnInv, EndsInv DEF EditNext

(***************************************************************************)
(* Whatever was mounted before, a runner that is ready works on the files  *)
(* of its own bundle, unless a check outlived its runner.                  *)
(***************************************************************************)
THEOREM ReadyRunnerHasItsFiles == EditSpec => []OwnFiles
<1>1. EditInv => OwnFiles
  BY DEF EditInv, Files, OwnDisk, OwnFiles
<1> QED
  BY <1>1, EditInitInv, EditStep, PTL DEF EditSpec

(***************************************************************************)
(* However many checks and saves are under way, and whatever is typed      *)
(* meanwhile, a check's command finds what the user asked it to judge.     *)
(***************************************************************************)
THEOREM CheckSeesTheEdits == EditSpec => []FlushedIsChecked
<1>1. EditInv => FlushedIsChecked
  BY DEF EditInv, Checks, Found, FlushedIsChecked
<1> QED
  BY <1>1, EditInitInv, EditStep, PTL DEF EditSpec
=============================================================================
