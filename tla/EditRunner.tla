----------------------------- MODULE EditRunner -----------------------------
(***************************************************************************)
(* The runner of web-container scenarios: a module-wide engine, the start  *)
(* of the scenario's files in it, the editor's drafts, saving, and the     *)
(* check that saves and then runs a command.  The engine takes file        *)
(* operations in the order they are issued; its answers take their time.   *)
(* A save that fails changes nothing; saves of one file count as one.  The *)
(* button of the check is not disabled while the runner works on one, so   *)
(* several may be under way.                                               *)
(***************************************************************************)
EXTENDS Naturals

CONSTANTS
    Bundle,      \* scenarios with files to edit
    NoBundle,    \* the runner is not mounted
    File,        \* their editable files, the same paths in every bundle
    Slot,        \* bound: checks under way at once
    LastText     \* bound: texts of a file are 0 (the manifest's) .. LastText

ASSUME EditAssumption == NoBundle \notin Bundle /\ LastText \in Nat \ {0}

VARIABLES
    bundle,      \* the bundle of the mounted runner
    status,      \* its status
    flow,        \* what the start of this mount awaits
    engine,      \* the engine behind bootPromise, one per tab
    drafts,      \* the texts in the editor
    dirty,       \* the files marked as not saved
    disk,        \* the engine's files: whose they are and their text
    saving,      \* the files whose writeFile (button, Ctrl+S) is awaited
    job,         \* the checks: how far their bodies are
    pending,     \* those whose promise is not settled
    outlived     \* history: a check was still saving when its runner went away

editVars == <<bundle, status, flow, engine, drafts, dirty, disk, saving, job, pending, outlived>>

Text == 0 .. LastText
NoFile == "none"
Content == [of : Bundle \cup {NoBundle}, text : Text]
Pristine == [f \in File |-> 0]

\* The body of triggerCheck.  "here": its runner is still mounted; "text":
\* the drafts of a runner that is not; "todo": the files to save yet;
\* "awaits": the one being written.  For the properties: "marked": the files
\* dirty at the click; "asked": what the command may find in a file; "ran":
\* what it found.
Job == [at : {"flush", "run"}, of : Bundle, here : BOOLEAN, text : [File -> Text],
        marked : SUBSET File, todo : SUBSET File, awaits : File \cup {NoFile},
        asked : [File -> SUBSET Text], ran : [File -> Text]]
NoJob == [at |-> "none"]

EditTypeOK ==
    /\ bundle \in Bundle \cup {NoBundle}
    /\ status \in {"idle", "booting", "installing", "ready", "error"}
    /\ flow \in {"none", "fetch", "boot", "cmd"}
    /\ engine \in {"none", "booting", "up", "failed"}
    /\ drafts \in [File -> Text]
    /\ dirty \subseteq File
    /\ disk \in [File -> Content]
    /\ saving \subseteq File
    /\ job \in [Slot -> Job \cup {NoJob}]
    /\ pending \subseteq Slot
    /\ outlived \in BOOLEAN

EditInit ==
    /\ bundle = NoBundle
    /\ status = "idle"
    /\ flow = "none"
    /\ engine = "none"
    /\ drafts = Pristine
    /\ dirty = {}
    /\ disk = [f \in File |-> [of |-> NoBundle, text |-> 0]]
    /\ saving = {}
    /\ job = [j \in Slot |-> NoJob]
    /\ pending = {}
    /\ outlived = FALSE

Active(j) == job[j] # NoJob
Here(j) == Active(j) /\ job[j].here

checkVars == <<job, pending, outlived>>
textVars == <<drafts, dirty>>

-----------------------------------------------------------------------------
(***************************************************************************)
(* The start: fetch project.json, await the engine, mount the files, run   *)
(* the start command.  Unmounting cancels it after what it awaits.         *)
(***************************************************************************)
Mount(b) ==
    /\ bundle = NoBundle
    /\ bundle' = b
    /\ status' = "booting"
    /\ flow' = "fetch"
    /\ UNCHANGED <<engine, textVars, disk, saving, checkVars>>

Orphan(k) ==
    [k EXCEPT !.here = FALSE, !.text = IF k.at = "flush" THEN drafts ELSE Pristine,
              !.marked = {}, !.asked = [f \in File |-> {}], !.ran = Pristine]

Unmount ==
    /\ bundle # NoBundle
    /\ bundle' = NoBundle
    /\ status' = "idle"
    /\ flow' = "none"
    /\ drafts' = Pristine
    /\ dirty' = {}
    /\ saving' = {}
    /\ job' = [j \in Slot |-> IF Here(j) THEN Orphan(job[j]) ELSE job[j]]
    /\ outlived' = (outlived \/ \E j \in Slot : Here(j) /\ job[j].at = "flush")
    /\ UNCHANGED <<engine, disk, pending>>

StartFails ==
    /\ flow' = "none"
    /\ status' = "error"
    /\ UNCHANGED <<engine, disk>>

Fetched ==
    /\ flow = "fetch"
    /\ \/ /\ flow' = "boot"
          /\ engine' = IF engine = "none" THEN "booting" ELSE engine
          /\ UNCHANGED <<status, disk>>
       \/ StartFails
    /\ UNCHANGED <<bundle, textVars, saving, checkVars>>

\* A rejected bootPromise stays in the module and rejects every later start.
Booted ==
    /\ engine = "booting"
    /\ engine' \in {"up", "failed"}
    /\ UNCHANGED <<bundle, status, flow, textVars, disk, saving, checkVars>>

FilesMounted_Once ==
    /\ disk' = disk
    /\ flow' = "cmd"
    /\ status' = "installing"

FilesMounted ==
    /\ disk' = [f \in File |-> [of |-> bundle, text |-> 0]]
    /\ flow' = "cmd"
    /\ status' = "installing"

EngineAwaited ==
    /\ flow = "boot"
    /\ \/ engine = "up" /\ FilesMounted /\ UNCHANGED engine
       \/ engine = "failed" /\ StartFails
    /\ UNCHANGED <<bundle, textVars, saving, checkVars>>

CommandEnds ==
    /\ flow = "cmd"
    /\ \/ flow' = "none" /\ status' = "ready" /\ UNCHANGED <<engine, disk>>
       \/ StartFails
    /\ UNCHANGED <<bundle, textVars, saving, checkVars>>

-----------------------------------------------------------------------------
(***************************************************************************)
(* Editing and saving.  A file is dirty when its text is not the           *)
(* manifest's; a save unmarks it when the engine has answered.             *)
(***************************************************************************)
Typed(f, t, marks) ==
    /\ drafts' = [drafts EXCEPT ![f] = t]
    /\ dirty' = marks
    /\ job' = [j \in Slot |->
                  IF Here(j) /\ job[j].at = "flush" THEN [job[j] EXCEPT !.asked[f] = @ \cup {t}]
                  ELSE job[j]]
    /\ UNCHANGED <<bundle, status, flow, engine, disk, saving, pending, outlived>>

Edit(f) ==
    /\ status = "ready"
    /\ \E t \in Text \ {drafts[f]} :
          Typed(f, t, IF t # 0 THEN dirty \cup {f} ELSE dirty \ {f})

Revert(f) ==
    /\ f \in dirty
    /\ Typed(f, 0, dirty \ {f})

Written(f, b, t) == disk' = [disk EXCEPT ![f] = [of |-> b, text |-> t]]

Save(f) ==
    /\ status = "ready" /\ f \in dirty
    /\ Written(f, bundle, drafts[f])
    /\ saving' = saving \cup {f}
    /\ UNCHANGED <<bundle, status, flow, engine, textVars, checkVars>>

SaveAnswered(f) ==
    /\ f \in saving
    /\ dirty' = dirty \ {f}
    /\ saving' = saving \ {f}
    /\ UNCHANGED <<bundle, status, flow, engine, drafts, disk, checkVars>>

-----------------------------------------------------------------------------
(***************************************************************************)
(* triggerCheck: a timer that rejects after 20 s whatever the body does,   *)
(* and the body, which saves the dirty files one by one and then runs the  *)
(* check command.  The timer can only kill a command that has begun.       *)
(***************************************************************************)
Trigger(j) ==
    /\ status = "ready" /\ ~Active(j) /\ j \notin pending
    /\ job' = [job EXCEPT ![j] =
                  [at |-> "flush", of |-> bundle, here |-> TRUE, text |-> Pristine,
                   marked |-> dirty, todo |-> dirty, awaits |-> NoFile,
                   asked |-> [f \in File |-> {drafts[f]}], ran |-> Pristine]]
    /\ pending' = pending \cup {j}
    /\ UNCHANGED <<bundle, status, flow, engine, textVars, disk, saving, outlived>>

FlushNext(j) ==
    /\ Active(j) /\ job[j].at = "flush" /\ job[j].awaits = NoFile
    /\ \E f \in job[j].todo :
          /\ Written(f, job[j].of, IF job[j].here THEN drafts[f] ELSE job[j].text[f])
          /\ job' = [job EXCEPT ![j].todo = @ \ {f}, ![j].awaits = f]
    /\ UNCHANGED <<bundle, status, flow, engine, textVars, saving, pending, outlived>>

FlushAnswered(j) ==
    /\ Active(j) /\ job[j].at = "flush" /\ job[j].awaits # NoFile
    /\ dirty' = IF Here(j) THEN dirty \ {job[j].awaits} ELSE dirty
    /\ job' = [job EXCEPT ![j].awaits = NoFile]
    /\ UNCHANGED <<bundle, status, flow, engine, drafts, disk, saving, pending, outlived>>

\* The list of dirty files is read once, at the click.
Unsaved_Unawaited(k) == {}

Unsaved(k) == k.todo \cup ({k.awaits} \ {NoFile})

Spawn(j) ==
    /\ Active(j) /\ job[j].at = "flush" /\ Unsaved(job[j]) = {}
    /\ job' = [job EXCEPT ![j].at = "run", ![j].ran = [f \in File |-> disk[f].text]]
    /\ UNCHANGED <<bundle, status, flow, engine, textVars, disk, saving, pending, outlived>>

\* The command exits, or a write or the spawn throws.
BodyEnds(j) ==
    /\ Active(j)
    /\ job' = [job EXCEPT ![j] = NoJob]
    /\ pending' = pending \ {j}
    /\ UNCHANGED <<bundle, status, flow, engine, textVars, disk, saving, outlived>>

TimerFires_KillsOnly(j) ==
    /\ j \in pending
    /\ job[j].at = "run"
    /\ pending' = pending \ {j}
    /\ job' = [job EXCEPT ![j] = NoJob]
    /\ UNCHANGED <<bundle, status, flow, engine, textVars, disk, saving, outlived>>

\* The command is killed if the answer of its spawn has come.
TimerFires(j) ==
    /\ j \in pending
    /\ pending' = pending \ {j}
    /\ \/ job[j].at = "run" /\ job' = [job EXCEPT ![j] = NoJob]
       \/ UNCHANGED job
    /\ UNCHANGED <<bundle, status, flow, engine, textVars, disk, saving, outlived>>

-----------------------------------------------------------------------------
EditNext ==
    \/ \E b \in Bundle : Mount(b)
    \/ Unmount
    \/ Fetched \/ Booted \/ EngineAwaited \/ CommandEnds
    \/ \E f \in File : Edit(f) \/ Revert(f) \/ Save(f) \/ SaveAnswered(f)
    \/ \E j \in Slot : \/ Trigger(j) \/ FlushNext(j) \/ FlushAnswered(j) \/ Spawn(j)
                       \/ BodyEnds(j) \/ TimerFires(j)

\* Only the timers are sure to fire: the command may loop for ever, and so
\* may a write.
EditFairness == \A j \in Slot : WF_editVars(TimerFires(j))

EditSpec == EditInit /\ [][EditNext]_editVars /\ EditFairness

-----------------------------------------------------------------------------
(***************************************************************************)
(* A ready runner has the files of its own bundle in the engine all tabs   *)
(* mounts share (line 372: the next mount overwrites the files), unless a  *)
(* check was still saving when its runner was unmounted.                   *)
(***************************************************************************)
OwnFiles == status = "ready" => outlived \/ \A f \in File : disk[f].of = bundle

(***************************************************************************)
(* The check runs on what the user had when clicking it, or later, in      *)
(* every file its flush found marked (lines 560-566).                      *)
(***************************************************************************)
FlushedIsChecked ==
    \A j \in Slot : Here(j) /\ job[j].at = "run" /\ ~outlived =>
        \A f \in job[j].marked : job[j].ran[f] \in job[j].asked[f]

(***************************************************************************)
(* Whatever the user's code does, triggerCheck comes back.                 *)
(***************************************************************************)
CheckSettles == \A j \in Slot : j \in pending ~> j \notin pending
=============================================================================
