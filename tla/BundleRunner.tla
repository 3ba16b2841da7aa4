---------------------------- MODULE BundleRunner ----------------------------
(***************************************************************************)
(* The runner of static and wasm-linux scenarios: a bundle in an iframe    *)
(* that is asked to check by message, answers when it likes or never, and  *)
(* one slot (pendingRef) for the check that waits for an answer.  A        *)
(* message in the window's queue outlives the frame that sent it.          *)
(***************************************************************************)
EXTENDS Naturals

CONSTANTS
    MaxChecks,   \* bound: calls of triggerCheck
    MaxMounts    \* bound: mounts of the runner

ASSUME FrameAssumption == MaxChecks \in Nat \ {0} /\ MaxMounts \in Nat \ {0}

VARIABLES
    mounts,      \* how often the runner was mounted
    mounted,     \* it is now
    ready,       \* its state of that name
    calls,       \* how often triggerCheck was called
    waiting,     \* the call pendingRef holds
    outcome,     \* what became of the promise of every call
    judging,     \* the calls the bundle of this mount works on
    inbox        \* messages to the window

frameVars == <<mounts, mounted, ready, calls, waiting, outcome, judging, inbox>>

Call == 1 .. MaxChecks
NoCall == 0
ReadyMsg == 0      \* opslabs:ready; the other messages are results

FrameTypeOK ==
    /\ mounts \in 0 .. MaxMounts
    /\ mounted \in BOOLEAN /\ ready \in BOOLEAN
    /\ calls \in 0 .. MaxChecks
    /\ waiting \in Call \cup {NoCall}
    /\ outcome \in [Call -> {"none", "waits", "resolved", "rejected"}]
    /\ judging \subseteq Call
    /\ inbox \subseteq Call \cup {ReadyMsg}

FrameInit ==
    /\ mounts = 0 /\ mounted = FALSE /\ ready = FALSE
    /\ calls = 0
    /\ waiting = NoCall
    /\ outcome = [n \in Call |-> "none"]
    /\ judging = {}
    /\ inbox = {}

Become(what) == outcome' = [outcome EXCEPT ![waiting] = what]

MountFrame ==
    /\ ~mounted /\ mounts < MaxMounts
    /\ mounted' = TRUE /\ mounts' = mounts + 1 /\ ready' = FALSE
    /\ UNCHANGED <<calls, waiting, outcome, judging, inbox>>

\* clearPending: forget the call, and reject it when there is an error to give.
ClearPending_Silent(err) == waiting' = NoCall /\ UNCHANGED outcome

ClearPending(err) ==
    /\ waiting' = NoCall
    /\ IF err /\ waiting # NoCall THEN Become("rejected") ELSE UNCHANGED outcome

UnmountFrame ==
    /\ mounted
    /\ mounted' = FALSE
    /\ judging' = {}
    /\ ClearPending(TRUE)
    /\ UNCHANGED <<mounts, ready, calls, inbox>>

\* A new call replaces the one that waits, without settling it.
TriggerCheck ==
    /\ mounted /\ calls < MaxChecks
    /\ calls' = calls + 1
    /\ IF ready
       THEN /\ waiting' = calls + 1
            /\ outcome' = [outcome EXCEPT ![calls + 1] = "waits"]
            /\ judging' = judging \cup {calls + 1}
       ELSE /\ outcome' = [outcome EXCEPT ![calls + 1] = "rejected"]
            /\ UNCHANGED <<waiting, judging>>
    /\ UNCHANGED <<mounts, mounted, ready, inbox>>

CheckTimer_KeepsPromise ==
    /\ waiting # NoCall
    /\ waiting' = NoCall
    /\ UNCHANGED <<mounts, mounted, ready, calls, outcome, judging, inbox>>

CheckTimer ==
    /\ waiting # NoCall
    /\ waiting' = NoCall
    /\ Become("rejected")
    /\ UNCHANGED <<mounts, mounted, ready, calls, judging, inbox>>

\* The bundle says that it runs, or a judgement.
FrameSpeaks ==
    /\ mounted
    /\ \/ inbox' = inbox \cup {ReadyMsg} /\ UNCHANGED judging
       \/ \E n \in judging : inbox' = inbox \cup {n} /\ judging' = judging \ {n}
    /\ UNCHANGED <<mounts, mounted, ready, calls, waiting, outcome>>

\* A result settles whichever call waits; without one it is ignored.  Without
\* a runner nobody listens.
Hear(m) == waiting' = IF m = ReadyMsg THEN waiting ELSE NoCall

OnMessage ==
    \E m \in inbox :
        /\ inbox' = inbox \ {m}
        /\ IF mounted
           THEN /\ ready' = (ready \/ m = ReadyMsg)
                /\ Hear(m)
                /\ IF m = ReadyMsg \/ waiting = NoCall THEN UNCHANGED outcome
                   ELSE \E o \in {"resolved", "rejected"} : Become(o)
           ELSE UNCHANGED <<ready, waiting, outcome>>
        /\ UNCHANGED <<mounts, mounted, calls, judging>>

FrameNext ==
    \/ MountFrame \/ UnmountFrame \/ TriggerCheck
    \/ CheckTimer \/ FrameSpeaks \/ OnMessage

FrameFairness == WF_frameVars(CheckTimer)

FrameSpec == FrameInit /\ [][FrameNext]_frameVars /\ FrameFairness

-----------------------------------------------------------------------------
(***************************************************************************)
(* No promise is forgotten (line 72: neither by unmounting nor by another  *)
(* bundle): the call whose promise is open is the one in pendingRef, or a  *)
(* later call replaced it; and pendingRef never holds a settled one.       *)
(***************************************************************************)
NoneForgotten ==
    /\ \A n \in Call : outcome[n] = "waits" => n = waiting \/ n < calls
    /\ waiting # NoCall => outcome[waiting] = "waits"

(***************************************************************************)
(* The last check comes back although the bundle may never answer.         *)
(***************************************************************************)
LastCheckSettles ==
    \A n \in Call : (outcome[n] = "waits" /\ calls = n) ~> (outcome[n] # "waits" \/ calls > n)
=============================================================================
