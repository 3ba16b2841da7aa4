---------------------------- MODULE LinuxBundle ----------------------------
(***************************************************************************)
(* The bundle of a wasm-linux scenario: it loads the emulator from the     *)
(* first source that has it, logs in, says when it is ready, and judges by *)
(* typing a command on the serial line and reading what comes back.  The   *)
(* machine behind the line is external: a tty that may echo what is typed, *)
(* a login, and a shell that may be busy.  A line of text is one item.     *)
(***************************************************************************)
EXTENDS Naturals, Sequences, SequencesExt

CONSTANTS
    Sources,    \* length of V86_SOURCES
    BufMax,     \* items serialBuf may hold (32K)
    BufKept,    \* items it is cut to (16K)
    MaxAsks,    \* bound: opslabs:check messages
    MaxTyped    \* bound: lines the user types

ASSUME LinuxAssumption ==
    /\ Sources \in Nat \ {0}
    /\ BufMax \in Nat /\ BufKept \in 1 .. BufMax
    /\ MaxAsks \in Nat \ {0} /\ MaxTyped \in Nat

VARIABLES
    source,         \* the source bootLib tries
    lib,            \* what became of bootLib
    serialBuf, firstSerial, readyFired, autoLoginSent, passwordSent,
    cdTimer,        \* the line after the login is due
    asks,           \* checks the parent asked for
    pendingCheck,   \* the one whose onChunk is called
    startIdx,       \* where its window begins
    verdict,        \* what the bundle answered
    typed,          \* lines the user typed
    echo,           \* external: the tty echoes
    vm,             \* external: who reads the line
    flag,           \* external: /tmp/ready.flag exists
    input, output,  \* external: lines not read yet, items not delivered yet
    found           \* history: what the shell saw when it ran a check's line

vmVars == <<vm, flag, input, output, found>>
bootVars == <<source, lib>>
loginVars == <<firstSerial, readyFired, autoLoginSent, passwordSent, cdTimer>>
askVars == <<asks, pendingCheck, startIdx, verdict>>
linuxVars == <<bootVars, serialBuf, loginVars, askVars, typed, echo, vmVars>>

Token == 1 .. MaxAsks
NoToken == 0

Key == {"touch", "loop"} \X {NoToken}
Command(n) == <<"check", n>>
Line == Key \cup ({"root", "enter", "cd"} \X {NoToken}) \cup {Command(n) : n \in Token}
Plain == {"text", "login", "password", "slash", "prompt"} \X {NoToken}
Item == Plain \cup ({"echo", "pass", "fail"} \X Token)

LinuxTypeOK ==
    /\ source \in 1 .. Sources /\ lib \in {"idle", "loading", "up", "failed"}
    /\ serialBuf \in Seq(Item) /\ Len(serialBuf) <= BufMax
    /\ firstSerial \in BOOLEAN /\ readyFired \in BOOLEAN
    /\ autoLoginSent \in BOOLEAN /\ passwordSent \in BOOLEAN /\ cdTimer \in BOOLEAN
    /\ asks \in 0 .. MaxAsks /\ pendingCheck \in Token \cup {NoToken}
    /\ startIdx \in 0 .. BufMax
    /\ verdict \in [Token -> {"none", "early", "waits", "pass", "fail", "timeout"}]
    /\ typed \in 0 .. MaxTyped /\ echo \in BOOLEAN
    /\ vm \in {"off", "kernel", "init", "login", "password", "shell", "busy"}
    /\ flag \in BOOLEAN
    /\ input \in Seq(Line) /\ output \in Seq(Item)
    /\ found \in [Token -> {"unrun", "there", "absent"}]

LinuxInit ==
    /\ source = 1 /\ lib = "idle"
    /\ serialBuf = <<>>
    /\ firstSerial = FALSE /\ readyFired = FALSE
    /\ autoLoginSent = FALSE /\ passwordSent = FALSE /\ cdTimer = FALSE
    /\ asks = 0 /\ pendingCheck = NoToken /\ startIdx = 0
    /\ verdict = [n \in Token |-> "none"]
    /\ typed = 0
    /\ echo \in BOOLEAN
    /\ vm = "off" /\ flag = FALSE
    /\ input = <<>> /\ output = <<>>
    /\ found = [n \in Token |-> "unrun"]

-----------------------------------------------------------------------------
(* bootLib.                                                                *)

\* The document is there.
BootLib ==
    /\ lib = "idle" /\ lib' = "loading"
    /\ UNCHANGED <<source, serialBuf, loginVars, askVars, typed, echo, vmVars>>

\* The library is there; bootEmulator starts the machine or throws.
SourceLoads ==
    /\ lib = "loading"
    /\ \/ lib' = "up" /\ vm' = "kernel"
       \/ lib' = "failed" /\ UNCHANGED vm
    /\ UNCHANGED <<source, serialBuf, loginVars, askVars, typed, echo, flag, input, output, found>>

\* An error, a file without V86 in it, or the timer of 8 s.
NextSource ==
    /\ lib = "loading"
    /\ IF source = Sources THEN lib' = "failed" /\ UNCHANGED source
       ELSE source' = source + 1 /\ UNCHANGED lib
    /\ UNCHANGED <<serialBuf, loginVars, askVars, typed, echo, vmVars>>

-----------------------------------------------------------------------------
(* The serial line.                                                        *)

\* sendSerialString, when out is on its way: whoever reads a line echoes it,
\* but for a password; of the echoes only a check's matters.
Send(line, out) ==
    /\ input' = Append(input, line)
    /\ output' = IF echo /\ vm \in {"login", "shell", "busy"} /\ line[1] = "check"
                 THEN Append(out, <<"echo", line[2]>>) ELSE out

Rolled(b) == IF Len(b) > BufMax THEN SubSeq(b, Len(b) - BufKept + 1, Len(b)) ELSE b

IsPrompt(item) == item[1] \in {"slash", "prompt"}

\* fireReadyIfPromptHit: "/ # " anywhere, or after the login any prompt at the end.
PromptHit(b) ==
    \/ Contains(b, <<"slash", NoToken>>)
    \/ autoLoginSent /\ IsPrompt(b[Len(b)])

TryAutologin(b, out) ==
    \/ /\ ~readyFired' /\ ~autoLoginSent /\ Contains(b, <<"login", NoToken>>)
       /\ autoLoginSent' = TRUE /\ cdTimer' = TRUE
       /\ Send(<<"root", NoToken>>, out)
       /\ UNCHANGED passwordSent
    \/ /\ ~readyFired' /\ (autoLoginSent \/ ~Contains(b, <<"login", NoToken>>))
       /\ ~passwordSent /\ b[Len(b)] = <<"password", NoToken>>
       /\ passwordSent' = TRUE
       /\ Send(<<"enter", NoToken>>, out)
       /\ UNCHANGED <<autoLoginSent, cdTimer>>
    \/ /\ readyFired' \/ ~(~autoLoginSent /\ Contains(b, <<"login", NoToken>>))
       /\ readyFired' \/ passwordSent \/ b[Len(b)] # <<"password", NoToken>>
       /\ output' = out
       /\ UNCHANGED <<input, autoLoginSent, passwordSent, cdTimer>>

\* The mark of check n is in the text; its command line holds both its marks.
Marked_AnyToken(text, kind, n) ==
    \E i \in 1 .. Len(text) : text[i][1] \in {kind, "echo"}

Marked(text, kind, n) == Contains(text, <<kind, n>>) \/ Contains(text, <<"echo", n>>)

OnChunk(b) ==
    LET text == SubSeq(b, startIdx + 1, Len(b))
        seen == {kind \in {"pass", "fail"} : Marked(text, kind, pendingCheck)}
    IN IF pendingCheck = NoToken \/ seen = {} THEN UNCHANGED <<verdict, pendingCheck>>
       ELSE /\ verdict' = [verdict EXCEPT ![pendingCheck] =
                             IF "pass" \in seen THEN "pass" ELSE "fail"]
            /\ pendingCheck' = NoToken

\* The listener of serial0-output-byte.
SerialByte ==
    /\ output # <<>>
    /\ LET b == Rolled(Append(serialBuf, Head(output)))
       IN /\ serialBuf' = b
          /\ readyFired' = (readyFired \/ PromptHit(b))
          /\ TryAutologin(b, Tail(output))
          /\ OnChunk(b)
    /\ firstSerial' = TRUE
    /\ UNCHANGED <<bootVars, asks, startIdx, typed, echo, vm, flag, found>>

\* 700 ms after the login.
CdDue ==
    /\ cdTimer /\ cdTimer' = FALSE
    /\ IF readyFired THEN UNCHANGED <<input, output>> ELSE Send(<<"cd", NoToken>>, output)
    /\ UNCHANGED <<bootVars, serialBuf, firstSerial, readyFired, autoLoginSent, passwordSent,
                   askVars, typed, echo, vm, flag, found>>

\* 25 s after the first byte.
Watchdog_AfterLogin ==
    /\ firstSerial /\ autoLoginSent /\ ~readyFired
    /\ readyFired' = TRUE
    /\ UNCHANGED <<bootVars, serialBuf, firstSerial, autoLoginSent, passwordSent, cdTimer,
                   askVars, typed, echo, vmVars>>

Watchdog ==
    /\ firstSerial /\ ~readyFired
    /\ readyFired' = TRUE
    /\ UNCHANGED <<bootVars, serialBuf, firstSerial, autoLoginSent, passwordSent, cdTimer,
                   askVars, typed, echo, vmVars>>

\* Keys go to the line as soon as there is a machine; Ctrl-C is not counted.
UserTypes ==
    /\ lib = "up"
    /\ \/ /\ typed < MaxTyped /\ typed' = typed + 1
          /\ \E key \in Key : Send(key, output)
          /\ UNCHANGED vm
       \/ /\ vm = "busy" /\ vm' = "shell"
          /\ output' = Append(output, <<"prompt", NoToken>>)
          /\ UNCHANGED <<input, typed>>
    /\ UNCHANGED <<bootVars, serialBuf, loginVars, askVars, echo, flag, found>>

-----------------------------------------------------------------------------
(* opslabs:check.                                                          *)

\* A later check takes the listener of one that waits, and leaves its timer.
RunCheck ==
    /\ asks < MaxAsks
    /\ asks' = asks + 1
    /\ IF readyFired
       THEN /\ pendingCheck' = asks + 1
            /\ startIdx' = Len(serialBuf)
            /\ verdict' = [verdict EXCEPT ![asks + 1] = "waits"]
            /\ Send(Command(asks + 1), output)
       ELSE /\ verdict' = [verdict EXCEPT ![asks + 1] = "early"]
            /\ UNCHANGED <<pendingCheck, startIdx, input, output>>
    /\ UNCHANGED <<bootVars, serialBuf, loginVars, typed, echo, vm, flag, found>>

AskTimer_OfLast(n) ==
    /\ verdict[n] = "waits" /\ pendingCheck = n
    /\ verdict' = [verdict EXCEPT ![n] = "timeout"]
    /\ pendingCheck' = NoToken
    /\ UNCHANGED <<bootVars, serialBuf, loginVars, asks, startIdx, typed, echo, vmVars>>

\* 4 s after a check began; cleanup spares the listener of another.
AskTimer(n) ==
    /\ verdict[n] = "waits"
    /\ verdict' = [verdict EXCEPT ![n] = "timeout"]
    /\ pendingCheck' = IF pendingCheck = n THEN NoToken ELSE pendingCheck
    /\ UNCHANGED <<bootVars, serialBuf, loginVars, asks, startIdx, typed, echo, vmVars>>

-----------------------------------------------------------------------------
(* The machine: external.                                                  *)

\* What is said is delivered before more is.
Says(items) == output = <<>> /\ output' = items

\* The kernel prints, then a login or a shell.
Boots ==
    /\ \/ /\ vm = "kernel" /\ vm' = "init"
          /\ Says(<< <<"text", NoToken>> >>)
       \/ /\ vm = "init" /\ vm' = "login"
          /\ Says(<< <<"login", NoToken>> >>)
       \/ /\ vm = "init" /\ vm' = "shell"
          /\ Says(<< <<"slash", NoToken>> >>)
    /\ UNCHANGED <<flag, input, found>>

\* root may get in without a password; every other name is asked for one.
LogsIn ==
    /\ input # <<>> /\ input' = Tail(input)
    /\ \/ vm = "login" /\ vm' = "password" /\ Says(<< <<"password", NoToken>> >>)
       \/ vm = "login" /\ Head(input)[1] = "root" /\ vm' = "shell" /\ Says(<< <<"prompt", NoToken>> >>)
       \/ vm = "password" /\ vm' = "login" /\ Says(<< <<"login", NoToken>> >>)
       \/ vm = "password" /\ vm' = "shell" /\ Says(<< <<"prompt", NoToken>> >>)
    /\ UNCHANGED <<flag, found>>

\* What the shell does with a line.
Runs ==
    /\ vm = "shell" /\ input # <<>> /\ input' = Tail(input)
    /\ LET what == Head(input)[1]
           n == Head(input)[2]
       IN /\ vm' = IF what = "loop" THEN "busy" ELSE vm
          /\ flag' = (flag \/ what = "touch")
          /\ found' = IF what # "check" THEN found
                      ELSE [found EXCEPT ![n] = IF flag THEN "there" ELSE "absent"]
          /\ Says(CASE what = "loop" -> <<>>
                    [] what = "cd" -> << <<"slash", NoToken>> >>
                    [] what = "check" -> << <<IF flag THEN "pass" ELSE "fail", n>>,
                                            <<"prompt", NoToken>> >>
                    [] OTHER -> << <<"prompt", NoToken>> >>)

Machine ==
    /\ Boots \/ LogsIn \/ Runs
    /\ UNCHANGED <<bootVars, serialBuf, loginVars, askVars, typed, echo>>

LinuxNext ==
    \/ BootLib \/ SourceLoads \/ NextSource
    \/ SerialByte \/ CdDue \/ Watchdog \/ UserTypes
    \/ RunCheck \/ \E n \in Token : AskTimer(n)
    \/ Machine

\* The timers go off.  The machine need not do anything.
LinuxFairness ==
    /\ WF_linuxVars(NextSource) /\ WF_linuxVars(Watchdog)
    /\ WF_linuxVars(\E n \in Token : AskTimer(n))

LinuxSpec == LinuxInit /\ [][LinuxNext]_linuxVars /\ LinuxFairness

-----------------------------------------------------------------------------
(***************************************************************************)
(* index.html:613: a check is judged by its own run, however late the      *)
(* answers to earlier ones come: a check fails only if the shell ran its   *)
(* line and found no flag, and when the tty does not echo it passes only   *)
(* if the shell found the flag.                                            *)
(***************************************************************************)
JudgedRight ==
    \A n \in Token :
        /\ verdict[n] = "fail" => found[n] = "absent"
        /\ verdict[n] = "pass" /\ ~echo => found[n] = "there"

(***************************************************************************)
(* Every check is answered, also one whose listener a later check took,    *)
(* although the shell may never come back.                                 *)
(***************************************************************************)
AllAnswered == \A n \in Token : verdict[n] = "waits" ~> verdict[n] # "waits"

(***************************************************************************)
(* The page never waits for good: loading ends, with a machine or with a   *)
(* message, and a machine that says anything is declared ready.            *)
(***************************************************************************)
Waiting == lib = "loading" \/ (firstSerial /\ ~readyFired)

ComesUp == Waiting ~> ~Waiting

(***************************************************************************)
(* index.html:5: "the check looks for the file": a check that passes found *)
(* it.                                                                     *)
(***************************************************************************)
PassMeansFlag == \A n \in Token : verdict[n] = "pass" => found[n] = "there"
=============================================================================
