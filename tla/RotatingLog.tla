----------------------------- MODULE RotatingLog -----------------------------
(***************************************************************************)
(* The log file of one level: Write appends under a mutex and moves a full *)
(* file aside, Rotate does so at midnight.  Every file operation but stat  *)
(* may fail; the process may die and start again.  Lines have one size;    *)
(* two rotations never fall into one millisecond, so a backup's name is    *)
(* the number of its rotation.  The goroutine that a rotation wakes to     *)
(* delete and compress old files (the mill) looks for them in the          *)
(* directory of the log, while every Logger of the program moves them to   *)
(* another (zap.go:73): it finds nothing and changes nothing.              *)
(***************************************************************************)
EXTENDS Integers, Sequences, FiniteSets

CONSTANTS
    MaxSize,       \* lines a file may hold
    MaxLines,      \* bound: lines written
    MaxAside,      \* bound: files moved aside when a midnight may still move one
    MaxBreaks      \* bound: failures and deaths of the process

ASSUME LogAssumption ==
    MaxSize \in Nat \ {0} /\ MaxLines \in Nat /\ MaxAside \in Nat /\ MaxBreaks \in Nat

VARIABLES
    file,          \* the lines of the log file, or NoFileYet
    open,          \* the process holds it open; its size is then known
    kept,          \* history: the lines whose Write returned no error
    written,       \* the last line
    backups,       \* the lines of each file moved aside
    breaks

logVars == <<file, open, kept, written, backups, breaks>>

Line == 1 .. MaxLines
NoFileYet == [absent |-> TRUE]
Exists == file # NoFileYet
Lines == IF Exists THEN file.lines ELSE {}

LogTypeOK ==
    /\ open \in BOOLEAN
    /\ Exists => file.lines \subseteq Line
    /\ kept \subseteq Line
    /\ written \in 0 .. MaxLines
    /\ backups \in Seq(SUBSET Line)
    /\ breaks \in 0 .. MaxBreaks

LogInit ==
    /\ file = NoFileYet /\ open = FALSE
    /\ kept = {} /\ written = 0
    /\ backups = <<>>
    /\ breaks = 0

Breaks == breaks < MaxBreaks /\ breaks' = breaks + 1

-----------------------------------------------------------------------------
\* Mutant: the names of old files are too coarse, a rename replaces the last.
MovedAside_Replaces == IF Exists THEN backups' = <<Lines>> ELSE UNCHANGED backups

MovedAside == IF Exists THEN backups' = Append(backups, Lines) ELSE UNCHANGED backups

\* One more line is too much for an open file, or fills one to be opened.
Full == Cardinality(Lines) + (IF open THEN 0 ELSE 1) >= MaxSize

\* A file that cannot be opened to append is moved aside as well.
Unopened(aside) == aside /\ Exists /\ ~Full

Opened(aside) == IF aside THEN {} ELSE Lines

Write ==
    /\ written < MaxLines
    /\ written' = written + 1
    /\ open' = TRUE
    /\ \E aside, appended \in BOOLEAN :
          /\ ~Exists \/ Full => aside
          /\ Unopened(aside) => ~open
          /\ IF aside THEN MovedAside ELSE UNCHANGED backups
          /\ file' = [lines |-> Opened(aside) \cup {l \in {written'} : appended}]
          /\ kept' = kept \cup {l \in {written'} : appended}
          /\ IF appended /\ ~Unopened(aside) THEN UNCHANGED breaks ELSE Breaks

\* The rename fails; or what follows it does, after or before there is a new
\* file.  The next Write opens what it finds.
RotationFails ==
    /\ Breaks
    /\ open' = FALSE
    /\ \/ UNCHANGED <<file, backups>>
       \/ MovedAside /\ file' \in {NoFileYet, [lines |-> {}]}

\* The rotation a line needs fails.
WriteFails ==
    /\ written < MaxLines /\ (Full \/ ~open)
    /\ written' = written + 1
    /\ RotationFails
    /\ UNCHANGED kept

\* What the nightly ticker of NewProdLoggger calls, however full the file is.
Rotate ==
    /\ Len(backups) < MaxAside
    /\ \/ MovedAside /\ file' = [lines |-> {}] /\ open' = TRUE /\ UNCHANGED breaks
       \/ RotationFails
    /\ UNCHANGED <<kept, written>>

Die ==
    /\ Breaks
    /\ open' = FALSE
    /\ UNCHANGED <<file, kept, written, backups>>

LogNext == Write \/ WriteFails \/ Rotate \/ Die

LogSpec == LogInit /\ [][LogNext]_logVars

-----------------------------------------------------------------------------
(***************************************************************************)
(* A line Write took is in the log file or in a file moved aside, although *)
(* a new log file is opened empty over whatever is there                   *)
(* (lumberjack.go:238): whichever step of a rotation fails, and whenever   *)
(* the process dies.                                                       *)
(***************************************************************************)
LinesKept ==
    \A l \in kept : l \in Lines \/ \E s \in DOMAIN backups : l \in backups[s]
=============================================================================
