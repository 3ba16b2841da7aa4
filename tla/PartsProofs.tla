----------------------------- MODULE PartsProofs -----------------------------
(***************************************************************************)
(* No line the log took is lost, for any sizes, limits and numbers of      *)
(* failures; and the parts that share no state keep beside each other what *)
(* they keep alone.                                                        *)
(***************************************************************************)
EXTENDS MCParts, RunnerProofs, AccountProofs, SequenceTheorems

LogInv == LogTypeOK /\ LinesKept

LEMMA LogInitInv == LogInit => LogInv
<1> SUFFICES ASSUME LogInit PROVE LogInv
  OBVIOUS
<1>1. <<>> \in Seq(SUBSET Line)
  OBVIOUS
<1>2. LogTypeOK
  <2>1. open \in BOOLEAN
    BY Zenon DEF LogInit
  <2>2. 0 \in 0 .. MaxLines /\ 0 \in 0 .. MaxBreaks
    BY LogAssumption
  <2> QED
    BY <1>1, <2>1, <2>2 DEF LogInit, LogTypeOK, Exists
<1>3. LinesKept
  BY DEF LogInit, LinesKept
<1> QED
  BY <1>2, <1>3 DEF LogInv

\* A file moved aside keeps its lines, and those of the older ones stay.
LEMMA Moved ==
    ASSUME LogInv, MovedAside
    PROVE  /\ backups' \in Seq(SUBSET Line)
           /\ \A l \in kept : \E s \in DOMAIN backups' : l \in backups'[s]
<1>1. CASE Exists
  <2>1. Lines \in SUBSET Line /\ backups \in Seq(SUBSET Line)
    BY <1>1 DEF LogInv, LogTypeOK, Lines
  <2>2. backups' = Append(backups, Lines)
    BY <1>1 DEF MovedAside
  <2> DEFINE n == Len(backups)
  <2>3. /\ n \in Nat /\ DOMAIN backups = 1 .. n
        /\ backups' \in Seq(SUBSET Line) /\ DOMAIN backups' = 1 .. n + 1
        /\ backups'[n + 1] = Lines
        /\ \A s \in 1 .. n : backups'[s] = backups[s]
    BY <2>1, <2>2
  <2>4. ASSUME NEW l \in kept PROVE \E s \in DOMAIN backups' : l \in backups'[s]
    <3>1. CASE l \in Lines
      BY <2>3, <3>1
    <3>2. CASE l \notin Lines
      <4>1. PICK s \in 1 .. n : l \in backups[s]
        BY <2>3, <3>2 DEF LogInv, LinesKept
      <4> QED
        BY <2>3, <4>1
    <3> QED
      BY <3>1, <3>2
  <2> QED
    BY <2>3, <2>4
<1>2. CASE ~Exists
  BY <1>2 DEF MovedAside, LogInv, LogTypeOK, LinesKept, Lines
<1> QED
  BY <1>1, <1>2

LEMMA WriteInv == LogInv /\ Write => LogInv'
<1> SUFFICES ASSUME LogInv, Write PROVE LogInv'
  OBVIOUS
<1>1. PICK aside, appended \in BOOLEAN :
        /\ IF aside THEN MovedAside ELSE UNCHANGED backups
        /\ file' = [lines |-> Opened(aside) \cup {l \in {written'} : appended}]
        /\ kept' = kept \cup {l \in {written'} : appended}
        /\ IF appended /\ ~Unopened(aside) THEN UNCHANGED breaks ELSE Breaks
  BY DEF Write
<1> DEFINE new == {l \in {written'} : appended}
<1>2. new \subseteq Line /\ written' \in 0 .. MaxLines /\ open' \in BOOLEAN
  BY LogAssumption DEF Write, LogInv, LogTypeOK, Line
<1>3. breaks' \in 0 .. MaxBreaks
  BY <1>1, LogAssumption DEF LogInv, LogTypeOK, Breaks
<1>4. Opened(aside) \subseteq Line
  BY DEF Opened, Lines, LogInv, LogTypeOK
<1>5. Exists' /\ Lines' = Opened(aside) \cup new
  BY <1>1 DEF Exists, Lines, NoFileYet
<1>6. backups' \in Seq(SUBSET Line)
  BY <1>1, Moved DEF LogInv, LogTypeOK
<1>7. LogTypeOK'
  BY <1>1, <1>2, <1>3, <1>4, <1>6, Zenon DEF LogInv, LogTypeOK, Line
<1>8. ASSUME NEW l \in kept PROVE l \in Lines' \/ \E s \in DOMAIN backups' : l \in backups'[s]
  <2>1. CASE aside
    BY <1>1, <2>1, Moved
  <2>2. CASE ~aside
    BY <1>1, <1>5, <2>2 DEF Opened, LogInv, LinesKept
  <2> QED
    BY <2>1, <2>2
<1>9. LinesKept'
  BY <1>1, <1>5, <1>8 DEF LinesKept
<1> QED
  BY <1>7, <1>9 DEF LogInv

LEMMA RotationFailsInv == LogInv /\ RotationFails /\ UNCHANGED kept /\ written' \in 0 .. MaxLines => LogInv'
<1> SUFFICES ASSUME LogInv, RotationFails, UNCHANGED kept, written' \in 0 .. MaxLines PROVE LogInv'
  OBVIOUS
<1>1. breaks' \in 0 .. MaxBreaks
  BY LogAssumption DEF LogInv, LogTypeOK, RotationFails, Breaks
<1>2. open' \in BOOLEAN
  BY Zenon DEF RotationFails
<1>3. CASE UNCHANGED <<file, backups>>
  <2>1. LogTypeOK'
    BY <1>2, <1>1, <1>3 DEF LogInv, LogTypeOK, Exists, Line
  <2>2. LinesKept'
    BY <1>3 DEF LogInv, LinesKept, Lines, Exists
  <2> QED
    BY <2>1, <2>2 DEF LogInv
<1>4. CASE MovedAside /\ file' \in {NoFileYet, [lines |-> {}]}
  <2>1. Exists' => file'.lines \subseteq Line
    BY <1>4 DEF Exists
  <2>2. LogTypeOK'
    BY <1>2, <1>1, <1>4, <2>1, Moved DEF LogInv, LogTypeOK, Line
  <2> QED
    BY <1>4, <2>2, Moved DEF LogInv, LinesKept
<1> QED
  BY <1>3, <1>4 DEF RotationFails

LEMMA RotateInv == LogInv /\ Rotate => LogInv'
<1> SUFFICES ASSUME LogInv, Rotate PROVE LogInv'
  OBVIOUS
<1>1. UNCHANGED <<kept, written>> /\ written' \in 0 .. MaxLines
  BY DEF Rotate, LogInv, LogTypeOK
<1>2. CASE MovedAside /\ file' = [lines |-> {}] /\ open' = TRUE /\ UNCHANGED breaks
  <2>1. LogTypeOK'
    BY <1>1, <1>2, Moved DEF LogInv, LogTypeOK, Line, Exists
  <2> QED
    BY <1>1, <1>2, <2>1, Moved DEF LogInv, LinesKept
<1> QED
  BY <1>1, <1>2, RotationFailsInv DEF Rotate

LEMMA LogStep == LogInv /\ [LogNext]_logVars => LogInv'
<1> SUFFICES ASSUME LogInv, [LogNext]_logVars PROVE LogInv'
  OBVIOUS
<1>1. CASE WriteFails
  <2>1. UNCHANGED kept /\ written' \in 0 .. MaxLines
    BY <1>1, LogAssumption DEF WriteFails, LogInv, LogTypeOK
  <2> QED
    BY <1>1, <2>1, RotationFailsInv DEF WriteFails
<1>2. CASE Die
  <2>0. open' \in BOOLEAN
    BY <1>2, Zenon DEF Die
  <2>1. LogTypeOK'
    <3>1. breaks' \in 0 .. MaxBreaks
      BY <1>2, LogAssumption DEF Die, Breaks, LogInv, LogTypeOK
    <3> QED
      BY <1>2, <2>0, <3>1 DEF Die, LogInv, LogTypeOK, Exists, Line
  <2>2. LinesKept'
    BY <1>2 DEF Die, LogInv, LinesKept, Lines, Exists
  <2> QED
    BY <2>1, <2>2 DEF LogInv
<1>3. CASE UNCHANGED logVars
  <2>1. LogTypeOK'
    BY <1>3 DEF logVars, LogInv, LogTypeOK, Exists, Line
  <2>2. LinesKept'
    BY <1>3 DEF logVars, LogInv, LinesKept, Lines, Exists
  <2> QED
    BY <2>1, <2>2 DEF LogInv
<1> QED
  BY <1>1, <1>2, <1>3, WriteInv, RotateInv DEF LogNext

(***************************************************************************)
(* Whichever file operation fails, whenever the process dies and for any   *)
(* number of rotations, every line Write took is in the log file or in one *)
(* moved aside (the Logger of zap.go:67-74).                               *)
(***************************************************************************)
THEOREM NoLineIsLost == LogSpec => []LinesKept
<1>1. LogInv => LinesKept
  BY DEF LogInv
<1> QED
  BY <1>1, LogInitInv, LogStep, PTL DEF LogSpec

-----------------------------------------------------------------------------
(* The parts, side by side.                                                *)

(***************************************************************************)
(* Where one of the parts moves at a time, each still runs as its own      *)
(* specification says, so what is proved of each holds beside the others.  *)
(***************************************************************************)
LEMMA PartsRunApart ==
    /\ PartsSpec => EditInit /\ [][EditNext]_editVars
    /\ PartsSpec => FrameInit /\ [][FrameNext]_frameVars
    /\ PartsSpec => AccountsInit /\ [][AccountsNext]_accountVars
    /\ PartsSpec => LogInit /\ [][LogNext]_logVars
<1>1. PartsInit => EditInit /\ FrameInit /\ AccountsInit /\ LogInit
  BY Zenon DEF PartsInit
<1>2. [PartsNext]_<<editVars, frameVars, accountVars, logVars, part>> =>
         /\ [EditNext]_editVars /\ [FrameNext]_frameVars
         /\ [AccountsNext]_accountVars /\ [LogNext]_logVars
  <2>1. CASE PartsNext
    BY <2>1, Zenon DEF PartsNext
  <2>2. CASE UNCHANGED <<editVars, frameVars, accountVars, logVars, part>>
    BY <2>2, Zenon
  <2> QED
    BY <2>1, <2>2
<1> QED
  BY <1>1, <1>2, PTL DEF PartsSpec

(***************************************************************************)
(* Whatever is clicked, typed, sent or cut off, every variable of the two  *)
(* runners, the accounts and the log keeps its type.                       *)
(***************************************************************************)
THEOREM PartsHaveTheirTypes == PartsSpec => []PartsTypeOK
<1>1. EditInv => EditTypeOK
  BY DEF EditInv
<1>2. FrameInv => FrameTypeOK
  BY DEF FrameInv
<1>3. AccountsInv => AccountsTypeOK
  BY DEF AccountsInv
<1>4. LogInv => LogTypeOK
  BY DEF LogInv
<1>5. EditInit /\ [][EditNext]_editVars => []EditInv
  BY EditInitInv, EditStep, PTL
<1>6. FrameInit /\ [][FrameNext]_frameVars => []FrameInv
  BY FrameInitInv, FrameStep, PTL
<1>7. AccountsInit /\ [][AccountsNext]_accountVars => []AccountsInv
  BY AccountsInitInv, AccountsStep, PTL
<1>8. LogInit /\ [][LogNext]_logVars => []LogInv
  BY LogInitInv, LogStep, PTL
<1>9. EditTypeOK /\ FrameTypeOK /\ AccountsTypeOK /\ LogTypeOK <=> PartsTypeOK
  BY DEF PartsTypeOK
<1>10. PartsSpec => [](EditInv /\ FrameInv)
  BY <1>5, <1>6, PartsRunApart, PTL
<1>11. PartsSpec => [](AccountsInv /\ LogInv)
  BY <1>7, <1>8, PartsRunApart, PTL
<1> QED
  BY <1>1, <1>2, <1>3, <1>4, <1>9, <1>10, <1>11, PTL
=============================================================================
