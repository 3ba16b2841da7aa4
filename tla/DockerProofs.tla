---------------------------- MODULE DockerProofs ----------------------------
(***************************************************************************)
(* No port of the runner is lost or has two owners, for any range of       *)
(* ports, any number of callers and containers, and any faults.            *)
(***************************************************************************)
EXTENDS DockerProperties, SequenceTheorems, TLAPS

\* The steps at which a caller has a port in hand.
Holding == {"docker", "markBad", "giveBack", "record", "settle"}

(***************************************************************************)
(* The control of the callers: who has a port, and that a container about  *)
(* to be recorded is new to the map and to every other caller.             *)
(***************************************************************************)
Control ==
    /\ \A c \in Caller : port[c] # NoPort <=> pc[c] \in Holding
    /\ \A c \in Caller : pc[c] = "record" =>
          /\ name[c] \in Box
          /\ box[name[c]] # "none"
          /\ containers[name[c]] = NoPort
          /\ \A d \in Caller : pc[d] = "record" /\ name[d] = name[c] => d = c
    /\ \A c \in Caller : pc[c] \in {"rm", "unmap", "settle"} => name[c] \in known
    /\ \A b \in known : box[b] # "none"
    /\ \A b \in Box : box[b] = "none" => containers[b] = NoPort
    /\ \A c \in Caller : pc[c] = "record" => name[c] \notin known

Owned(n) == InHands(n) \/ Mapped(n)

NoDup(s) == \A i, j \in 1 .. Len(s) : s[i] = s[j] => i = j

\* PortsAccounted, one claim at a time.
Book ==
    /\ NoDup(free)
    /\ \A n \in Port :
          /\ n \in used <=> Owned(n)
          /\ n \in used => n \notin bad
          /\ Contains(free, n) <=> n \notin used /\ n \notin bad

RunnerInv == TypeOK /\ Control /\ Book /\ OneOwner

\* The two forms of the accounts say the same.
LEMMA BookIsPortsAccounted == Book <=> PortsAccounted
BY Zenon DEF Book, NoDup, Owned, PortsAccounted

-----------------------------------------------------------------------------
(* What each method of the pool does.                                      *)

\* A new pool has every port once.
LEMMA FreshPool ==
    ASSUME NEW s, s = [i \in 1 .. PortEnd - PortStart + 1 |-> PortStart + i - 1]
    PROVE  s \in Seq(Port) /\ NoDup(s) /\ \A n \in Port : Contains(s, n)
<1> DEFINE len == PortEnd - PortStart + 1
<1>1. len \in Nat
  BY PortAssumption
<1>2. \A i \in 1 .. len : PortStart + i - 1 \in Port
  BY PortAssumption DEF Port
<1>3. s \in [1 .. len -> Port]
  BY <1>2
<1>4. s \in Seq(Port) /\ Len(s) = len
  <2>1. s \in Seq(Port)
    BY <1>1, <1>3, SeqDef
  <2> QED
    BY <1>1, <1>3, <2>1, LenProperties
<1>5. NoDup(s)
  BY <1>4, PortAssumption DEF NoDup
<1>6. ASSUME NEW n \in Port PROVE Contains(s, n)
  <2>1. n - PortStart + 1 \in 1 .. len /\ s[n - PortStart + 1] = n
    BY PortAssumption DEF Port
  <2> QED
    BY <1>4, <2>1 DEF Contains
<1> QED
  BY <1>4, <1>5, <1>6

\* All of a sequence but its last element.
LEMMA FrontEffect ==
    ASSUME NEW S, NEW s \in Seq(S), s # <<>>
    PROVE  /\ Front(s) \in Seq(S) /\ Len(Front(s)) = Len(s) - 1
           /\ \A i \in 1 .. Len(s) - 1 : Front(s)[i] = s[i]
<1> DEFINE n == Len(s) - 1
<1>1. n \in Nat /\ n \in 0 .. Len(s)
  BY EmptySeq, LenProperties
<1>2. Front(s) = [i \in 1 .. n |-> s[i]]
  BY <1>1, SubSeqRestrict DEF Front, Restrict
<1>3. \A i \in 1 .. n : s[i] \in S
  BY <1>1, LenProperties
<1>4. Front(s) \in [1 .. n -> S]
  BY <1>2, <1>3
<1> HIDE DEF n
<1>5. Front(s) \in Seq(S)
  BY <1>1, <1>4, SeqDef
<1>6. Len(Front(s)) = n
  BY <1>1, <1>4, <1>5, LenProperties
<1> QED
  BY <1>2, <1>5, <1>6 DEF n

\* Acquire takes one port out of the free ones.
LEMMA AcquireEffect ==
    ASSUME PoolTypeOK, NoDup(free), NEW n \in Port, AcquirePort(n)
    PROVE  /\ PoolTypeOK' /\ NoDup(free')
           /\ Contains(free, n)
           /\ \A m \in Port : Contains(free', m) <=> Contains(free, m) /\ m # n
           /\ used' = used \cup {n}
           /\ bad' = bad
<1>1. free \in Seq(Port) /\ Len(free) \in Nat /\ Len(free) # 0 /\ n = free[Len(free)]
  BY DEF PoolTypeOK, AcquirePort, Exhausted, Last
<1>2. /\ free' \in Seq(Port) /\ Len(free') = Len(free) - 1
      /\ \A i \in 1 .. Len(free) - 1 : free'[i] = free[i]
  BY <1>1, FrontEffect DEF AcquirePort, Exhausted
<1>3. NoDup(free')
  BY <1>1, <1>2 DEF NoDup
<1>4. Contains(free, n)
  BY <1>1 DEF Contains
<1>5. ASSUME NEW m \in Port
      PROVE  Contains(free', m) <=> Contains(free, m) /\ m # n
  BY <1>1, <1>2 DEF Contains, NoDup
<1> QED
  BY <1>2, <1>3, <1>4, <1>5 DEF AcquirePort, PoolTypeOK

\* Release puts a port that was handed out back among the free ones.
LEMMA ReleaseEffect ==
    ASSUME PoolTypeOK, NoDup(free), NEW n \in Port, ReleasePort(n),
           n \in used, n \notin bad, ~Contains(free, n)
    PROVE  /\ PoolTypeOK' /\ NoDup(free')
           /\ \A m \in Port : Contains(free', m) <=> Contains(free, m) \/ m = n
           /\ used' = used \ {n}
           /\ bad' = bad
<1>1. free \in Seq(Port) /\ Len(free) \in Nat /\ free' = Append(free, n)
  BY DEF PoolTypeOK, ReleasePort
<1>2. /\ free' \in Seq(Port) /\ Len(free') = Len(free) + 1
      /\ \A i \in 1 .. Len(free) : free'[i] = free[i]
      /\ free'[Len(free) + 1] = n
  BY <1>1
<1>3. NoDup(free')
  BY <1>1, <1>2 DEF NoDup, Contains
<1>4. ASSUME NEW m \in Port
      PROVE  Contains(free', m) <=> Contains(free, m) \/ m = n
  BY <1>1, <1>2 DEF Contains
<1> QED
  BY <1>2, <1>3, <1>4 DEF ReleasePort, PoolTypeOK

\* MarkBad puts a port that was handed out aside.
LEMMA MarkBadEffect ==
    ASSUME PoolTypeOK, NEW n \in Port, MarkBadPort(n),
           n \notin bad, ~Contains(free, n)
    PROVE  /\ PoolTypeOK' /\ free' = free
           /\ used' = used \ {n}
           /\ bad' = bad \cup {n}
BY DEF PoolTypeOK, MarkBadPort, RemoveFirst, Contains

-----------------------------------------------------------------------------
(* A change of hands changes what is owned, and keeps owners apart.        *)

\* A caller takes a port nobody owns.
LEMMA HandTakes ==
    ASSUME TypeOK, OneOwner, NEW c \in Caller, NEW n \in Port,
           port[c] = NoPort, ~Owned(n),
           port' = [port EXCEPT ![c] = n], UNCHANGED containers
    PROVE  OneOwner' /\ \A m \in Port : Owned(m)' <=> Owned(m) \/ m = n
<1>1. port \in [Caller -> Port \cup {NoPort}] /\ NoPort \notin Port
  BY PortAssumption DEF TypeOK
<1>2. \A d \in Caller : port'[d] = IF d = c THEN n ELSE port[d]
  BY <1>1
<1>3. \A m : Mapped(m)' <=> Mapped(m)
  BY DEF Mapped
<1>4. \A m \in Port : InHands(m)' <=> InHands(m) \/ m = n
  BY <1>1, <1>2 DEF InHands
<1>5. OneOwner'
  BY <1>1, <1>2, <1>3 DEF OneOwner, Owned, InHands
<1> QED
  BY <1>3, <1>4, <1>5 DEF Owned

\* A caller lets go of its port.
LEMMA HandDrops ==
    ASSUME TypeOK, OneOwner, NEW c \in Caller, port[c] \in Port,
           port' = [port EXCEPT ![c] = NoPort], UNCHANGED containers
    PROVE  OneOwner' /\ \A m \in Port : Owned(m)' <=> Owned(m) /\ m # port[c]
<1>1. port \in [Caller -> Port \cup {NoPort}] /\ NoPort \notin Port
  BY PortAssumption DEF TypeOK
<1>2. \A d \in Caller : port'[d] = IF d = c THEN NoPort ELSE port[d]
  BY <1>1
<1>3. \A m : Mapped(m)' <=> Mapped(m)
  BY DEF Mapped
<1>4. \A m \in Port : InHands(m)' <=> InHands(m) /\ m # port[c]
  BY <1>1, <1>2 DEF InHands, OneOwner
<1>5. OneOwner'
  BY <1>1, <1>2, <1>3 DEF OneOwner
<1>6. \A m \in Port : Mapped(m) => m # port[c]
  BY <1>1 DEF OneOwner
<1> QED
  BY <1>3, <1>4, <1>5, <1>6 DEF Owned

\* The map takes over the port of a caller.
LEMMA MapTakes ==
    ASSUME TypeOK, OneOwner, NEW c \in Caller, NEW b \in Box, port[c] \in Port,
           containers[b] = NoPort,
           containers' = [containers EXCEPT ![b] = port[c]],
           port' = [port EXCEPT ![c] = NoPort]
    PROVE  OneOwner' /\ \A m \in Port : Owned(m)' <=> Owned(m)
<1>1. /\ port \in [Caller -> Port \cup {NoPort}] /\ NoPort \notin Port
      /\ containers \in [Box -> Port \cup {NoPort}]
  BY PortAssumption DEF TypeOK
<1>2. \A d \in Caller : port'[d] = IF d = c THEN NoPort ELSE port[d]
  BY <1>1
<1>3. \A d \in Box : containers'[d] = IF d = b THEN port[c] ELSE containers[d]
  BY <1>1
<1>4. \A m \in Port : Mapped(m)' <=> Mapped(m) \/ m = port[c]
  BY <1>1, <1>3 DEF Mapped
<1>5. \A m \in Port : InHands(m)' <=> InHands(m) /\ m # port[c]
  BY <1>1, <1>2 DEF InHands, OneOwner
<1>6. ~Mapped(port[c])
  BY <1>1 DEF OneOwner
<1>7. \A d, e \in Box : containers'[d] # NoPort /\ containers'[d] = containers'[e] => d = e
  BY <1>1, <1>3, <1>6 DEF OneOwner, Mapped
<1>8. \A d, e \in Caller : port'[d] # NoPort /\ port'[d] = port'[e] => d = e
  BY <1>1, <1>2 DEF OneOwner
<1>9. \A d \in Caller : port'[d] # NoPort => \A e \in Box : containers'[e] # port'[d]
  BY <1>1, <1>2, <1>3 DEF OneOwner, Mapped
<1>10. OneOwner'
  BY <1>7, <1>8, <1>9 DEF OneOwner, Mapped
<1> QED
  BY <1>4, <1>5, <1>10 DEF Owned, InHands

\* A caller takes over the port of a mapped container.
LEMMA MapGives ==
    ASSUME TypeOK, OneOwner, NEW c \in Caller, NEW b \in Box, port[c] = NoPort,
           containers[b] \in Port,
           containers' = [containers EXCEPT ![b] = NoPort],
           port' = [port EXCEPT ![c] = containers[b]]
    PROVE  OneOwner' /\ \A m \in Port : Owned(m)' <=> Owned(m)
<1>1. /\ port \in [Caller -> Port \cup {NoPort}] /\ NoPort \notin Port
      /\ containers \in [Box -> Port \cup {NoPort}]
  BY PortAssumption DEF TypeOK
<1>2. \A d \in Caller : port'[d] = IF d = c THEN containers[b] ELSE port[d]
  BY <1>1
<1>3. \A d \in Box : containers'[d] = IF d = b THEN NoPort ELSE containers[d]
  BY <1>1
<1>4. \A m \in Port : Mapped(m)' <=> Mapped(m) /\ m # containers[b]
  BY <1>1, <1>3 DEF Mapped, OneOwner
<1>5. \A m \in Port : InHands(m)' <=> InHands(m) \/ m = containers[b]
  BY <1>1, <1>2 DEF InHands
<1>6. Mapped(containers[b])
  BY DEF Mapped
<1>7. \A d, e \in Box : containers'[d] # NoPort /\ containers'[d] = containers'[e] => d = e
  BY <1>1, <1>3 DEF OneOwner
<1>8. \A d \in Caller : port[d] # containers[b]
  BY <1>1, <1>6 DEF OneOwner
<1>9. \A d, e \in Caller : port'[d] # NoPort /\ port'[d] = port'[e] => d = e
  BY <1>1, <1>2, <1>8 DEF OneOwner
<1>10. \A d \in Caller : port'[d] # NoPort => \A e \in Box : containers'[e] # port'[d]
  BY <1>1, <1>2, <1>3 DEF OneOwner, Mapped
<1>11. OneOwner'
  BY <1>7, <1>9, <1>10 DEF OneOwner, Mapped
<1> QED
  BY <1>4, <1>5, <1>6, <1>11 DEF Owned

-----------------------------------------------------------------------------
(* The accounts follow the pool and the owners.                            *)

LEMMA BookAcquire ==
    ASSUME TypeOK, Book, NEW n \in Port, AcquirePort(n),
           \A m \in Port : Owned(m)' <=> Owned(m) \/ m = n
    PROVE  Book'
<1>1. PoolTypeOK /\ NoDup(free)
  BY DEF TypeOK, Book
<1>2. /\ NoDup(free') /\ Contains(free, n)
      /\ \A m \in Port : Contains(free', m) <=> Contains(free, m) /\ m # n
      /\ used' = used \cup {n} /\ bad' = bad
  BY <1>1, AcquireEffect
<1>3. ASSUME NEW m \in Port
      PROVE  /\ m \in used' <=> Owned(m)'
             /\ m \in used' => m \notin bad'
             /\ Contains(free', m) <=> m \notin used' /\ m \notin bad'
  BY <1>2, <1>3 DEF Book
<1> QED
  BY <1>2, <1>3 DEF Book

LEMMA BookRelease ==
    ASSUME TypeOK, Book, NEW n \in Port, Owned(n), ReleasePort(n),
           \A m \in Port : Owned(m)' <=> Owned(m) /\ m # n
    PROVE  Book'
<1>1. PoolTypeOK /\ NoDup(free) /\ n \in used /\ n \notin bad /\ ~Contains(free, n)
  BY DEF TypeOK, Book
<1>2. /\ NoDup(free')
      /\ \A m \in Port : Contains(free', m) <=> Contains(free, m) \/ m = n
      /\ used' = used \ {n} /\ bad' = bad
  BY <1>1, ReleaseEffect
<1>3. ASSUME NEW m \in Port
      PROVE  /\ m \in used' <=> Owned(m)'
             /\ m \in used' => m \notin bad'
             /\ Contains(free', m) <=> m \notin used' /\ m \notin bad'
  BY <1>1, <1>2, <1>3 DEF Book
<1> QED
  BY <1>2, <1>3 DEF Book

LEMMA BookMarkBad ==
    ASSUME TypeOK, Book, NEW n \in Port, Owned(n), MarkBadPort(n),
           \A m \in Port : Owned(m)' <=> Owned(m) /\ m # n
    PROVE  Book'
<1>1. PoolTypeOK /\ n \in used /\ n \notin bad /\ ~Contains(free, n)
  BY DEF TypeOK, Book
<1>2. free' = free /\ used' = used \ {n} /\ bad' = bad \cup {n}
  BY <1>1, MarkBadEffect
<1>3. ASSUME NEW m \in Port
      PROVE  /\ m \in used' <=> Owned(m)'
             /\ m \in used' => m \notin bad'
             /\ Contains(free', m) <=> m \notin used' /\ m \notin bad'
  BY <1>1, <1>2, <1>3 DEF Book
<1> QED
  BY <1>2, <1>3 DEF Book

LEMMA BookKept ==
    ASSUME Book, UNCHANGED poolVars, \A m \in Port : Owned(m)' <=> Owned(m)
    PROVE  Book'
BY DEF Book, poolVars, NoDup, Contains

\* Nothing is owned anew while hands and map stay as they are.
LEMMA OwnersKept ==
    ASSUME UNCHANGED <<containers, port>>
    PROVE  (OneOwner => OneOwner') /\ \A m \in Port : Owned(m)' <=> Owned(m)
BY DEF OneOwner, Owned, InHands, Mapped

-----------------------------------------------------------------------------
(* The steps of a caller keep the types of its own state.                  *)

CallerTypeOK ==
    /\ pc \in [Caller -> Label]
    /\ port \in [Caller -> Port \cup {NoPort}]
    /\ name \in [Caller -> Box \cup {NoBox}]
    /\ tries \in [Caller -> 0 .. RetryLimit - 1]
    /\ failed \in [Caller -> BOOLEAN]

\* A caller that returns has nothing in hand.
LEMMA ReturnEffect ==
    ASSUME TypeOK, NEW c \in Caller, Return(c)
    PROVE  /\ CallerTypeOK'
           /\ \A d \in Caller : /\ pc'[d] = IF d = c THEN "idle" ELSE pc[d]
                                /\ d # c => name'[d] = name[d]
                                /\ port'[d] = IF d = c THEN NoPort ELSE port[d]
           /\ port' = [port EXCEPT ![c] = NoPort]
<1>1. 0 \in 0 .. RetryLimit - 1
  BY RunnerAssumption
<1>2. failed' \in [Caller -> BOOLEAN]
  BY Zenon DEF TypeOK, Return
<1>3. /\ pc' \in [Caller -> Label] /\ port' \in [Caller -> Port \cup {NoPort}]
      /\ name' \in [Caller -> Box \cup {NoBox}] /\ tries' \in [Caller -> 0 .. RetryLimit - 1]
  BY <1>1 DEF TypeOK, Return, Label
<1> QED
  BY <1>2, <1>3 DEF TypeOK, Return, CallerTypeOK

\* A caller that goes on keeps what it has.
LEMMA GotoEffect ==
    ASSUME TypeOK, NEW c \in Caller, NEW l \in Label, Goto(c, l)
    PROVE  /\ CallerTypeOK'
           /\ \A d \in Caller : pc'[d] = IF d = c THEN l ELSE pc[d]
           /\ UNCHANGED <<port, name>>
BY DEF TypeOK, Goto, CallerTypeOK

\* A fault is counted.
LEMMA FaultTypes ==
    ASSUME TypeOK, NEW k, NoFault \/ Fault(k)
    PROVE  faults' \in 0 .. MaxFaults
BY RunnerAssumption DEF TypeOK, Fault, NoFault

-----------------------------------------------------------------------------
(* One lemma for each step.                                                *)

LEMMA AcquireStep ==
    ASSUME RunnerInv, NEW c \in Caller, Acquire(c)
    PROVE  RunnerInv'
<1> USE DEF RunnerInv
<1>0. port[c] = NoPort
  BY DEF Control, Acquire, Holding
<1>1. ASSUME NEW n \in Port, AcquirePort(n), port' = [port EXCEPT ![c] = n],
             pc' = [pc EXCEPT ![c] = "docker"], UNCHANGED <<name, tries, failed>>,
             UNCHANGED <<containers, daemonVars, known, bootVars, faults>>
      PROVE  RunnerInv'
  <2>1. Contains(free, n) /\ ~Owned(n) /\ PoolTypeOK'
    BY <1>1, AcquireEffect DEF TypeOK, Book
  <2>2. OneOwner' /\ \A m \in Port : Owned(m)' <=> Owned(m) \/ m = n
    BY <1>0, <1>1, <2>1, HandTakes
  <2>3. Book'
    BY <1>1, <2>2, BookAcquire
  <2>4. TypeOK'
    BY <1>1, <2>1 DEF TypeOK, Label, daemonVars, bootVars
  <2>5. Control'
    BY <1>0, <1>1, PortAssumption DEF Control, TypeOK, Holding, Acquire, daemonVars
  <2> QED
    BY <2>2, <2>3, <2>4, <2>5
<1>2. ASSUME Return(c), UNCHANGED poolVars,
             UNCHANGED <<containers, daemonVars, known, bootVars, faults>>
      PROVE  RunnerInv'
  <2>1. /\ CallerTypeOK' /\ UNCHANGED port
        /\ \A d \in Caller : /\ pc'[d] = IF d = c THEN "idle" ELSE pc[d]
                             /\ d # c => name'[d] = name[d]
    BY <1>0, <1>2, ReturnEffect DEF TypeOK
  <2>2. OneOwner' /\ Book'
    BY <1>2, <2>1, OwnersKept, BookKept
  <2>3. TypeOK'
    BY <1>2, <2>1 DEF TypeOK, PoolTypeOK, CallerTypeOK, poolVars, daemonVars, bootVars
  <2>4. Control'
    BY <1>0, <1>2, <2>1 DEF Control, Holding, daemonVars
  <2> QED
    BY <2>2, <2>3, <2>4
<1> QED
  BY <1>1, <1>2 DEF Acquire

LEMMA DockerRunStep ==
    ASSUME RunnerInv, NEW c \in Caller, DockerRun(c)
    PROVE  RunnerInv'
<1> USE DEF RunnerInv
<1>0. /\ UNCHANGED <<poolVars, containers, known, bootVars, port>>
      /\ pc[c] = "docker" /\ port[c] \in Port
  BY PortAssumption DEF DockerRun, Goto, Control, Holding, TypeOK
<1>1. OneOwner' /\ Book'
  BY <1>0, OwnersKept, BookKept
<1>2. faults' \in 0 .. MaxFaults
  BY FaultTypes DEF DockerRun
<1>3. CASE UNCHANGED daemonVars
  <2>1. PICK l \in {"markBad", "giveBack"} : Goto(c, l)
    BY <1>0, <1>3 DEF DockerRun, Publish, daemonVars, TypeOK
  <2>2. /\ CallerTypeOK' /\ UNCHANGED <<port, name>>
        /\ \A d \in Caller : pc'[d] = IF d = c THEN l ELSE pc[d]
    BY <2>1, GotoEffect DEF Label
  <2>3. TypeOK'
    BY <1>0, <1>2, <1>3, <2>2 DEF TypeOK, PoolTypeOK, CallerTypeOK, poolVars, daemonVars, bootVars
  <2>4. Control'
    BY <1>0, <1>3, <2>2 DEF Control, Holding, daemonVars
  <2> QED
    BY <1>1, <2>3, <2>4
<1>4. ASSUME NEW b \in Box, Publish(b, port[c]), Goto(c, "giveBack")
      PROVE  RunnerInv'
  <2>1. /\ CallerTypeOK' /\ UNCHANGED <<port, name>>
        /\ \A d \in Caller : pc'[d] = IF d = c THEN "giveBack" ELSE pc[d]
    BY <1>4, GotoEffect DEF Label
  <2>2. TypeOK'
    BY <1>0, <1>2, <1>4, <2>1
       DEF TypeOK, PoolTypeOK, CallerTypeOK, poolVars, bootVars, Publish
  <2>3. Control'
    BY <1>0, <1>4, <2>1 DEF Control, Holding, Publish, TypeOK
  <2> QED
    BY <1>1, <2>2, <2>3
<1>5. ASSUME NEW b \in Box, Publish(b, port[c]), name' = [name EXCEPT ![c] = b],
             pc' = [pc EXCEPT ![c] = "record"], UNCHANGED <<port, tries, failed>>
      PROVE  RunnerInv'
  <2>1. TypeOK'
    BY <1>0, <1>2, <1>5 DEF TypeOK, PoolTypeOK, poolVars, bootVars, Publish, Label
  <2>2. Control'
    BY <1>0, <1>5 DEF Control, Holding, Publish, TypeOK
  <2> QED
    BY <1>1, <2>1, <2>2
<1> QED
  BY <1>3, <1>4, <1>5 DEF DockerRun

LEMMA MarkBadStep ==
    ASSUME RunnerInv, NEW c \in Caller, MarkBad(c)
    PROVE  RunnerInv'
<1> USE DEF RunnerInv
<1>0. /\ UNCHANGED <<containers, daemonVars, known, bootVars, faults>>
      /\ port[c] \in Port /\ MarkBadPort(port[c]) /\ Owned(port[c])
      /\ port' = [port EXCEPT ![c] = NoPort]
  BY PortAssumption DEF MarkBad, Return, Control, Holding, TypeOK, Owned, InHands
<1>1. OneOwner' /\ \A m \in Port : Owned(m)' <=> Owned(m) /\ m # port[c]
  BY <1>0, HandDrops
<1>2. Book' /\ PoolTypeOK'
  BY <1>0, <1>1, BookMarkBad, MarkBadEffect DEF Book, TypeOK
<1>3. /\ CallerTypeOK'
      /\ pc'[c] \in {"idle", "retry"}
      /\ \A d \in Caller : d # c => pc'[d] = pc[d] /\ name'[d] = name[d]
  <2>1. CASE Return(c)
    BY <2>1, ReturnEffect
  <2>2. CASE /\ pc' = [pc EXCEPT ![c] = "retry"]
             /\ tries[c] + 1 < RetryLimit
             /\ tries' = [tries EXCEPT ![c] = @ + 1]
             /\ UNCHANGED <<name, failed>>
    BY <1>0, <2>2, RunnerAssumption DEF TypeOK, CallerTypeOK, Label
  <2> QED
    BY <2>1, <2>2 DEF MarkBad
<1>4. TypeOK'
  BY <1>0, <1>2, <1>3 DEF TypeOK, CallerTypeOK, daemonVars, bootVars
<1>5. Control'
  BY <1>0, <1>3, PortAssumption DEF Control, Holding, TypeOK, daemonVars
<1> QED
  BY <1>1, <1>2, <1>4, <1>5

\* GiveBack and Settle: a caller returns and its port leaves its hands.
LEMMA ReleasingStep ==
    ASSUME RunnerInv, NEW c \in Caller, GiveBack(c) \/ Settle(c)
    PROVE  RunnerInv'
<1> USE DEF RunnerInv
<1>0. /\ UNCHANGED <<containers, daemonVars, known, bootVars, faults>>
      /\ port[c] \in Port /\ Owned(port[c]) /\ Return(c)
      /\ ReleasePort(port[c]) \/ MarkBadPort(port[c])
  BY PortAssumption DEF GiveBack, Settle, Control, Holding, TypeOK, Owned, InHands
<1>1. /\ CallerTypeOK' /\ port' = [port EXCEPT ![c] = NoPort]
      /\ \A d \in Caller : /\ pc'[d] = IF d = c THEN "idle" ELSE pc[d]
                           /\ d # c => name'[d] = name[d]
                           /\ port'[d] = IF d = c THEN NoPort ELSE port[d]
  BY <1>0, ReturnEffect
<1>2. OneOwner' /\ \A m \in Port : Owned(m)' <=> Owned(m) /\ m # port[c]
  BY <1>0, <1>1, HandDrops
<1>3. Book' /\ PoolTypeOK'
  BY <1>0, <1>2, BookRelease, BookMarkBad, ReleaseEffect, MarkBadEffect DEF Book, TypeOK
<1>4. TypeOK'
  BY <1>0, <1>1, <1>3 DEF TypeOK, CallerTypeOK, daemonVars, bootVars
<1>5. Control'
  BY <1>0, <1>1 DEF Control, Holding, daemonVars
<1> QED
  BY <1>2, <1>3, <1>4, <1>5

LEMMA RecordStep ==
    ASSUME RunnerInv, NEW c \in Caller, Record(c)
    PROVE  RunnerInv'
<1> USE DEF RunnerInv
<1>0. /\ UNCHANGED <<poolVars, daemonVars, bootVars, faults>> /\ Return(c)
      /\ containers' = [containers EXCEPT ![name[c]] = port[c]]
      /\ known' = known \cup {name[c]}
      /\ pc[c] = "record" /\ port[c] \in Port /\ name[c] \in Box
      /\ containers[name[c]] = NoPort
  BY PortAssumption DEF Record, Control, Holding, TypeOK
<1>1. /\ CallerTypeOK' /\ port' = [port EXCEPT ![c] = NoPort]
      /\ \A d \in Caller : /\ pc'[d] = IF d = c THEN "idle" ELSE pc[d]
                           /\ d # c => name'[d] = name[d]
                           /\ port'[d] = IF d = c THEN NoPort ELSE port[d]
  BY <1>0, ReturnEffect
<1>2. OneOwner' /\ \A m \in Port : Owned(m)' <=> Owned(m)
  BY <1>0, <1>1, MapTakes
<1>3. Book'
  BY <1>0, <1>2, BookKept
<1>4. TypeOK'
  BY <1>0, <1>1 DEF TypeOK, PoolTypeOK, CallerTypeOK, poolVars, daemonVars, bootVars
<1>5. Control'
  BY <1>0, <1>1 DEF Control, Holding, daemonVars, TypeOK
<1> QED
  BY <1>2, <1>3, <1>4, <1>5

LEMMA StopStep ==
    ASSUME RunnerInv, NEW c \in Caller, NEW b \in Box, Stop(c, b)
    PROVE  RunnerInv'
<1> USE DEF RunnerInv
<1>0. /\ UNCHANGED <<poolVars, containers, port, daemonVars, known, tries, failed,
                     bootVars, faults>>
      /\ pc[c] = "idle" /\ b \in known
      /\ pc' = [pc EXCEPT ![c] = "rm"] /\ name' = [name EXCEPT ![c] = b]
  BY DEF Stop
<1>1. OneOwner' /\ Book'
  BY <1>0, OwnersKept, BookKept
<1>2. TypeOK'
  BY <1>0 DEF TypeOK, PoolTypeOK, poolVars, daemonVars, bootVars, Label
<1>3. Control'
  BY <1>0 DEF Control, Holding, daemonVars, TypeOK
<1> QED
  BY <1>1, <1>2, <1>3

LEMMA RmBoxStep ==
    ASSUME RunnerInv, NEW c \in Caller, RmBox(c)
    PROVE  RunnerInv'
<1> USE DEF RunnerInv
<1>0. /\ UNCHANGED <<poolVars, containers, published, foreign, known, port, name, tries,
                     bootVars>>
      /\ pc[c] = "rm" /\ pc' = [pc EXCEPT ![c] = "unmap"]
      /\ name[c] \in known /\ name[c] \in Box
  BY DEF RmBox, Control, TypeOK
<1>1. OneOwner' /\ Book'
  BY <1>0, OwnersKept, BookKept
<1>2. /\ box' \in [Box -> {"none", "up", "exited", "gone"}]
      /\ \A b \in Box : box'[b] = "none" <=> box[b] = "none"
  BY <1>0 DEF RmBox, TypeOK, Control
<1>3. failed' \in [Caller -> BOOLEAN]
  BY Zenon DEF RmBox, TypeOK
<1>4. faults' \in 0 .. MaxFaults
  BY FaultTypes DEF RmBox
<1>5. TypeOK'
  BY <1>0, <1>2, <1>3, <1>4 DEF TypeOK, PoolTypeOK, poolVars, bootVars, Label
<1>6. Control'
  BY <1>0, <1>2 DEF Control, Holding, TypeOK
<1> QED
  BY <1>1, <1>5, <1>6

LEMMA UnmapStep ==
    ASSUME RunnerInv, NEW c \in Caller, Unmap(c)
    PROVE  RunnerInv'
<1> USE DEF RunnerInv
<1>0. /\ UNCHANGED <<poolVars, daemonVars, known, bootVars, faults>>
      /\ pc[c] = "unmap" /\ port[c] = NoPort /\ name[c] \in Box /\ name[c] \in known
      /\ containers' = [containers EXCEPT ![name[c]] = NoPort]
  BY DEF Unmap, Control, TypeOK, Holding
<1>1. CASE containers[name[c]] = NoPort
  <2>1. containers' = containers /\ Return(c)
    BY <1>0, <1>1 DEF Unmap, TypeOK
  <2>2. /\ CallerTypeOK' /\ UNCHANGED port
        /\ \A d \in Caller : /\ pc'[d] = IF d = c THEN "idle" ELSE pc[d]
                             /\ d # c => name'[d] = name[d]
    BY <1>0, <2>1, ReturnEffect DEF TypeOK
  <2>3. OneOwner' /\ Book'
    BY <1>0, <2>1, <2>2, OwnersKept, BookKept
  <2>4. TypeOK'
    BY <1>0, <2>1, <2>2
       DEF TypeOK, PoolTypeOK, CallerTypeOK, poolVars, daemonVars, bootVars
  <2>5. Control'
    BY <1>0, <2>1, <2>2 DEF Control, Holding, daemonVars
  <2> QED
    BY <2>3, <2>4, <2>5
<1>2. CASE containers[name[c]] # NoPort
  <2>1. /\ containers[name[c]] \in Port
        /\ pc' = [pc EXCEPT ![c] = "settle"]
        /\ port' = [port EXCEPT ![c] = containers[name[c]]]
        /\ UNCHANGED <<name, tries, failed>>
    BY <1>0, <1>2 DEF Unmap, TypeOK
  <2>2. OneOwner' /\ \A m \in Port : Owned(m)' <=> Owned(m)
    BY <1>0, <2>1, MapGives
  <2>3. Book'
    BY <1>0, <2>2, BookKept
  <2>4. TypeOK'
    BY <1>0, <2>1 DEF TypeOK, PoolTypeOK, poolVars, daemonVars, bootVars, Label
  <2>5. Control'
    BY <1>0, <2>1, PortAssumption DEF Control, Holding, daemonVars, TypeOK
  <2> QED
    BY <2>2, <2>3, <2>4, <2>5
<1> QED
  BY <1>1, <1>2

\* The host: no port changes hands.
LEMMA HostStep ==
    ASSUME RunnerInv,
           \/ \E b \in Box : Exit(b) \/ Forget(b)
           \/ \E n \in Port : Bind(n) \/ Unbind(n)
    PROVE  RunnerInv'
<1> USE DEF RunnerInv
<1>0. UNCHANGED <<poolVars, containers, callerVars, bootVars>>
  BY DEF Exit, Forget, Bind, Unbind
<1>1. OneOwner' /\ Book'
  BY <1>0, OwnersKept, BookKept DEF callerVars
<1>2. faults' \in 0 .. MaxFaults
  BY FaultTypes DEF Exit, Forget, Bind, Unbind, NoFault
<1>3. ASSUME NEW b \in Box, Exit(b) PROVE RunnerInv'
  <2>1. TypeOK'
    BY <1>0, <1>2, <1>3 DEF TypeOK, PoolTypeOK, poolVars, callerVars, bootVars, Exit
  <2>2. Control'
    BY <1>0, <1>3 DEF Control, Holding, callerVars, Exit, TypeOK
  <2> QED
    BY <1>1, <2>1, <2>2
<1>4. ASSUME NEW b \in Box, Forget(b) PROVE RunnerInv'
  <2>1. TypeOK'
    BY <1>0, <1>2, <1>4 DEF TypeOK, PoolTypeOK, poolVars, callerVars, bootVars, Forget
  <2>2. Control'
    BY <1>0, <1>4 DEF Control, Holding, callerVars, Forget, TypeOK
  <2> QED
    BY <1>1, <2>1, <2>2
<1>5. ASSUME NEW n \in Port, Bind(n) \/ Unbind(n) PROVE RunnerInv'
  <2>1. TypeOK'
    BY <1>0, <1>2, <1>5 DEF TypeOK, PoolTypeOK, poolVars, callerVars, bootVars, Bind, Unbind
  <2>2. Control'
    BY <1>0, <1>5 DEF Control, Holding, callerVars, Bind, Unbind
  <2> QED
    BY <1>1, <2>1, <2>2
<1> QED
  BY <1>3, <1>4, <1>5

\* Reconcile removes containers and touches no port.
LEMMA ReconcileStep ==
    ASSUME RunnerInv, Reconcile
    PROVE  RunnerInv'
<1> USE DEF RunnerInv
<1>0. UNCHANGED <<poolVars, containers, published, foreign, known, callerVars>>
  BY DEF Reconcile, ListLeftovers, RemoveLeftovers, daemonVars
<1>1. OneOwner' /\ Book'
  BY <1>0, OwnersKept, BookKept DEF callerVars
<1>2. /\ boot' \in {"list", "rm", "done"} /\ leftover' \subseteq Box
      /\ box' \in [Box -> {"none", "up", "exited", "gone"}]
      /\ \A b \in Box : box'[b] = "none" => box[b] = "none"
  BY DEF Reconcile, ListLeftovers, RemoveLeftovers, daemonVars, TypeOK
<1>3. faults' \in 0 .. MaxFaults
  BY FaultTypes DEF Reconcile, ListLeftovers, RemoveLeftovers
<1>4. TypeOK'
  BY <1>0, <1>2, <1>3 DEF TypeOK, PoolTypeOK, poolVars, callerVars
<1>5. Control'
  BY <1>0, <1>2 DEF Control, Holding, callerVars, TypeOK
<1> QED
  BY <1>1, <1>4, <1>5

-----------------------------------------------------------------------------
(* A process that has just started owns nothing.                           *)

LEMMA NewRunner ==
    ASSUME containers' = [b \in Box |-> NoPort],
           pc' = [c \in Caller |-> "idle"],
           port' = [c \in Caller |-> NoPort],
           RenewPool,
           \A b \in known' : box'[b] # "none"
    PROVE  PoolTypeOK' /\ Control' /\ Book' /\ OneOwner'
<1>1. /\ free' \in Seq(Port) /\ NoDup(free') /\ \A n \in Port : Contains(free', n)
      /\ used' = {} /\ bad' = {}
  BY FreshPool DEF RenewPool
<1>2. \A n \in Port : ~Owned(n)'
  BY PortAssumption DEF Owned, InHands, Mapped
<1>3. Book' /\ PoolTypeOK'
  BY <1>1, <1>2 DEF Book, PoolTypeOK
<1>4. Control'
  BY DEF Control, Holding
<1>5. OneOwner'
  BY DEF OneOwner
<1> QED
  BY <1>3, <1>4, <1>5

LEMMA CrashStep ==
    ASSUME RunnerInv, Crash
    PROVE  RunnerInv'
<1>1. PoolTypeOK' /\ Control' /\ Book' /\ OneOwner'
  BY NewRunner DEF RunnerInv, Control, Crash, daemonVars
<1>2. failed' \in [Caller -> BOOLEAN]
  BY Zenon DEF Crash
<1>3. faults' \in 0 .. MaxFaults
  BY FaultTypes DEF Crash, RunnerInv
<1>4. TypeOK'
  BY <1>1, <1>2, <1>3, RunnerAssumption DEF RunnerInv, TypeOK, Crash, daemonVars, Label
<1> QED
  BY <1>1, <1>4 DEF RunnerInv

LEMMA InitRunner == Init => RunnerInv
<1> SUFFICES ASSUME Init PROVE RunnerInv
  OBVIOUS
<1>1. /\ free \in Seq(Port) /\ NoDup(free) /\ \A n \in Port : Contains(free, n)
      /\ used = {} /\ bad = {}
  BY FreshPool DEF Init, NewPool
<1>2. \A n \in Port : ~Owned(n)
  BY PortAssumption DEF Init, Owned, InHands, Mapped
<1>3. Book /\ PoolTypeOK
  BY <1>1, <1>2 DEF Book, PoolTypeOK
<1>4. Control /\ OneOwner
  BY DEF Init, Control, Holding, OneOwner
<1>5. failed \in [Caller -> BOOLEAN]
  BY Zenon DEF Init
<1>6. TypeOK
  BY <1>3, <1>5, RunnerAssumption DEF Init, TypeOK, Label
<1> QED
  BY <1>3, <1>4, <1>6 DEF RunnerInv

LEMMA NextRunner == RunnerInv /\ [Next]_vars => RunnerInv'
<1> SUFFICES ASSUME RunnerInv, [Next]_vars PROVE RunnerInv'
  OBVIOUS
<1>1. ASSUME NEW c \in Caller, Call(c) PROVE RunnerInv'
  BY <1>1, AcquireStep, StopStep DEF Call
<1>2. ASSUME NEW c \in Caller, CallerStep(c) PROVE RunnerInv'
  BY <1>2, AcquireStep, DockerRunStep, MarkBadStep, ReleasingStep, RecordStep,
     RmBoxStep, UnmapStep DEF CallerStep
<1>3. CASE Reconcile
  BY <1>3, ReconcileStep
<1>4. CASE Host
  BY <1>4, HostStep, CrashStep DEF Host
<1>5. CASE UNCHANGED vars
  <2>1. OneOwner' /\ Book'
    BY <1>5, OwnersKept, BookKept DEF RunnerInv, vars, callerVars
  <2>2. TypeOK' /\ Control'
    BY <1>5 DEF RunnerInv, TypeOK, PoolTypeOK, Control, vars, poolVars, callerVars,
                daemonVars, bootVars
  <2> QED
    BY <2>1, <2>2 DEF RunnerInv
<1> QED
  BY <1>1, <1>2, <1>3, <1>4, <1>5 DEF Next

LEMMA RunnerAlways == Spec => []RunnerInv
BY InitRunner, NextRunner, PTL DEF Spec

-----------------------------------------------------------------------------

(***************************************************************************)
(* The types, and with them the limit of the retries (docker.go:100): no    *)
(* Run counts more failed tries than dockerRunPortRetryLimit allows.       *)
(***************************************************************************)
THEOREM RetriesAreLimited == Spec => []TypeOK
<1>1. RunnerInv => TypeOK
  BY DEF RunnerInv
<1> QED
  BY <1>1, RunnerAlways, PTL

\* Whatever calls of Run and Stop overlap and whatever commands fail, every
\* port is free once, put aside, or handed out to exactly who has it: the
\* pool, the map and the calls of docker.go never lose a port.
THEOREM NoPortIsLost == Spec => []PortsAccounted
<1>1. RunnerInv => PortsAccounted
  BY BookIsPortsAccounted DEF RunnerInv
<1> QED
  BY <1>1, RunnerAlways, PTL

\* No port is handed to two containers or two calls.
THEOREM NoPortIsShared == Spec => []OneOwner
<1>1. RunnerInv => OneOwner
  BY DEF RunnerInv
<1> QED
  BY <1>1, RunnerAlways, PTL

-----------------------------------------------------------------------------
(* The runner implements PortLoans.                                        *)

\* The ports to lend.
Pool == {n \in Port : Contains(free, n)}

LEMMA LoansAreSteps ==
    ASSUME RunnerInv, NEW c \in Caller, Call(c) \/ CallerStep(c)
    PROVE  Loans!Next \/ UNCHANGED <<Pool, bad, port, containers>>
<1> USE DEF RunnerInv
<1>1. NoDup(free) /\ PoolTypeOK
  BY DEF Book, TypeOK
<1>2. UNCHANGED free => UNCHANGED Pool
  BY DEF Pool, Contains
<1>3. CASE Acquire(c)
  <2>1. port[c] = NoPort
    BY <1>3 DEF Control, Acquire, Holding
  <2>2. ASSUME NEW n \in Port, AcquirePort(n), port' = [port EXCEPT ![c] = n]
        PROVE  Loans!Lend(c, n)
    <3>1. n \in Pool /\ Pool' = Pool \ {n} /\ UNCHANGED bad
      BY <1>1, <2>2, AcquireEffect DEF Pool
    <3> QED
      BY <1>3, <2>1, <2>2, <3>1 DEF Loans!Lend, Pool, Acquire
  <2>3. CASE Return(c) /\ UNCHANGED poolVars
    <3>1. UNCHANGED port
      BY <2>1, <2>3 DEF Return, TypeOK
    <3> QED
      BY <1>2, <1>3, <2>3, <3>1 DEF Acquire, poolVars
  <2> QED
    BY <1>3, <2>2, <2>3 DEF Acquire, Loans!Next
<1>4. CASE MarkBad(c) \/ GiveBack(c) \/ Settle(c)
  <2>1. /\ port[c] \in Port /\ Owned(port[c]) /\ port[c] # NoPort
        /\ port' = [port EXCEPT ![c] = NoPort] /\ UNCHANGED containers
        /\ ReleasePort(port[c]) \/ MarkBadPort(port[c])
    BY <1>4, PortAssumption
       DEF MarkBad, GiveBack, Settle, Return, Control, Holding, TypeOK, Owned, InHands
  <2>2. port[c] \in used /\ port[c] \notin bad /\ ~Contains(free, port[c])
    BY <2>1 DEF Book
  <2>3. CASE ReleasePort(port[c])
    <3>1. Pool' = Pool \cup {port[c]} /\ UNCHANGED bad
      BY <1>1, <2>1, <2>2, <2>3, ReleaseEffect DEF Pool
    <3>2. Loans!GiveBack(c)
      BY <2>1, <3>1 DEF Loans!GiveBack, Pool
    <3> QED
      BY <3>2 DEF Loans!Next
  <2>4. CASE MarkBadPort(port[c])
    <3>1. UNCHANGED Pool /\ bad' = bad \cup {port[c]}
      BY <1>1, <1>2, <2>1, <2>2, <2>4, MarkBadEffect
    <3>2. Loans!PutAside(c)
      BY <2>1, <3>1 DEF Loans!PutAside, Pool
    <3> QED
      BY <3>2 DEF Loans!Next
  <2> QED
    BY <2>1, <2>3, <2>4
<1>5. CASE Record(c)
  <2>1. /\ name[c] \in Box /\ containers[name[c]] = NoPort /\ port[c] # NoPort
        /\ containers' = [containers EXCEPT ![name[c]] = port[c]]
        /\ port' = [port EXCEPT ![c] = NoPort]
        /\ UNCHANGED <<free, bad>>
    BY <1>5 DEF Record, Return, Control, Holding, poolVars
  <2>2. Loans!Enter(c, name[c])
    BY <1>2, <2>1 DEF Loans!Enter, Pool
  <2> QED
    BY <2>1, <2>2 DEF Loans!Next
<1>6. CASE Unmap(c)
  <2>1. /\ name[c] \in Box /\ port[c] = NoPort /\ UNCHANGED <<free, bad>>
        /\ containers' = [containers EXCEPT ![name[c]] = NoPort]
    BY <1>6 DEF Unmap, Control, Holding, TypeOK, poolVars
  <2>2. CASE containers[name[c]] = NoPort
    <3>1. Return(c)
      BY <1>6, <2>2 DEF Unmap
    <3>2. port' = port
      BY <2>1, <3>1 DEF Return, TypeOK
    <3>3. containers' = containers
      BY <2>1, <2>2 DEF TypeOK
    <3> QED
      BY <1>2, <2>1, <3>2, <3>3
  <2>3. CASE containers[name[c]] # NoPort
    <3>1. Loans!TakeOut(c, name[c])
      BY <1>2, <1>6, <2>1, <2>3 DEF Loans!TakeOut, Pool, Unmap
    <3> QED
      BY <2>1, <3>1 DEF Loans!Next
  <2> QED
    BY <2>2, <2>3
<1>7. CASE DockerRun(c) \/ RmBox(c) \/ \E b \in Box : Stop(c, b)
  <2>1. UNCHANGED <<free, bad, port, containers>>
    BY <1>7 DEF DockerRun, Goto, RmBox, Stop, poolVars
  <2> QED
    BY <1>2, <2>1
<1> QED
  BY <1>3, <1>4, <1>5, <1>6, <1>7 DEF Call, CallerStep

LEMMA OthersLend ==
    ASSUME RunnerInv, Reconcile \/ Host \/ UNCHANGED vars
    PROVE  Loans!Next \/ UNCHANGED <<Pool, bad, port, containers>>
<1>1. CASE Crash
  <2>1. free' \in Seq(Port) /\ \A n \in Port : Contains(free', n)
    BY <1>1, FreshPool DEF Crash, RenewPool
  <2>2. Pool' = Port
    BY <2>1 DEF Pool
  <2>3. Loans!Restart
    BY <1>1, <2>2 DEF Crash, RenewPool, Loans!Restart, Pool
  <2> QED
    BY <2>3 DEF Loans!Next
<1>2. CASE ~Crash
  <2>1. UNCHANGED <<free, bad, port, containers>>
    BY <1>2 DEF Reconcile, ListLeftovers, RemoveLeftovers, Host, Exit, Forget, Bind,
                Unbind, vars, poolVars, callerVars
  <2>2. UNCHANGED Pool
    BY <2>1 DEF Pool, Contains
  <2> QED
    BY <2>1, <2>2
<1> QED
  BY <1>1, <1>2

LEMMA InitLends == Init => Loans!Init
<1> SUFFICES ASSUME Init PROVE Loans!Init
  OBVIOUS
<1>1. \A n \in Port : Contains(free, n)
  BY FreshPool DEF Init, NewPool
<1> QED
  BY <1>1 DEF Init, NewPool, Loans!Init

(***************************************************************************)
(* The pool, the calls of Run and Stop and the map of docker.go implement  *)
(* PortLoans, for any number of ports, containers and goroutines, whatever *)
(* commands fail and wherever the process dies: a port is lent, entered,   *)
(* taken out and given back one step at a time, it is never in two places, *)
(* and one that MarkBad put aside is lent to nobody before a restart.      *)
(***************************************************************************)
THEOREM PortsAreLent == Spec => KeepsLoans
<1>1. RunnerInv /\ [Next]_vars => [Loans!Next]_<<Pool, bad, port, containers>>
  BY LoansAreSteps, OthersLend DEF Next
<1>2. Spec => [][Loans!Next]_<<Pool, bad, port, containers>>
  BY <1>1, RunnerAlways, PTL DEF Spec
<1>3. Spec => Loans!Init
  BY InitLends DEF Spec
<1>4. <<Pool, bad, port, containers>> = Loans!loans
  BY DEF Pool, Loans!loans
<1>5. [][Loans!Next]_<<Pool, bad, port, containers>> => [][Loans!Next]_(Loans!loans)
  BY <1>4 DEF Pool, Loans!loans
<1> QED
  BY <1>2, <1>3, <1>5, PTL DEF KeepsLoans, Loans!Spec

-----------------------------------------------------------------------------
(* A call goes forward only.                                               *)

\* How much a call may have left to do.
LEMMA LeftIsCounted ==
    ASSUME TypeOK, NEW c \in Caller
    PROVE  StepsLeft(c) \in Nat /\ (pc[c] # "idle" => StepsLeft(c) > 0)
<1>1. /\ tries[c] \in Nat /\ RetryLimit \in Nat /\ RetryLimit - tries[c] > 0
      /\ pc[c] \in Label
  BY RunnerAssumption DEF TypeOK
<1> QED
  BY <1>1 DEF StepsLeft, Label

LEMMA ForwardOnly ==
    ASSUME TypeOK, TypeOK', NEW c \in Caller, Call(c) \/ CallerStep(c), pc[c] # "idle"
    PROVE  StepsLeft(c)' < StepsLeft(c)
<1>1. /\ tries[c] \in Nat /\ RetryLimit \in Nat /\ RetryLimit - tries[c] > 0
      /\ tries'[c] \in Nat /\ RetryLimit - tries'[c] > 0
  BY RunnerAssumption DEF TypeOK
<1>2. CASE pc'[c] = "idle"
  <2>1. StepsLeft(c) > 0 /\ StepsLeft(c)' = 0
    BY <1>2, LeftIsCounted DEF StepsLeft
  <2> QED
    BY <2>1
<1>3. CASE Acquire(c) /\ pc'[c] = "docker"
  <2>1. pc[c] = "retry" /\ tries' = tries
    BY <1>3 DEF Acquire, Return, TypeOK
  <2> QED
    BY <1>1, <1>3, <2>1 DEF StepsLeft
<1>4. CASE DockerRun(c)
  <2>1. pc[c] = "docker" /\ pc'[c] \in {"record", "markBad", "giveBack"} /\ tries' = tries
    BY <1>4 DEF DockerRun, Goto, TypeOK
  <2> QED
    BY <1>1, <2>1 DEF StepsLeft
<1>5. CASE MarkBad(c) /\ pc'[c] = "retry"
  <2>1. pc[c] = "markBad" /\ tries'[c] = tries[c] + 1
    BY <1>5 DEF MarkBad, Return, TypeOK
  <2> QED
    BY <1>1, <1>5, <2>1 DEF StepsLeft
<1>6. CASE RmBox(c)
  <2>1. pc[c] = "rm" /\ pc'[c] = "unmap"
    BY <1>6 DEF RmBox, TypeOK
  <2> QED
    BY <2>1 DEF StepsLeft
<1>7. CASE Unmap(c) /\ pc'[c] = "settle"
  <2>1. pc[c] = "unmap"
    BY <1>7 DEF Unmap
  <2> QED
    BY <1>7, <2>1 DEF StepsLeft
<1>8. \/ pc'[c] = "idle"
      \/ Acquire(c) /\ pc'[c] = "docker"
      \/ DockerRun(c) \/ RmBox(c)
      \/ MarkBad(c) /\ pc'[c] = "retry"
      \/ Unmap(c) /\ pc'[c] = "settle"
  BY DEF Call, CallerStep, Acquire, MarkBad, GiveBack, Record, Unmap, Settle, Stop,
         Return, TypeOK
<1> QED
  BY <1>2, <1>3, <1>4, <1>5, <1>6, <1>7, <1>8

\* Nobody else moves a call, but a restart ends it.
LEMMA OthersLeaveIt ==
    ASSUME TypeOK, NEW c \in Caller, Next, pc'[c] # pc[c]
    PROVE  Call(c) \/ CallerStep(c) \/ pc'[c] = "idle"
<1>1. ASSUME NEW d \in Caller, Call(d) \/ CallerStep(d), d # c PROVE FALSE
  BY <1>1 DEF Call, CallerStep, Acquire, DockerRun, MarkBad, GiveBack, Record, RmBox,
              Unmap, Settle, Stop, Return, Goto, TypeOK
<1>2. CASE Reconcile \/ Host
  BY <1>2 DEF Reconcile, ListLeftovers, RemoveLeftovers, Host, Exit, Forget, Bind,
              Unbind, Crash, callerVars
<1> QED
  BY <1>1, <1>2 DEF Next

(***************************************************************************)
(* Whatever is done between its steps, a Run ends within 3 *               *)
(* dockerRunPortRetryLimit steps and a Stop within three: each step of a   *)
(* call, a retry on another port included, leaves it less to do.           *)
(***************************************************************************)
THEOREM NoCallGoesRound == Spec => CallsAreShort
<1>1. ASSUME RunnerInv, RunnerInv', [Next]_vars, NEW c \in Caller, pc[c] # "idle",
             pc'[c] # pc[c]
      PROVE  StepsLeft(c)' \in 0 .. StepsLeft(c) - 1
  <2>1. TypeOK /\ TypeOK'
    BY <1>1 DEF RunnerInv
  <2>2. StepsLeft(c) \in Nat /\ StepsLeft(c) > 0
    BY <1>1, <2>1, LeftIsCounted
  <2>3. StepsLeft(c)' \in Nat
    <3>1. /\ tries'[c] \in Nat /\ RetryLimit \in Nat /\ RetryLimit - tries'[c] > 0
          /\ pc'[c] \in Label
      BY <2>1, RunnerAssumption DEF TypeOK
    <3> QED
      BY <3>1 DEF StepsLeft, Label
  <2>4. CASE pc'[c] = "idle"
    <3>1. StepsLeft(c)' = 0
      BY <2>4 DEF StepsLeft
    <3> QED
      BY <2>2, <3>1
  <2>5. CASE Call(c) \/ CallerStep(c)
    <3>1. StepsLeft(c)' < StepsLeft(c)
      BY <1>1, <2>1, <2>5, ForwardOnly
    <3> QED
      BY <2>2, <2>3, <3>1
  <2>6. Next
    BY <1>1 DEF vars, callerVars
  <2> QED
    BY <1>1, <2>1, <2>4, <2>5, <2>6, OthersLeaveIt
<1>2. RunnerInv /\ RunnerInv' /\ [Next]_vars
      => [\A c \in Caller : pc[c] # "idle" /\ pc'[c] # pc[c]
             => StepsLeft(c)' \in 0 .. StepsLeft(c) - 1]_vars
  BY <1>1
<1> QED
  BY <1>2, RunnerAlways, PTL DEF Spec, CallsAreShort

-----------------------------------------------------------------------------
(* What a free port promises.  docker run that fails after the container   *)
(* is up, and a crash, leave a container on a port of the pool; without    *)
(* these two the runner keeps track of every port a container runs on.     *)

RunsAreClean == "orphan" \notin FaultKinds /\ "crash" \notin FaultKinds

\* Caller c answers for container b, which may run.
Answers(c, b) ==
    /\ name[c] = b /\ port[c] = published[b]
    /\ pc[c] = "record" \/ (pc[c] = "settle" /\ failed[c])

(***************************************************************************)
(* The port of a container that runs is put aside, mapped, or in the hands *)
(* of a caller that will map it or put it aside; and a docker rm that      *)
(* answered "done" leaves no container.                                    *)
(***************************************************************************)
Tracked ==
    /\ \A b \in Box : box[b] = "up" =>
          /\ published[b] \in Port
          /\ \/ published[b] \in bad
             \/ containers[b] = published[b]
             \/ \E c \in Caller : Answers(c, b)
    /\ \A c \in Caller : pc[c] \in {"unmap", "settle"} /\ ~failed[c] => box[name[c]] = "gone"

LEMMA TrackedIsEnough == RunnerInv /\ Tracked => FreeIsUnbound
<1> SUFFICES ASSUME RunnerInv, Tracked, NEW b \in Box, box[b] = "up"
             PROVE  ~Contains(free, published[b])
  BY DEF FreeIsUnbound
<1>1. published[b] \in Port
  BY DEF Tracked
<1>2. published[b] \in bad \/ Owned(published[b])
  BY <1>1 DEF Tracked, Answers, Owned, InHands, Mapped
<1> QED
  BY <1>1, <1>2 DEF RunnerInv, Book

\* The pool may give ports out and put them aside; what is aside stays.
LEMMA BadStays ==
    ASSUME NEW n, ReleasePort(n) \/ MarkBadPort(n) \/ AcquirePort(n) \/ UNCHANGED poolVars
    PROVE  bad \subseteq bad'
BY DEF ReleasePort, MarkBadPort, AcquirePort, poolVars

\* A caller that gives its port back answers for no container.
LEMMA TrackedReturn ==
    ASSUME RunnerInv, Tracked, NEW c \in Caller, Return(c), bad \subseteq bad',
           UNCHANGED <<containers, daemonVars>>,
           \A b \in Box : Answers(c, b) => published[b] \in bad'
    PROVE  Tracked'
<1>1. \A d \in Caller : /\ pc'[d] = IF d = c THEN "idle" ELSE pc[d]
                        /\ d # c => /\ name'[d] = name[d]
                                    /\ port'[d] = port[d] /\ failed'[d] = failed[d]
  BY DEF Return, RunnerInv, TypeOK
<1>2. ASSUME NEW b \in Box, box'[b] = "up"
      PROVE  /\ published'[b] \in Port
             /\ \/ published'[b] \in bad'
                \/ containers'[b] = published'[b]
                \/ \E d \in Caller : Answers(d, b)'
  <2>1. box[b] = "up" /\ published[b] \in Port /\ UNCHANGED <<published, containers>>
    BY <1>2 DEF daemonVars, Tracked
  <2>2. ASSUME NEW d \in Caller, Answers(d, b), d # c PROVE Answers(d, b)'
    BY <1>1, <2>1, <2>2 DEF Answers
  <2> QED
    BY <2>1, <2>2 DEF Tracked
<1>3. \A d \in Caller : pc'[d] \in {"unmap", "settle"} /\ ~failed'[d] => box'[name'[d]] = "gone"
  BY <1>1 DEF Tracked, daemonVars
<1> QED
  BY <1>2, <1>3 DEF Tracked

LEMMA TrackedCaller ==
    ASSUME RunsAreClean, RunnerInv, Tracked, NEW c \in Caller,
           Call(c) \/ CallerStep(c)
    PROVE  Tracked'
<1>1. CASE Acquire(c)
  <2>1. pc[c] \in {"idle", "retry"} /\ \A b \in Box : ~Answers(c, b)
    BY <1>1 DEF Acquire, Answers
  <2>2. CASE Return(c)
    BY <1>1, <2>1, <2>2, TrackedReturn, BadStays DEF Acquire
  <2>3. CASE /\ pc' = [pc EXCEPT ![c] = "docker"]
             /\ \E n \in Port : port' = [port EXCEPT ![c] = n]
             /\ UNCHANGED <<name, failed>>
    <3>1. /\ UNCHANGED <<containers, daemonVars, name, failed>> /\ bad \subseteq bad'
          /\ \A d \in Caller : /\ pc'[d] = IF d = c THEN "docker" ELSE pc[d]
                               /\ d # c => port'[d] = port[d]
      BY <1>1, <2>3, BadStays DEF Acquire, RunnerInv, TypeOK
    <3>2. \A b \in Box, d \in Caller : Answers(d, b) => Answers(d, b)'
      BY <2>1, <3>1 DEF Answers, daemonVars
    <3> QED
      BY <3>1, <3>2 DEF Tracked, daemonVars
  <2> QED
    BY <1>1, <2>2, <2>3 DEF Acquire
<1>2. CASE DockerRun(c)
  <2>1. /\ UNCHANGED <<poolVars, containers, known, failed, port>> /\ pc[c] = "docker"
        /\ \A d \in Caller : d # c => pc'[d] = pc[d] /\ name'[d] = name[d]
        /\ pc'[c] \in {"markBad", "giveBack", "record"}
    BY <1>2 DEF DockerRun, Goto, RunnerInv, TypeOK
  <2>2. CASE UNCHANGED daemonVars
    <3>1. \A b \in Box, d \in Caller : Answers(d, b) => Answers(d, b)'
      BY <2>1, <2>2 DEF Answers, daemonVars
    <3> QED
      BY <2>1, <2>2, <3>1 DEF Tracked, daemonVars, poolVars
  <2>3. ASSUME NEW b \in Box, Publish(b, port[c]), name' = [name EXCEPT ![c] = b],
               pc' = [pc EXCEPT ![c] = "record"]
        PROVE  Tracked'
    <3>1. /\ box[b] = "none" /\ port[c] \in Port /\ name'[c] = b /\ pc'[c] = "record"
          /\ \A e \in Box : /\ box'[e] = IF e = b THEN "up" ELSE box[e]
                            /\ published'[e] = IF e = b THEN port[c] ELSE published[e]
      BY <2>1, <2>3, PortAssumption DEF Publish, RunnerInv, TypeOK, Control, Holding
    <3>2. Answers(c, b)'
      <4>1. port' = port /\ published'[b] = port[c]
        BY <2>1, <3>1
      <4> QED
        BY <3>1, <4>1, Zenon DEF Answers
    <3>3. \A e \in Box, d \in Caller : e # b /\ Answers(d, e) => Answers(d, e)'
      BY <2>1, <3>1 DEF Answers
    <3>4. ASSUME NEW e \in Box, box'[e] = "up"
          PROVE  /\ published'[e] \in Port
                 /\ \/ published'[e] \in bad'
                    \/ containers'[e] = published'[e]
                    \/ \E d \in Caller : Answers(d, e)'
      BY <2>1, <3>1, <3>2, <3>3, <3>4 DEF Tracked, poolVars
    <3>5. \A d \in Caller : pc'[d] \in {"unmap", "settle"} /\ ~failed'[d]
                               => box'[name'[d]] = "gone"
      BY <2>1, <3>1 DEF Tracked, RunnerInv, TypeOK, Control
    <3> QED
      BY <3>4, <3>5 DEF Tracked
  <2> QED
    BY <1>2, <2>2, <2>3 DEF DockerRun, RunsAreClean, Fault
<1>3. CASE MarkBad(c)
  <2>1. \A b \in Box : ~Answers(c, b)
    BY <1>3 DEF MarkBad, Answers
  <2>2. CASE Return(c)
    BY <1>3, <2>1, <2>2, TrackedReturn, BadStays DEF MarkBad
  <2>3. CASE /\ pc' = [pc EXCEPT ![c] = "retry"]
             /\ port' = [port EXCEPT ![c] = NoPort]
             /\ UNCHANGED <<name, failed>>
    <3>1. /\ UNCHANGED <<containers, daemonVars, name, failed>> /\ bad \subseteq bad'
          /\ \A d \in Caller : /\ pc'[d] = IF d = c THEN "retry" ELSE pc[d]
                               /\ d # c => port'[d] = port[d]
      BY <1>3, <2>3, BadStays DEF MarkBad, RunnerInv, TypeOK
    <3>2. \A b \in Box, d \in Caller : Answers(d, b) => Answers(d, b)'
      BY <2>1, <3>1 DEF Answers, daemonVars
    <3> QED
      BY <3>1, <3>2 DEF Tracked, daemonVars
  <2> QED
    BY <1>3, <2>2, <2>3 DEF MarkBad
<1>4. CASE GiveBack(c)
  <2>1. \A b \in Box : ~Answers(c, b)
    BY <1>4 DEF GiveBack, Answers
  <2> QED
    BY <1>4, <2>1, TrackedReturn, BadStays DEF GiveBack
<1>5. CASE Settle(c)
  <2>1. \A b \in Box : Answers(c, b) => published[b] \in bad'
    BY <1>5 DEF Settle, Answers, MarkBadPort, poolVars
  <2> QED
    BY <1>5, <2>1, TrackedReturn, BadStays DEF Settle
<1>6. CASE Record(c)
  <2>1. /\ \A d \in Caller : /\ pc'[d] = IF d = c THEN "idle" ELSE pc[d]
                             /\ d # c => /\ name'[d] = name[d]
                                         /\ port'[d] = port[d] /\ failed'[d] = failed[d]
        /\ \A b \in Box : containers'[b] = IF b = name[c] THEN port[c] ELSE containers[b]
        /\ UNCHANGED <<poolVars, daemonVars>> /\ pc[c] = "record"
        /\ containers[name[c]] = NoPort
    BY <1>6 DEF Record, Return, RunnerInv, TypeOK, Control
  <2>2. \A b \in Box, d \in Caller : d # c /\ Answers(d, b) => Answers(d, b)'
    BY <2>1 DEF Answers, daemonVars
  <2>3. \A b \in Box : Answers(c, b) => containers'[b] = published'[b]
    BY <2>1 DEF Answers, daemonVars
  <2>4. \A b \in Box : published[b] \in Port /\ containers[b] = published[b]
                          => containers'[b] = published'[b]
    BY <2>1, PortAssumption DEF daemonVars
  <2> QED
    BY <2>1, <2>2, <2>3, <2>4 DEF Tracked, poolVars, daemonVars
<1>7. ASSUME NEW b \in Box, Stop(c, b) PROVE Tracked'
  <2>1. /\ UNCHANGED <<poolVars, containers, daemonVars, port, failed>> /\ pc[c] = "idle"
        /\ \A d \in Caller : /\ pc'[d] = IF d = c THEN "rm" ELSE pc[d]
                             /\ d # c => name'[d] = name[d]
    BY <1>7 DEF Stop, RunnerInv, TypeOK
  <2>2. \A e \in Box, d \in Caller : Answers(d, e) => Answers(d, e)'
    BY <2>1 DEF Answers, daemonVars
  <2> QED
    BY <2>1, <2>2 DEF Tracked, poolVars, daemonVars
<1>8. CASE RmBox(c)
  <2>1. /\ UNCHANGED <<poolVars, containers, published, port, name>> /\ pc[c] = "rm"
        /\ name[c] \in Box
        /\ \A d \in Caller : /\ pc'[d] = IF d = c THEN "unmap" ELSE pc[d]
                             /\ d # c => failed'[d] = failed[d]
        /\ \A b \in Box : box'[b] = IF b = name[c] THEN box'[name[c]] ELSE box[b]
        /\ box'[name[c]] \in {"gone", box[name[c]]}
    BY <1>8 DEF RmBox, RunnerInv, TypeOK, Control
  <2>2. ~failed'[c] => box'[name[c]] = "gone"
    BY <1>8, <2>1 DEF RmBox, RunnerInv, TypeOK
  <2>3. \A b \in Box, d \in Caller : Answers(d, b) => Answers(d, b)'
    BY <2>1 DEF Answers
  <2>4. \A b \in Box : box'[b] = "up" => box[b] = "up"
    BY <2>1
  <2>5. \A d \in Caller : pc'[d] \in {"unmap", "settle"} /\ ~failed'[d]
                             => box'[name'[d]] = "gone"
    BY <2>1, <2>2 DEF Tracked, RunnerInv, TypeOK, Control
  <2> QED
    BY <2>1, <2>3, <2>4, <2>5 DEF Tracked, poolVars
<1>9. CASE Unmap(c)
  <2>1. /\ \A b \in Box : containers'[b] = IF b = name[c] THEN NoPort ELSE containers[b]
        /\ UNCHANGED <<poolVars, daemonVars>> /\ pc[c] = "unmap" /\ name[c] \in Box
    BY <1>9 DEF Unmap, RunnerInv, TypeOK, Control
  <2>2. CASE containers[name[c]] = NoPort
    <3>1. UNCHANGED <<containers>> /\ Return(c) /\ \A b \in Box : ~Answers(c, b)
      BY <1>9, <2>1, <2>2 DEF Unmap, Answers, RunnerInv, TypeOK
    <3> QED
      BY <2>1, <3>1, TrackedReturn DEF poolVars
  <2>3. CASE containers[name[c]] # NoPort
    <3>1. /\ UNCHANGED <<name, failed>>
          /\ \A d \in Caller : /\ pc'[d] = IF d = c THEN "settle" ELSE pc[d]
                               /\ port'[d] = IF d = c THEN containers[name[c]] ELSE port[d]
      BY <1>9, <2>1, <2>3 DEF Unmap, RunnerInv, TypeOK
    <3>2. \A b \in Box, d \in Caller : Answers(d, b) => Answers(d, b)'
      BY <2>1, <3>1 DEF Answers, daemonVars
    <3>3. ASSUME NEW b \in Box, b = name[c], box[b] = "up", containers[b] = published[b]
          PROVE  Answers(c, b)'
      BY <2>1, <3>1, <3>3 DEF Answers, daemonVars, Tracked
    <3>4. ASSUME NEW b \in Box, box'[b] = "up"
          PROVE  /\ published'[b] \in Port
                 /\ \/ published'[b] \in bad'
                    \/ containers'[b] = published'[b]
                    \/ \E d \in Caller : Answers(d, b)'
      <4>1. /\ UNCHANGED <<bad, box, published>> /\ box[b] = "up"
            /\ published[b] \in Port
        BY <2>1, <3>4 DEF Tracked, poolVars, daemonVars
      <4>2. CASE b = name[c] /\ containers[b] = published[b]
        BY <3>3, <4>1, <4>2
      <4>3. CASE b # name[c] \/ containers[b] # published[b]
        <5>1. containers[b] = published[b] => containers'[b] = containers[b]
          BY <2>1, <4>3
        <5> QED
          BY <3>2, <4>1, <5>1 DEF Tracked
      <4> QED
        BY <4>2, <4>3
    <3> QED
      BY <2>1, <3>1, <3>4 DEF Tracked, daemonVars
  <2> QED
    BY <2>2, <2>3
<1> QED
  BY <1>1, <1>2, <1>3, <1>4, <1>5, <1>6, <1>7, <1>8, <1>9 DEF Call, CallerStep

LEMMA TrackedHost ==
    ASSUME RunsAreClean, RunnerInv, Tracked, Reconcile \/ Host \/ UNCHANGED vars
    PROVE  Tracked'
<1>1. UNCHANGED <<poolVars, containers, callerVars>>
  BY DEF Reconcile, ListLeftovers, RemoveLeftovers, Host, Exit, Forget, Bind, Unbind,
         Crash, Fault, RunsAreClean, vars
<1>2. /\ \A b \in Box : box'[b] = "up" => box[b] = "up" /\ published'[b] = published[b]
      /\ \A b \in Box : (\E c \in Caller : name[c] = b) /\ box[b] = "gone" => box'[b] = "gone"
  BY DEF Reconcile, ListLeftovers, RemoveLeftovers, Host, Exit, Forget, Bind, Unbind,
         Crash, Fault, RunsAreClean, vars, daemonVars, RunnerInv, TypeOK
<1>3. \A b \in Box, d \in Caller : box'[b] = "up" /\ Answers(d, b) => Answers(d, b)'
  BY <1>1, <1>2 DEF Answers, callerVars
<1>4. \A d \in Caller : pc'[d] \in {"unmap", "settle"} /\ ~failed'[d]
                           => box'[name'[d]] = "gone"
  BY <1>1, <1>2 DEF Tracked, callerVars, RunnerInv, TypeOK, Control
<1> QED
  BY <1>1, <1>2, <1>3, <1>4 DEF Tracked, poolVars

\* As long as no docker run fails behind its back and the process does not
\* restart, Stop gives back no port a container still runs on (docker.go).
THEOREM FreePortsAreUnbound ==
    ASSUME RunsAreClean
    PROVE  Spec => []FreeIsUnbound
<1>1. Init => Tracked
  BY DEF Init, Tracked
<1>2. RunnerInv /\ Tracked /\ [Next]_vars => Tracked'
  BY TrackedCaller, TrackedHost DEF Next
<1> QED
  BY <1>1, <1>2, RunnerAlways, TrackedIsEnough, PTL DEF Spec
=============================================================================
