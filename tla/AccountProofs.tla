---------------------------- MODULE AccountProofs ----------------------------
(***************************************************************************)
(* One phone or QQ identity is one user, and an account registered alone   *)
(* stays its user's, for any clients, identities and requests cut off.     *)
(***************************************************************************)
EXTENDS LoginAccounts, FiniteSetTheorems, WellFoundedInduction, TLAPS

\* A login with a token to issue is of the user its identity is bound to.
BoundTo(i, kind, u) == [user |-> u, kind |-> kind, of |-> i] \in credentials

\* A request is for an identity of its kind, and knows its user.
Sound(r) ==
    /\ r.op = "phone" <=> r.of \in Phone
    /\ r.op = "qq" <=> r.of \in OpenId
    /\ r.at = "byPhone" => r.op = "phone"
    /\ r.at \in {"draw", "create"} => r.op # "password"
    /\ r.at \notin {"byPhone", "draw"} => r.user \in UserId
    /\ r.at = "token" /\ r.op \in {"phone", "qq"} => BoundTo(r.of, r.op, r.user)

Serves == \A c \in Client : ~Idle(c) => Sound(serving[c])

\* The unique index by type and identifier.
OneCredential ==
    \A a, b \in credentials : a.kind = b.kind /\ a.of = b.of => a.user = b.user

Reaches ==
    /\ \A p \in Phone : \A u \in reached[p] : BoundTo(p, "phone", u)
    /\ \A q \in OpenId : \A u \in reached[q] : BoundTo(q, "qq", u)

AccountsInv == AccountsTypeOK /\ Serves /\ OneCredential /\ Reaches

LEMMA AccountsInitInv == AccountsInit => AccountsInv
<1> SUFFICES ASSUME AccountsInit PROVE AccountsInv
  OBVIOUS
<1> USE AccountsAssumption
<1>1. AccountsTypeOK
  <2>1. users \subseteq Row /\ lastId \in 0 .. MaxUsers
    <3>1. CASE users = {} /\ lastId = 0
      BY <3>1
    <3>2. ASSUME NEW a \in Account, lastId = 1,
                 users = {[id |-> 1, names |-> {a}, phone |-> NoOne, legacy |-> TRUE, by |-> "before"]}
          PROVE  users \subseteq Row /\ lastId \in 0 .. MaxUsers
      BY <3>2 DEF Row, UserId
    <3> QED
      BY <3>1, <3>2 DEF AccountsInit
  <2>2. /\ serving \in [Client -> Request \cup {NoRequest}]
        /\ reached \in [Identity -> SUBSET UserId]
    BY DEF AccountsInit
  <2> QED
    BY <2>1, <2>2 DEF AccountsInit, AccountsTypeOK
<1>2. Serves /\ OneCredential
  BY DEF AccountsInit, Serves, OneCredential, Idle
<1>3. Reaches
  BY DEF AccountsInit, Reaches, Identity
<1> QED
  BY <1>1, <1>2, <1>3 DEF AccountsInv

LEMMA LeastId ==
    ASSUME NEW S \in SUBSET Nat, S # {}
    PROVE  Min(S) \in S
<1> DEFINE R == {ss \in Nat \X Nat : ss[1] < ss[2]}
<1>1. IsWellFoundedOn(R, Nat)
  BY NatLessThanWellFounded DEF OpToRel
<1>2. PICK x \in S : \A y \in S : ~ (<<y, x>> \in R)
  BY <1>1, WFMin
<1>3. ASSUME NEW y \in S PROVE x <= y
  <2>1. <<y, x>> \in Nat \X Nat /\ x \in Nat /\ y \in Nat
    OBVIOUS
  <2>2. ~(y < x)
    BY <1>2, <2>1
  <2> QED
    BY <2>1, <2>2
<1> QED
  BY <1>3 DEF Min

\* What the queries for a user return.
LEMMA FirstRow ==
    ASSUME AccountsTypeOK, NEW rows \in SUBSET users
    PROVE  /\ rows = {} => First(rows) = NoOne
           /\ rows # {} => First(rows) \in UserId /\ First(rows) # NoOne
<1> USE AccountsAssumption
<1> DEFINE S == {u.id : u \in rows}
<1>1. S \subseteq UserId /\ UserId \subseteq Nat
  BY DEF AccountsTypeOK, Row, UserId
<1>2. rows # {} => S # {}
  OBVIOUS
<1> HIDE DEF S
<1>3. rows # {} => Min(S) \in UserId /\ Min(S) # NoOne
  BY <1>1, <1>2, LeastId
<1> QED
  BY <1>3 DEF First, S

\* A client serves a request or none.
LEMMA RequestOrNot ==
    ASSUME AccountsTypeOK, NEW c \in Client
    PROVE  /\ ~Idle(c) <=> serving[c] \in Request
           /\ ~Idle(c) => serving[c].at \in {"byPhone", "draw", "create", "bind", "token"}
           /\ \A step \in {"byPhone", "draw", "create", "bind", "token"} : AtStep(c, step) => ~Idle(c)
<1>1. NoRequest.at = "idle"
  BY DEF NoRequest
<1>2. \A r \in Request : r.at \in {"byPhone", "draw", "create", "bind", "token"}
  BY DEF Request
<1>3. serving[c] \in Request \/ serving[c] = NoRequest
  BY DEF AccountsTypeOK
<1> QED
  BY <1>1, <1>2, <1>3 DEF Idle, AtStep

\* A step of one client: the others' requests stay sound when no credential
\* of a phone or of QQ goes.
LEMMA ClientStep ==
    ASSUME AccountsInv, NEW c \in Client, NEW r \in Request \cup {NoRequest},
           serving' = [serving EXCEPT ![c] = r],
           r # NoRequest => Sound(r)',
           \A cr \in credentials : cr.kind \in {"phone", "qq"} => cr \in credentials'
    PROVE  /\ serving' \in [Client -> Request \cup {NoRequest}]
           /\ Serves'
           /\ \A i, u : \A kind \in {"phone", "qq"} :
                BoundTo(i, kind, u) => BoundTo(i, kind, u)'
<1>1. \A i, u : \A kind \in {"phone", "qq"} : BoundTo(i, kind, u) => BoundTo(i, kind, u)'
  BY DEF BoundTo
<1>2. serving' \in [Client -> Request \cup {NoRequest}]
  BY DEF AccountsInv, AccountsTypeOK
<1>3. ASSUME NEW d \in Client, ~Idle(d)' PROVE Sound(serving[d])'
  <2>1. CASE d = c
    BY <1>3, <2>1 DEF Idle, AccountsInv, AccountsTypeOK
  <2>2. CASE d # c
    <3>1. serving'[d] = serving[d]
      BY <2>2 DEF AccountsInv, AccountsTypeOK
    <3>2. Sound(serving[d])
      BY <1>3, <3>1 DEF Idle, AccountsInv, Serves
    <3> QED
      BY <1>1, <3>1, <3>2 DEF Sound
  <2> QED
    BY <2>1, <2>2
<1> QED
  BY <1>1, <1>2, <1>3 DEF Serves

\* A step that leaves the credentials and the histories alone.
LEMMA RequestStep ==
    ASSUME AccountsInv, NEW c \in Client, NEW r \in Request \cup {NoRequest},
           serving' = [serving EXCEPT ![c] = r],
           r # NoRequest => Sound(r),
           UNCHANGED <<credentials, reached, registered>>,
           users' \subseteq Row, lastId' \in 0 .. MaxUsers,
           overlapped' \subseteq Phone \cup Account, misses' \in 0 .. MaxMisses
    PROVE  AccountsInv'
<1>1. r # NoRequest => Sound(r)'
  BY DEF Sound, BoundTo
<1>2. /\ serving' \in [Client -> Request \cup {NoRequest}]
      /\ Serves'
  BY <1>1, ClientStep
<1>3. AccountsTypeOK'
  BY <1>2 DEF AccountsInv, AccountsTypeOK
<1>4. OneCredential' /\ Reaches'
  BY DEF AccountsInv, OneCredential, Reaches, BoundTo
<1> QED
  BY <1>2, <1>3, <1>4 DEF AccountsInv

\* What the steps that only change the request have in common.
LEMMA EntersStep ==
    ASSUME AccountsInv, NEW c \in Client, NEW op \in {"phone", "qq", "register", "password"},
           NEW i \in Identity, NEW step \in {"byPhone", "draw", "create", "bind", "token"},
           NEW u \in UserId \cup {NoOne}, Enters(c, op, i, step, u),
           op = "phone" <=> i \in Phone, op = "qq" <=> i \in OpenId,
           step = "byPhone" => op = "phone", step \in {"draw", "create"} => op # "password",
           step \notin {"byPhone", "draw"} => u \in UserId,
           step = "token" /\ op \in {"phone", "qq"} => BoundTo(i, op, u),
           UNCHANGED <<users, credentials, reached, registered>>,
           lastId' \in 0 .. MaxUsers, overlapped' \subseteq Phone \cup Account, misses' = misses
    PROVE  AccountsInv'
<1> DEFINE r == [op |-> op, of |-> i, at |-> step, user |-> u]
<1>1. r \in Request
  BY DEF Request
<1>2. serving' = [serving EXCEPT ![c] = r]
  BY DEF Enters
<1>3. Sound(r)
  BY DEF Sound
<1>4. users' \subseteq Row /\ misses' \in 0 .. MaxMisses
  BY DEF AccountsInv, AccountsTypeOK
<1> HIDE DEF r
<1> QED
  BY <1>1, <1>2, <1>3, <1>4, RequestStep

LEMMA DrawsId ==
    ASSUME AccountsTypeOK, Draws
    PROVE  lastId + 1 \in UserId /\ lastId' \in 0 .. MaxUsers
BY AccountsAssumption DEF AccountsTypeOK, Draws, UserId

LEMMA PhoneLoginInv ==
    ASSUME AccountsInv, NEW c \in Client, NEW p \in Phone, PhoneLogin(c, p)
    PROVE  AccountsInv'
<1> USE AccountsAssumption DEF AccountsInv
<1>1. /\ UNCHANGED <<users, credentials, lastId, reached, registered, misses>>
      /\ p \in Identity /\ p \notin OpenId
  BY DEF PhoneLogin, tables, histories, Identity
<1>2. lastId' \in 0 .. MaxUsers /\ overlapped' \subseteq Phone \cup Account
  BY <1>1 DEF PhoneLogin, AccountsTypeOK
<1>3. ASSUME NEW cr \in Bound("phone", p), Enters(c, "phone", p, "token", cr.user)
      PROVE  AccountsInv'
  <2>1. cr \in credentials /\ cr.kind = "phone" /\ cr.of = p /\ cr \in Credential
    BY DEF Bound, AccountsTypeOK
  <2>2. cr.user \in UserId /\ cr = [user |-> cr.user, kind |-> "phone", of |-> p]
    BY <2>1 DEF Credential
  <2>3. BoundTo(p, "phone", cr.user)
    BY <2>1, <2>2 DEF BoundTo
  <2> QED
    BY <1>1, <1>2, <1>3, <2>2, <2>3, EntersStep
<1>4. CASE Enters(c, "phone", p, "byPhone", NoOne)
  BY <1>1, <1>2, <1>4, EntersStep
<1> QED
  BY <1>3, <1>4 DEF PhoneLogin

LEMMA QQLoginInv ==
    ASSUME AccountsInv, NEW c \in Client, NEW q \in OpenId, QQLogin(c, q)
    PROVE  AccountsInv'
<1> USE AccountsAssumption DEF AccountsInv
<1>1. /\ UNCHANGED <<users, credentials, lastId, reached, registered, overlapped, misses>>
      /\ q \in Identity /\ q \notin Phone
  BY DEF QQLogin, tables, histories, Identity
<1>2. overlapped' \subseteq Phone \cup Account /\ lastId' \in 0 .. MaxUsers
  BY <1>1 DEF AccountsTypeOK
<1>3. ASSUME NEW cr \in Bound("qq", q), Enters(c, "qq", q, "token", cr.user)
      PROVE  AccountsInv'
  <2>1. cr \in credentials /\ cr.kind = "qq" /\ cr.of = q /\ cr \in Credential
    BY DEF Bound, AccountsTypeOK
  <2>2. cr.user \in UserId /\ cr = [user |-> cr.user, kind |-> "qq", of |-> q]
    BY <2>1 DEF Credential
  <2>3. BoundTo(q, "qq", cr.user)
    BY <2>1, <2>2 DEF BoundTo
  <2> QED
    BY <1>1, <1>2, <1>3, <2>2, <2>3, EntersStep
<1>4. CASE Enters(c, "qq", q, "draw", NoOne)
  BY <1>1, <1>2, <1>4, EntersStep
<1> QED
  BY <1>3, <1>4 DEF QQLogin

LEMMA RegisterInv ==
    ASSUME AccountsInv, NEW c \in Client, NEW a \in Account, Register(c, a)
    PROVE  AccountsInv'
<1> USE AccountsAssumption DEF AccountsInv
<1>1. /\ UNCHANGED <<users, credentials, lastId, reached, registered, overlapped, misses>>
      /\ a \in Identity /\ a \notin Phone /\ a \notin OpenId
  BY DEF Register, tables, histories, Identity
<1>2. overlapped' \subseteq Phone \cup Account /\ lastId' \in 0 .. MaxUsers
  BY <1>1 DEF AccountsTypeOK
<1>3. Enters(c, "register", a, "draw", NoOne)
  BY DEF Register
<1> QED
  BY <1>1, <1>2, <1>3, EntersStep

LEMMA DrawIdInv ==
    ASSUME AccountsInv, NEW c \in Client, DrawId(c)
    PROVE  AccountsInv'
<1> USE AccountsAssumption DEF AccountsInv
<1> DEFINE op == serving[c].op
           i == serving[c].of
<1>1. /\ UNCHANGED <<users, credentials, reached, registered, misses>>
      /\ Enters(c, op, i, "create", lastId + 1)
  BY DEF DrawId, tables, histories
<1>2. serving[c] \in Request /\ serving[c].at = "draw" /\ Sound(serving[c])
  BY RequestOrNot DEF DrawId, AtStep, Serves
<1>3. /\ op \in {"phone", "qq", "register", "password"} /\ i \in Identity
      /\ (op = "phone" <=> i \in Phone) /\ (op = "qq" <=> i \in OpenId) /\ op # "password"
  BY <1>2 DEF Sound, Request
<1>4. overlapped' \subseteq Phone \cup Account
  <2>1. op = "register" => i \in Account
    BY <1>3 DEF Identity
  <2> QED
    BY <2>1 DEF DrawId, AccountsTypeOK
<1>5. lastId + 1 \in UserId /\ lastId' \in 0 .. MaxUsers
  BY DrawsId DEF DrawId
<1> HIDE DEF op, i
<1> QED
  BY <1>1, <1>3, <1>4, <1>5, EntersStep

LEMMA PasswordLoginInv ==
    ASSUME AccountsInv, NEW c \in Client, NEW a \in Account, PasswordLogin(c, a)
    PROVE  AccountsInv'
<1> USE AccountsAssumption DEF AccountsInv
<1>1. /\ UNCHANGED <<users, credentials, lastId, reached, registered, overlapped, misses>>
      /\ a \in Identity /\ a \notin Phone /\ a \notin OpenId
  BY DEF PasswordLogin, tables, histories, Identity
<1>2. overlapped' \subseteq Phone \cup Account /\ lastId' \in 0 .. MaxUsers
  BY <1>1 DEF AccountsTypeOK
<1>3. PICK u \in users, step \in {"token", "bind"} : Enters(c, "password", a, step, u.id)
  BY DEF PasswordLogin
<1>4. u.id \in UserId
  BY DEF AccountsTypeOK, Row
<1> QED
  BY <1>1, <1>2, <1>3, <1>4, EntersStep

LEMMA ByPhoneInv ==
    ASSUME AccountsInv, NEW c \in Client, ByPhone(c)
    PROVE  AccountsInv'
<1> USE AccountsAssumption DEF AccountsInv
<1> DEFINE i == serving[c].of
           rows == {u \in users : u.phone = i}
<1>1. /\ UNCHANGED <<users, credentials, lastId, reached, registered, overlapped, misses>>
      /\ AtStep(c, "byPhone")
  BY DEF ByPhone, tables, histories
<1>2. ~Idle(c) /\ serving[c] \in Request /\ serving[c].at = "byPhone"
  BY <1>1, RequestOrNot DEF AtStep
<1>3. i \in Phone /\ i \in Identity /\ i \notin OpenId
  BY <1>2 DEF Serves, Sound, Identity
<1>4. overlapped' \subseteq Phone \cup Account /\ lastId' \in 0 .. MaxUsers
  BY <1>1 DEF AccountsTypeOK
<1>5. GetByPhone(i) = First(rows)
  BY DEF GetByPhone
<1>6. First(rows) = NoOne \/ First(rows) \in UserId
  BY FirstRow
<1>7. CASE Enters(c, "phone", i, "bind", GetByPhone(i)) /\ GetByPhone(i) # NoOne
  <2>1. GetByPhone(i) \in UserId
    BY <1>5, <1>6, <1>7
  <2> QED
    BY <1>1, <1>3, <1>4, <1>7, <2>1, EntersStep
<1>8. CASE Enters(c, "phone", i, "draw", NoOne)
  BY <1>1, <1>3, <1>4, <1>8, EntersStep
<1> QED
  BY <1>7, <1>8 DEF ByPhone

\* The request a client goes on with.
LEMMA GoesTo ==
    ASSUME AccountsTypeOK, NEW c \in Client, ~Idle(c), NEW step \in {"bind", "token"}, Goes(c, step)
    PROVE  \E r \in Request :
              /\ serving' = [serving EXCEPT ![c] = r] /\ r.at = step
              /\ r.op = serving[c].op /\ r.of = serving[c].of /\ r.user = serving[c].user
<1> DEFINE r == [serving[c] EXCEPT !.at = step]
<1>1. serving[c] \in Request
  BY RequestOrNot
<1>2. r \in Request /\ r.at = step
      /\ r.op = serving[c].op /\ r.of = serving[c].of /\ r.user = serving[c].user
  BY <1>1 DEF Request
<1>3. serving' = [serving EXCEPT ![c] = r]
  BY DEF Goes, AccountsTypeOK
<1> HIDE DEF r
<1> QED
  BY <1>2, <1>3

LEMMA NewRowType ==
    ASSUME NEW r \in Request, Sound(r), r.at = "create", NEW u \in NewRow(r)
    PROVE  /\ u \in Row /\ u.by = r.op
           /\ r.op = "phone" => u.phone = r.of
<1> USE AccountsAssumption
<1>1. r.user \in UserId /\ r.op \in {"phone", "qq", "register"}
  BY DEF Sound, Request
<1>2. PICK ns \in CASE r.op = "register" -> {{r.of, e} : e \in Account}
                     [] r.op = "qq" -> {{}} \cup {{a} : a \in Account}
                     [] OTHER -> {{r.of}} \cup {{r.of, a} : a \in Account},
           p \in CASE r.op = "phone" -> {r.of}
                    [] r.op = "qq" -> {NoOne}
                    [] OTHER -> Phone \cup {NoOne} :
        u = [id |-> r.user, names |-> ns, phone |-> p, legacy |-> FALSE, by |-> r.op]
  BY DEF NewRow
<1>3. p \in Phone \cup {NoOne} /\ (r.op = "phone" => p = r.of)
  BY <1>1, <1>2 DEF Sound
<1>4. ns \subseteq Account \cup Phone
  <2>1. CASE r.op = "register"
    <3>1. r.of \in Account
      BY <2>1 DEF Sound, Request, Identity
    <3> QED
      BY <2>1, <3>1, <1>2
  <2>2. CASE r.op = "qq"
    BY <2>2, <1>1, <1>2
  <2>3. CASE r.op = "phone"
    <3>1. r.of \in Phone
      BY <2>3 DEF Sound
    <3> QED
      BY <2>3, <3>1, <1>2
  <2> QED
    BY <1>1, <2>1, <2>2, <2>3
<1> QED
  BY <1>1, <1>2, <1>3, <1>4 DEF Row

\* What Inserts leaves well formed.
LEMMA InsertsType ==
    ASSUME AccountsTypeOK, Serves, NEW c \in Client, AtStep(c, "create"), Inserts(c)
    PROVE  users' \subseteq Row /\ overlapped' \subseteq Phone \cup Account
<1>1. serving[c] \in Request /\ serving[c].at = "create" /\ Sound(serving[c])
  BY RequestOrNot DEF AtStep, Serves
<1>2. PICK u \in NewRow(serving[c]) :
         users' = users \cup {u} /\ overlapped' = overlapped \cup LookedUp(u.names)
  BY DEF Inserts
<1>3. u \in Row
  BY <1>1, NewRowType
<1>4. LookedUp(u.names) \subseteq Phone \cup Account
  BY <1>3 DEF LookedUp, Row
<1> QED
  BY <1>2, <1>3, <1>4 DEF AccountsTypeOK

LEMMA CreateUserInv ==
    ASSUME AccountsInv, NEW c \in Client, CreateUser(c)
    PROVE  AccountsInv'
<1> USE DEF AccountsInv
<1>1. /\ UNCHANGED <<credentials, lastId, reached, registered, misses>>
      /\ AtStep(c, "create") /\ Goes(c, "bind") /\ Inserts(c)
  BY DEF CreateUser, histories
<1>2. ~Idle(c) /\ serving[c] \in Request /\ serving[c].at = "create" /\ Sound(serving[c])
  BY <1>1, RequestOrNot DEF AtStep, Serves
<1>3. PICK r \in Request :
              /\ serving' = [serving EXCEPT ![c] = r] /\ r.at = "bind"
              /\ r.op = serving[c].op /\ r.of = serving[c].of /\ r.user = serving[c].user
  BY <1>1, <1>2, GoesTo
<1>4. Sound(r)
  BY <1>2, <1>3 DEF Sound
<1>5. users' \subseteq Row /\ overlapped' \subseteq Phone \cup Account
  BY <1>1, InsertsType
<1>6. lastId' \in 0 .. MaxUsers /\ misses' \in 0 .. MaxMisses
  BY <1>1 DEF AccountsTypeOK
<1> QED
  BY <1>1, <1>3, <1>4, <1>5, <1>6, RequestStep

LEMMA NewCredentialType ==
    ASSUME NEW r \in Request, Sound(r), r.at = "bind"
    PROVE  /\ NewCredential(r) \in Credential
           /\ NewCredential(r).user = r.user /\ NewCredential(r).of = r.of
           /\ NewCredential(r).kind = IF r.op = "register" THEN "password" ELSE r.op
<1>1. r.user \in UserId /\ r.of \in Identity /\ r.op \in {"phone", "qq", "register", "password"}
  BY DEF Sound, Request
<1> QED
  BY <1>1 DEF NewCredential, Credential, Kind

\* What the unique index lets in keeps it unique.
LEMMA CredentialAdded ==
    ASSUME OneCredential, NEW cr, ~Taken(cr), credentials' = credentials \cup {cr}
    PROVE  OneCredential'
BY DEF OneCredential, Taken

LEMMA CreateUserAuthInv ==
    ASSUME AccountsInv, NEW c \in Client, CreateUserAuth(c)
    PROVE  AccountsInv'
<1> USE DEF AccountsInv
<1> DEFINE r0 == serving[c]
           cr == NewCredential(r0)
<1>1. /\ UNCHANGED <<users, lastId, reached, registered, overlapped, misses>>
      /\ AtStep(c, "bind")
  BY DEF CreateUserAuth, histories
<1>2. ~Idle(c) /\ r0 \in Request /\ r0.at = "bind" /\ Sound(r0)
  BY <1>1, RequestOrNot DEF AtStep, Serves
<1>3. /\ cr \in Credential /\ cr.user = r0.user /\ cr.of = r0.of
      /\ cr.kind = IF r0.op = "register" THEN "password" ELSE r0.op
  BY <1>2, NewCredentialType
<1>4. credentials \subseteq Credential
  BY DEF AccountsTypeOK
<1>5. ASSUME Goes(c, "token"), credentials' \subseteq Credential, OneCredential',
             \A old \in credentials : old.kind \in {"phone", "qq"} => old \in credentials',
             r0.op \in {"phone", "qq"} => cr \in credentials'
      PROVE  AccountsInv'
  <2>1. PICK r \in Request :
              /\ serving' = [serving EXCEPT ![c] = r] /\ r.at = "token"
              /\ r.op = r0.op /\ r.of = r0.of /\ r.user = r0.user
    BY <1>2, <1>5, GoesTo
  <2>2. r.op \in {"phone", "qq"} => BoundTo(r.of, r.op, r.user)'
    <3>1. r.op \in {"phone", "qq"} => cr = [user |-> r.user, kind |-> r.op, of |-> r.of]
      BY <2>1 DEF NewCredential
    <3> QED
      BY <3>1, <1>5, <2>1 DEF BoundTo
  <2>3. Sound(r)'
    BY <1>2, <2>1, <2>2 DEF Sound
  <2>4. /\ serving' \in [Client -> Request \cup {NoRequest}]
        /\ Serves'
        /\ \A i, u : \A kind \in {"phone", "qq"} :
             BoundTo(i, kind, u) => BoundTo(i, kind, u)'
    BY <1>5, <2>1, <2>3, ClientStep
  <2>5. AccountsTypeOK'
    BY <1>1, <1>5, <2>4 DEF AccountsTypeOK
  <2>6. Reaches'
    BY <1>1, <2>4 DEF Reaches
  <2> QED
    BY <1>5, <2>4, <2>5, <2>6
<1>6. CASE ~Taken(cr) /\ credentials' = credentials \cup {cr} /\ Goes(c, "token")
  <2>1. OneCredential'
    BY <1>6, CredentialAdded
  <2> QED
    BY <1>3, <1>4, <1>5, <1>6, <2>1
<1>7. CASE Updates(c, cr) /\ Goes(c, "token")
  <2> DEFINE own == {o \in credentials : o.user = cr.user /\ o.kind = cr.kind}
  <2>1. /\ r0.op = "password" /\ cr.kind = "password"
        /\ \A other \in credentials \ own : other.kind = cr.kind => other.of # cr.of
        /\ credentials' = (credentials \ own) \cup {cr}
    BY <1>3, <1>7 DEF Updates
  <2>2. OneCredential'
    BY <2>1 DEF OneCredential
  <2>3. \A old \in credentials : old.kind \in {"phone", "qq"} => old \in credentials'
    BY <2>1
  <2>4. credentials' \subseteq Credential
    BY <2>1, <1>3, <1>4
  <2> HIDE DEF own
  <2> QED
    BY <1>5, <1>7, <2>1, <2>2, <2>3, <2>4
<1>8. CASE BindFails(c) /\ UNCHANGED credentials
  <2>1. CASE r0.op = "password"
    <3>1. Goes(c, "token")
      BY <1>8, <2>1 DEF BindFails
    <3>2. OneCredential'
      BY <1>8 DEF OneCredential
    <3> QED
      BY <1>4, <1>5, <1>8, <2>1, <3>1, <3>2
  <2>2. CASE r0.op # "password"
    <3>1. serving' = [serving EXCEPT ![c] = NoRequest]
      BY <1>8, <2>2 DEF BindFails, Answers
    <3>2. /\ lastId' \in 0 .. MaxUsers /\ overlapped' \subseteq Phone \cup Account
          /\ misses' \in 0 .. MaxMisses /\ users' \subseteq Row
      BY <1>1 DEF AccountsTypeOK
    <3> QED
      BY <1>1, <1>8, <3>1, <3>2, RequestStep
  <2> QED
    BY <2>1, <2>2
<1> QED
  BY <1>6, <1>7, <1>8 DEF CreateUserAuth

LEMMA IssueTokenInv ==
    ASSUME AccountsInv, NEW c \in Client, IssueToken(c)
    PROVE  AccountsInv'
<1> USE DEF AccountsInv
<1> DEFINE r == serving[c]
<1>1. /\ UNCHANGED <<users, credentials, lastId, overlapped, misses>>
      /\ AtStep(c, "token")
      /\ serving' = [serving EXCEPT ![c] = NoRequest]
      /\ reached' = [reached EXCEPT ![r.of] = @ \cup {r.user}]
  BY DEF IssueToken, tables, Answers
<1>2. ~Idle(c) /\ r \in Request /\ r.at = "token" /\ Sound(r)
  BY <1>1, RequestOrNot DEF AtStep, Serves
<1>3. r.of \in Identity /\ r.user \in UserId
  BY <1>2 DEF Sound, Request
<1>4. /\ serving' \in [Client -> Request \cup {NoRequest}] /\ Serves'
  BY <1>1, ClientStep
<1>5. AccountsTypeOK'
  <2>1. reached' \in [Identity -> SUBSET UserId]
    BY <1>1, <1>3 DEF AccountsTypeOK
  <2>2. registered' \subseteq Account \X UserId
    <3>1. r.op = "register" => r.of \in Account
      BY <1>2 DEF Sound, Request, Identity
    <3> QED
      BY <1>3, <3>1 DEF IssueToken, AccountsTypeOK
  <2> QED
    BY <1>1, <1>4, <2>1, <2>2 DEF AccountsTypeOK
<1>6. OneCredential'
  BY <1>1 DEF OneCredential
<1>7. \A i \in Identity : \A u \in reached'[i] : u \in reached[i] \/ (i = r.of /\ u = r.user)
  BY <1>1, <1>3 DEF AccountsTypeOK
<1>8. \A i, kind, u : BoundTo(i, kind, u)' <=> BoundTo(i, kind, u)
  BY <1>1 DEF BoundTo
<1>9. /\ r.of \in Phone => BoundTo(r.of, "phone", r.user)
      /\ r.of \in OpenId => BoundTo(r.of, "qq", r.user)
  BY <1>2 DEF Sound
<1>10. Reaches'
  BY <1>7, <1>8, <1>9 DEF Reaches, Identity
<1> QED
  BY <1>4, <1>5, <1>6, <1>10

LEMMA MissInv ==
    ASSUME AccountsInv, NEW c \in Client, Miss(c)
    PROVE  AccountsInv'
<1> USE DEF AccountsInv
<1> DEFINE r == serving[c]
<1>1. /\ UNCHANGED <<lastId, reached, registered>>
      /\ ~Idle(c) /\ serving' = [serving EXCEPT ![c] = NoRequest]
  BY DEF Miss, histories, Answers
<1>2. r \in Request /\ Sound(r)
  BY <1>1, RequestOrNot DEF Serves
<1>3. misses' \in 0 .. MaxMisses /\ lastId' \in 0 .. MaxUsers
  <2>1. misses' \in 0 .. MaxMisses
    BY AccountsAssumption DEF Miss, AccountsTypeOK
  <2> QED
    BY <2>1, <1>1 DEF AccountsTypeOK
<1>4. ASSUME users' \subseteq Row, UNCHANGED credentials, overlapped' \subseteq Phone \cup Account
      PROVE  AccountsInv'
  BY <1>1, <1>3, <1>4, RequestStep
<1>5. CASE UNCHANGED <<tables, overlapped>>
  BY <1>4, <1>5 DEF tables, AccountsTypeOK
<1>6. CASE AtStep(c, "create") /\ UNCHANGED credentials /\ Inserts(c)
  BY <1>4, <1>6, InsertsType
<1>7. CASE /\ AtStep(c, "bind") /\ UNCHANGED <<users, overlapped>>
           /\ ~Taken(NewCredential(r))
           /\ credentials' = credentials \cup {NewCredential(r)}
  <2>1. NewCredential(r) \in Credential
    BY <1>2, <1>7, NewCredentialType DEF AtStep
  <2>2. OneCredential'
    BY <1>7, CredentialAdded
  <2>3. /\ serving' \in [Client -> Request \cup {NoRequest}] /\ Serves'
        /\ \A i, u : \A kind \in {"phone", "qq"} :
             BoundTo(i, kind, u) => BoundTo(i, kind, u)'
    BY <1>1, <1>7, ClientStep
  <2>4. AccountsTypeOK'
    BY <1>1, <1>3, <1>7, <2>1, <2>3 DEF AccountsTypeOK
  <2>5. Reaches'
    BY <1>1, <2>3 DEF Reaches
  <2> QED
    BY <2>2, <2>3, <2>4, <2>5
<1> QED
  BY <1>5, <1>6, <1>7 DEF Miss

LEMMA AccountsStep == AccountsInv /\ [AccountsNext]_accountVars => AccountsInv'
<1> SUFFICES ASSUME AccountsInv, [AccountsNext]_accountVars PROVE AccountsInv'
  OBVIOUS
<1>1. CASE UNCHANGED accountVars
  BY <1>1 DEF accountVars, AccountsInv, AccountsTypeOK, Serves, Sound, BoundTo, Idle,
              OneCredential, Reaches
<1> QED
  BY <1>1, PhoneLoginInv, QQLoginInv, RegisterInv, PasswordLoginInv, ByPhoneInv,
     DrawIdInv, CreateUserInv, CreateUserAuthInv, IssueTokenInv, MissInv DEF AccountsNext

LEMMA AtMostOne ==
    ASSUME NEW S, \A a, b \in S : a = b
    PROVE  Cardinality(S) <= 1
<1>1. S = {} \/ \E x : S = {x}
  <2>1. CASE S = {}
    BY <2>1
  <2>2. CASE S # {}
    <3>1. PICK x : x \in S
      BY <2>2
    <3>2. S = {x}
      BY <3>1
    <3> QED
      BY <3>2
  <2> QED
    BY <2>1, <2>2
<1>2. Cardinality({}) <= 1 /\ \A x : Cardinality({x}) <= 1
  BY FS_EmptySet, FS_Singleton
<1> QED
  BY <1>1, <1>2

(***************************************************************************)
(* However many requests run side by side and wherever they are cut off,   *)
(* one phone and one QQ identity are always the same user.                 *)
(***************************************************************************)
THEOREM OneUserPerIdentity == AccountsSpec => []SameUser
<1>1. ASSUME AccountsInv PROVE SameUser
  <2>1. ASSUME NEW i \in Phone \cup OpenId, NEW a \in reached[i], NEW b \in reached[i]
        PROVE  a = b
    <3>1. PICK kind \in {"phone", "qq"} : BoundTo(i, kind, a) /\ BoundTo(i, kind, b)
      BY <1>1 DEF AccountsInv, Reaches
    <3> QED
      BY <1>1, <3>1 DEF AccountsInv, OneCredential, BoundTo
  <2> QED
    BY <2>1, AtMostOne DEF SameUser
<1> QED
  BY <1>1, AccountsInitInv, AccountsStep, PTL DEF AccountsSpec

-----------------------------------------------------------------------------
(* One user per phone.                                                     *)

MadeFor(p) == {u \in users : u.phone = p /\ u.by = "phone"}

OnPhone(c, p) == ~Idle(c) /\ serving[c].of = p

\* A request that found no user will make one.
ToMake(c) == serving[c].at \in {"draw", "create"}

\* A phone that never had two logins at a time has at most one user, and none
\* while its login is to create it.
Continued ==
    \A p \in Phone \ overlapped :
        /\ \A c, d \in Client : OnPhone(c, p) /\ OnPhone(d, p) => c = d
        /\ \A c \in Client : OnPhone(c, p) /\ ToMake(c) => MadeFor(p) = {}
        /\ \A u, v \in MadeFor(p) : u = v

PhonesInv == AccountsInv /\ Continued

\* A client's new request, seen from the old ones.
LEMMA RequestChange ==
    ASSUME AccountsTypeOK, NEW c \in Client, NEW r \in Request \cup {NoRequest},
           serving' = [serving EXCEPT ![c] = r]
    PROVE  /\ \A d \in Client \ {c} : \A p : OnPhone(d, p)' <=> OnPhone(d, p)
           /\ \A d \in Client \ {c} : ToMake(d)' <=> ToMake(d)
           /\ \A p : OnPhone(c, p)' <=> r # NoRequest /\ r.of = p
           /\ ToMake(c)' <=> r.at \in {"draw", "create"}
<1>1. serving'[c] = r /\ \A d \in Client \ {c} : serving'[d] = serving[d]
  BY DEF AccountsTypeOK
<1> QED
  BY <1>1 DEF OnPhone, ToMake, Idle

\* A step that creates no user and enters no phone login.
LEMMA NoUserStep ==
    ASSUME AccountsTypeOK, Continued, NEW c \in Client, NEW r \in Request \cup {NoRequest},
           serving' = [serving EXCEPT ![c] = r], UNCHANGED users, overlapped \subseteq overlapped',
           r # NoRequest => r.of \notin Phone \/ OnPhone(c, r.of),
           r # NoRequest /\ r.at \in {"draw", "create"} /\ r.of \in Phone \ overlapped
               => MadeFor(r.of) = {}
    PROVE  Continued'
<1>1. /\ \A d \in Client \ {c} : \A p : OnPhone(d, p)' <=> OnPhone(d, p)
      /\ \A d \in Client \ {c} : ToMake(d)' <=> ToMake(d)
      /\ \A p : OnPhone(c, p)' <=> r # NoRequest /\ r.of = p
      /\ ToMake(c)' <=> r.at \in {"draw", "create"}
  BY RequestChange
<1>2. \A p : MadeFor(p)' = MadeFor(p)
  BY DEF MadeFor
<1>3. ASSUME NEW p \in Phone \ overlapped, NEW d \in Client, OnPhone(d, p)'
      PROVE  /\ OnPhone(d, p)
             /\ ToMake(d)' => ToMake(d) \/ MadeFor(p) = {}
  <2>1. CASE d = c
    BY <1>1, <1>3, <2>1
  <2>2. CASE d # c
    BY <1>1, <1>3, <2>2
  <2> QED
    BY <2>1, <2>2
<1>4. ASSUME NEW p \in Phone \ overlapped
      PROVE  /\ \A d, e \in Client : OnPhone(d, p)' /\ OnPhone(e, p)' => d = e
             /\ \A d \in Client : OnPhone(d, p)' /\ ToMake(d)' => MadeFor(p)' = {}
             /\ \A v, w \in MadeFor(p)' : v = w
  BY <1>2, <1>3 DEF Continued
<1> QED
  BY <1>4 DEF Continued

\* A step that creates a user, or may have.
LEMMA UserStep ==
    ASSUME AccountsInv, Continued, NEW c \in Client, NEW r \in Request \cup {NoRequest},
           AtStep(c, "create"), NEW u \in NewRow(serving[c]), users' = users \cup {u},
           serving' = [serving EXCEPT ![c] = r], overlapped \subseteq overlapped',
           r # NoRequest => r.of = serving[c].of /\ r.at = "bind"
    PROVE  Continued'
<1> USE DEF AccountsInv
<1>1. /\ \A d \in Client \ {c} : \A p : OnPhone(d, p)' <=> OnPhone(d, p)
      /\ \A d \in Client \ {c} : ToMake(d)' <=> ToMake(d)
      /\ \A p : OnPhone(c, p)' <=> r # NoRequest /\ r.of = p
      /\ ToMake(c)' <=> r.at \in {"draw", "create"}
  BY RequestChange
<1>2. ~Idle(c) /\ serving[c] \in Request /\ serving[c].at = "create" /\ Sound(serving[c])
  BY RequestOrNot DEF AtStep, Serves
<1>3. u.by = serving[c].op /\ (serving[c].op = "phone" => u.phone = serving[c].of)
  BY <1>2, NewRowType
<1>4. \A p : OnPhone(c, p)' => OnPhone(c, p)
  BY <1>1, <1>2 DEF OnPhone
<1>5. ~ToMake(c)'
  BY <1>1 DEF NoRequest
<1>6. ASSUME NEW p \in Phone \ overlapped
      PROVE  /\ \A d, e \in Client : OnPhone(d, p)' /\ OnPhone(e, p)' => d = e
             /\ \A d \in Client : OnPhone(d, p)' /\ ToMake(d)' => MadeFor(p)' = {}
             /\ \A v, w \in MadeFor(p)' : v = w
  <2>1. ASSUME NEW d \in Client, OnPhone(d, p)' PROVE OnPhone(d, p)
    <3>1. CASE d = c
      BY <1>4, <2>1, <3>1
    <3>2. CASE d # c
      BY <1>1, <2>1, <3>2
    <3> QED
      BY <3>1, <3>2
  <2>2. \A d, e \in Client : OnPhone(d, p) /\ OnPhone(e, p) => d = e
    BY DEF Continued
  <2>3. CASE serving[c].op = "phone" /\ serving[c].of = p
    <3>1. OnPhone(c, p) /\ MadeFor(p) = {}
      BY <1>2, <2>3 DEF OnPhone, ToMake, Continued
    <3>2. MadeFor(p)' \subseteq MadeFor(p) \cup {u}
      BY DEF MadeFor
    <3>3. \A d \in Client : OnPhone(d, p)' => d = c
      BY <2>1, <2>2, <3>1
    <3> QED
      BY <1>5, <3>1, <3>2, <3>3
  <2>4. CASE ~(serving[c].op = "phone" /\ serving[c].of = p)
    <3>1. ~(u.phone = p /\ u.by = "phone")
      BY <1>3, <2>4
    <3>2. MadeFor(p)' = MadeFor(p)
      BY <3>1 DEF MadeFor
    <3>3. ASSUME NEW d \in Client, ToMake(d)' PROVE ToMake(d)
      <4>1. d # c
        BY <1>5, <3>3
      <4> QED
        BY <1>1, <3>3, <4>1
    <3> QED
      BY <2>1, <2>2, <3>2, <3>3 DEF Continued
  <2> QED
    BY <2>3, <2>4
<1> QED
  BY <1>6 DEF Continued

LEMMA PhoneLoginKeeps ==
    ASSUME AccountsInv, Continued, NEW c \in Client, NEW q \in Phone, PhoneLogin(c, q)
    PROVE  Continued'
<1> USE DEF AccountsInv
<1>1. PICK step \in {"token", "byPhone"}, u \in UserId \cup {NoOne} : Enters(c, "phone", q, step, u)
  <2>1. \A cr \in Bound("phone", q) : cr.user \in UserId
    BY DEF Bound, AccountsTypeOK, Credential
  <2> QED
    BY <2>1 DEF PhoneLogin
<1> DEFINE r == [op |-> "phone", of |-> q, at |-> step, user |-> u]
<1>2. r \in Request /\ r.of = q /\ r.at \notin {"draw", "create"}
  BY DEF Request, Identity
<1>3. serving' = [serving EXCEPT ![c] = r]
  BY <1>1 DEF Enters
<1> HIDE DEF r
<1>4. /\ \A d \in Client \ {c} : \A p : OnPhone(d, p)' <=> OnPhone(d, p)
      /\ \A d \in Client \ {c} : ToMake(d)' <=> ToMake(d)
      /\ \A p : OnPhone(c, p)' => q = p
      /\ ~ToMake(c)'
  BY <1>2, <1>3, RequestChange
<1>5. \A p : MadeFor(p)' = MadeFor(p)
  BY DEF PhoneLogin, tables, MadeFor
<1>6. /\ overlapped \subseteq overlapped'
      /\ q \notin overlapped' => \A d \in Client : ~OnPhone(d, q)
  BY DEF PhoneLogin, OnPhone
<1>7. ASSUME NEW p \in Phone \ overlapped'
      PROVE  /\ \A d, e \in Client : OnPhone(d, p)' /\ OnPhone(e, p)' => d = e
             /\ \A d \in Client : OnPhone(d, p)' /\ ToMake(d)' => MadeFor(p)' = {}
             /\ \A v, w \in MadeFor(p)' : v = w
  <2>1. p \in Phone \ overlapped
    BY <1>6, <1>7
  <2>2. CASE p = q
    <3>1. ASSUME NEW d \in Client, OnPhone(d, p)' PROVE d = c
      <4>1. ~OnPhone(d, p)
        BY <1>6, <1>7, <2>2
      <4> QED
        BY <1>4, <3>1, <4>1
    <3> QED
      BY <1>4, <1>5, <2>1, <3>1 DEF Continued
  <2>3. CASE p # q
    <3>1. ASSUME NEW d \in Client, OnPhone(d, p)'
          PROVE  d # c /\ OnPhone(d, p) /\ (ToMake(d)' => ToMake(d))
      <4>1. d # c
        BY <1>4, <2>3, <3>1
      <4> QED
        BY <1>4, <3>1, <4>1
    <3> QED
      BY <1>5, <2>1, <3>1 DEF Continued
  <2> QED
    BY <2>2, <2>3
<1> QED
  BY <1>7 DEF Continued

LEMMA ByPhoneKeeps ==
    ASSUME AccountsInv, Continued, NEW c \in Client, ByPhone(c)
    PROVE  Continued'
<1> USE DEF AccountsInv
<1> DEFINE i == serving[c].of
           rows == {u \in users : u.phone = i}
<1>1. ~Idle(c) /\ serving[c] \in Request /\ UNCHANGED <<users, overlapped>>
  BY RequestOrNot DEF ByPhone, tables
<1>2. PICK step \in {"draw", "bind"}, u \in UserId \cup {NoOne} :
         /\ Enters(c, "phone", i, step, u)
         /\ step = "draw" => GetByPhone(i) = NoOne
  <2>1. First(rows) \in UserId \cup {NoOne}
    BY FirstRow
  <2> QED
    BY <2>1 DEF ByPhone, GetByPhone
<1>3. step = "draw" => MadeFor(i) = {}
  <2>1. step = "draw" => rows = {}
    BY <1>2, FirstRow DEF GetByPhone
  <2> QED
    BY <2>1 DEF MadeFor
<1> DEFINE r == [op |-> "phone", of |-> i, at |-> step, user |-> u]
<1>4. r \in Request /\ r.of = i /\ r.at = step
  BY <1>1 DEF Request
<1>5. serving' = [serving EXCEPT ![c] = r]
  BY <1>2 DEF Enters
<1>6. OnPhone(c, i)
  BY <1>1 DEF OnPhone
<1> HIDE DEF r
<1> QED
  BY <1>1, <1>3, <1>4, <1>5, <1>6, NoUserStep

\* The user a phone login is to make is still not there.
LEMMA DrawIdKeeps ==
    ASSUME AccountsInv, Continued, NEW c \in Client, DrawId(c)
    PROVE  Continued'
<1> USE DEF AccountsInv
<1> DEFINE r == [op |-> serving[c].op, of |-> serving[c].of, at |-> "create", user |-> lastId + 1]
<1>1. ~Idle(c) /\ serving[c] \in Request /\ serving[c].at = "draw"
  BY RequestOrNot DEF DrawId, AtStep
<1>2. r \in Request /\ r.of = serving[c].of
  BY <1>1, DrawsId DEF Request, DrawId
<1>3. serving' = [serving EXCEPT ![c] = r] /\ UNCHANGED users /\ overlapped \subseteq overlapped'
  BY DEF DrawId, Enters, tables
<1> HIDE DEF r
<1>4. OnPhone(c, r.of) /\ ToMake(c)
  BY <1>1, <1>2 DEF OnPhone, ToMake
<1>5. r.of \in Phone \ overlapped => MadeFor(r.of) = {}
  BY <1>4 DEF Continued
<1> QED
  BY <1>2, <1>3, <1>4, <1>5, NoUserStep

\* A request for an identity that is not a phone.
LEMMA OtherLoginKeeps ==
    ASSUME AccountsTypeOK, Continued, NEW c \in Client, NEW op \in {"qq", "register", "password"},
           NEW i \in Identity \ Phone, NEW step \in {"draw", "bind", "token"},
           NEW u \in UserId \cup {NoOne}, Enters(c, op, i, step, u),
           UNCHANGED users, overlapped \subseteq overlapped'
    PROVE  Continued'
<1> DEFINE r == [op |-> op, of |-> i, at |-> step, user |-> u]
<1>1. r \in Request /\ r.of \notin Phone
  BY DEF Request
<1>2. serving' = [serving EXCEPT ![c] = r]
  BY DEF Enters
<1> HIDE DEF r
<1> QED
  BY <1>1, <1>2, NoUserStep

LEMMA LoginsKeep ==
    ASSUME AccountsInv, Continued, NEW c \in Client,
           \/ \E q \in OpenId : QQLogin(c, q)
           \/ \E a \in Account : Register(c, a) \/ PasswordLogin(c, a)
    PROVE  Continued'
<1> USE AccountsAssumption DEF AccountsInv
<1>1. UNCHANGED users /\ overlapped \subseteq overlapped'
  BY DEF QQLogin, Register, PasswordLogin, tables
<1>2. OpenId \subseteq Identity \ Phone /\ Account \subseteq Identity \ Phone
  BY DEF Identity
<1>3. \A cr \in credentials : cr.user \in UserId
  BY DEF AccountsTypeOK, Credential
<1>4. \A v \in users : v.id \in UserId
  BY DEF AccountsTypeOK, Row
<1>5. ASSUME NEW q \in OpenId, QQLogin(c, q) PROVE Continued'
  <2>1. PICK step \in {"token", "draw"}, u \in UserId \cup {NoOne} : Enters(c, "qq", q, step, u)
    BY <1>3, <1>5 DEF QQLogin, Bound
  <2> QED
    BY <1>1, <1>2, <2>1, OtherLoginKeeps
<1>6. ASSUME NEW a \in Account, Register(c, a) PROVE Continued'
  BY <1>1, <1>2, <1>6, OtherLoginKeeps DEF Register
<1>7. ASSUME NEW a \in Account, PasswordLogin(c, a) PROVE Continued'
  <2>1. PICK step \in {"token", "bind"}, u \in UserId : Enters(c, "password", a, step, u)
    BY <1>4, <1>7 DEF PasswordLogin
  <2> QED
    BY <1>1, <1>2, <2>1, OtherLoginKeeps
<1> QED
  BY <1>5, <1>6, <1>7

LEMMA CreateUserKeeps ==
    ASSUME AccountsInv, Continued, NEW c \in Client, CreateUser(c)
    PROVE  Continued'
<1> USE DEF AccountsInv
<1>1. AtStep(c, "create") /\ Goes(c, "bind") /\ ~Idle(c)
  BY RequestOrNot DEF CreateUser
<1>2. PICK r \in Request :
              /\ serving' = [serving EXCEPT ![c] = r] /\ r.at = "bind"
              /\ r.op = serving[c].op /\ r.of = serving[c].of /\ r.user = serving[c].user
  BY <1>1, GoesTo
<1>3. PICK u \in NewRow(serving[c]) : users' = users \cup {u} /\ overlapped \subseteq overlapped'
  BY DEF CreateUser, Inserts
<1> QED
  BY <1>1, <1>2, <1>3, UserStep

\* Binding, and the end of a request.
LEMMA EndsKeep ==
    ASSUME AccountsInv, Continued, NEW c \in Client, CreateUserAuth(c) \/ IssueToken(c) \/ Miss(c)
    PROVE  Continued'
<1> USE DEF AccountsInv
<1>1. ~Idle(c) /\ serving[c] \in Request
  BY RequestOrNot DEF CreateUserAuth, IssueToken, Miss
<1>2. ASSUME Answers(c), UNCHANGED <<users, overlapped>> PROVE Continued'
  BY <1>1, <1>2, NoUserStep DEF Answers
<1>3. ASSUME Goes(c, "token"), UNCHANGED <<users, overlapped>> PROVE Continued'
  <2>1. PICK r \in Request :
              /\ serving' = [serving EXCEPT ![c] = r] /\ r.at = "token"
              /\ r.op = serving[c].op /\ r.of = serving[c].of /\ r.user = serving[c].user
    BY <1>1, <1>3, GoesTo
  <2>2. OnPhone(c, r.of)
    BY <1>1, <2>1 DEF OnPhone
  <2> QED
    BY <1>1, <1>3, <2>1, <2>2, NoUserStep
<1>4. CASE CreateUserAuth(c)
  <2>1. UNCHANGED <<users, overlapped>> /\ (Goes(c, "token") \/ Answers(c))
    BY <1>4 DEF CreateUserAuth, BindFails
  <2> QED
    BY <1>2, <1>3, <2>1
<1>5. CASE IssueToken(c)
  BY <1>2, <1>5 DEF IssueToken, tables
<1>6. CASE Miss(c)
  <2>1. Answers(c)
    BY <1>6 DEF Miss
  <2>2. CASE UNCHANGED <<users, overlapped>>
    BY <1>2, <2>1, <2>2
  <2>3. CASE AtStep(c, "create") /\ Inserts(c)
    BY <1>1, <2>1, <2>3, UserStep DEF Answers, Inserts
  <2> QED
    BY <1>6, <2>2, <2>3 DEF Miss, tables
<1> QED
  BY <1>4, <1>5, <1>6

LEMMA PhonesStep == PhonesInv /\ [AccountsNext]_accountVars => PhonesInv'
<1> SUFFICES ASSUME AccountsInv, Continued, [AccountsNext]_accountVars PROVE PhonesInv'
  BY DEF PhonesInv
<1>1. AccountsInv'
  BY AccountsStep
<1>2. CASE UNCHANGED accountVars
  BY <1>1, <1>2 DEF accountVars, PhonesInv, Continued, OnPhone, ToMake, Idle, MadeFor
<1>3. CASE AccountsNext
  <2>1. Continued'
    BY <1>3, PhoneLoginKeeps, LoginsKeep, ByPhoneKeeps, DrawIdKeeps, CreateUserKeeps, EndsKeep DEF AccountsNext
  <2> QED
    BY <1>1, <2>1 DEF PhonesInv
<1> QED
  BY <1>2, <1>3

(***************************************************************************)
(* A phone whose logins never ran side by side has one user, whichever of  *)
(* them were cut off, and wherever.                                        *)
(***************************************************************************)
THEOREM LoginsOfOnePhone == AccountsSpec => []OneUserPerPhone
<1>1. AccountsInit => PhonesInv
  <2>1. AccountsInit => Continued
    BY DEF AccountsInit, Continued, OnPhone, Idle, MadeFor
  <2> QED
    BY <2>1, AccountsInitInv DEF PhonesInv
<1>2. ASSUME PhonesInv PROVE OneUserPerPhone
  <2>1. ASSUME NEW p \in Phone \ overlapped
        PROVE  Cardinality({u \in users : u.phone = p /\ u.by = "phone"}) <= 1
    BY <1>2, AtMostOne DEF PhonesInv, Continued, MadeFor
  <2> QED
    BY <2>1 DEF OneUserPerPhone
<1> QED
  BY <1>1, <1>2, PhonesStep, PTL DEF AccountsSpec

-----------------------------------------------------------------------------
(* One user per account registered alone.                                  *)

\* No user with that name has a lower number than u, nor will one.
Clear(a, u) ==
    /\ u \in 1 .. lastId
    /\ \A v \in users : a \in v.names => u <= v.id
    /\ \A d \in Client : AtStep(d, "create") => u <= serving[d].user

There(a, u) == \E v \in users : v.id = u /\ a \in v.names

\* The look-up of a Register still holds.
Nobody(a) == \A v \in users : a \notin v.names

Registering(c) == ~Idle(c) /\ serving[c].op = "register" /\ serving[c].of \notin overlapped

Alone ==
    /\ \A ru \in registered : ru[1] \notin overlapped => Clear(ru[1], ru[2]) /\ There(ru[1], ru[2])
    /\ \A c \in Client : Registering(c) =>
          \/ AtStep(c, "draw") /\ Nobody(serving[c].of)
          \/ /\ ~AtStep(c, "draw") /\ Clear(serving[c].of, serving[c].user)
             /\ AtStep(c, "create") \/ There(serving[c].of, serving[c].user)

RegistersInv == AccountsInv /\ Alone

LEMMA LeastOfAll ==
    ASSUME NEW S \in SUBSET Nat, NEW x \in S, \A y \in S : x <= y
    PROVE  Min(S) = x
<1>1. Min(S) \in S
  BY LeastId
<1>2. Min(S) <= x
  BY DEF Min
<1>3. Min(S) \in Nat /\ x \in Nat /\ x <= Min(S)
  BY <1>1
<1> QED
  BY <1>2, <1>3

\* Whom the look-up of an account finds.
LEMMA FoundByAccount ==
    ASSUME AccountsTypeOK, NEW a, NEW u, Clear(a, u), There(a, u)
    PROVE  GetByAccount(a) = u
<1> DEFINE rows == {v \in users : a \in v.names}
           S == {v.id : v \in rows}
<1>1. S \subseteq Nat /\ u \in S /\ \A y \in S : u <= y
  BY DEF Clear, There, AccountsTypeOK, Row, UserId
<1>2. rows # {} /\ GetByAccount(a) = First(rows) /\ First(rows) = IF rows = {} THEN NoOne ELSE Min(S)
  BY DEF GetByAccount, First, There
<1> HIDE DEF S, rows
<1> QED
  BY <1>1, <1>2, LeastOfAll

\* Rows that are added come from requests about to make one.
Later ==
    /\ users \subseteq users' /\ lastId \in Nat /\ lastId' \in Nat /\ lastId <= lastId'
    /\ \A v \in users' \ users : \E d \in Client : AtStep(d, "create") /\ v.id = serving[d].user
    /\ \A v \in users' \ users : LookedUp(v.names) \subseteq overlapped'
    /\ \A d \in Client : AtStep(d, "create")' =>
          \/ AtStep(d, "create") /\ serving'[d].user = serving[d].user
          \/ lastId < serving'[d].user /\ serving'[d].user \in Nat

LEMMA ClearStays ==
    ASSUME Later, NEW a, NEW u
    PROVE  /\ Clear(a, u) => Clear(a, u)'
           /\ There(a, u) => There(a, u)'
<1>1. There(a, u) => There(a, u)'
  BY DEF There, Later
<1>2. ASSUME Clear(a, u) PROVE Clear(a, u)'
  <2>1. u \in 1 .. lastId'
    BY <1>2 DEF Clear, Later
  <2>2. ASSUME NEW v \in users', a \in v.names PROVE u <= v.id
    BY <1>2, <2>2 DEF Clear, Later
  <2>3. ASSUME NEW d \in Client, AtStep(d, "create")' PROVE u <= serving'[d].user
    BY <1>2, <2>3 DEF Clear, Later
  <2> QED
    BY <2>1, <2>2, <2>3 DEF Clear
<1> QED
  BY <1>1, <1>2

\* A step of c that adds rows as above keeps what is about the others.
LEMMA AloneStep ==
    ASSUME AccountsTypeOK, Alone, Later, NEW c \in Client, NEW r \in Request \cup {NoRequest},
           serving' = [serving EXCEPT ![c] = r], overlapped \subseteq overlapped',
           \A ru \in registered' \ registered :
               ru[1] \notin overlapped' => Clear(ru[1], ru[2])' /\ There(ru[1], ru[2])',
           Registering(c)' =>
               \/ AtStep(c, "draw")' /\ Nobody(r.of)'
               \/ /\ ~AtStep(c, "draw")' /\ Clear(r.of, r.user)'
                  /\ AtStep(c, "create")' \/ There(r.of, r.user)'
    PROVE  Alone'
<1>1. serving'[c] = r /\ \A d \in Client \ {c} : serving'[d] = serving[d]
  BY DEF AccountsTypeOK
<1>2. ASSUME NEW ru \in registered', ru[1] \notin overlapped'
      PROVE  Clear(ru[1], ru[2])' /\ There(ru[1], ru[2])'
  <2>1. CASE ru \in registered
    <3>1. Clear(ru[1], ru[2]) /\ There(ru[1], ru[2])
      BY <1>2, <2>1 DEF Alone
    <3> QED
      BY <3>1, ClearStays
  <2> QED
    BY <1>2, <2>1
<1>3. ASSUME NEW d \in Client, Registering(d)'
      PROVE  \/ AtStep(d, "draw")' /\ Nobody(serving[d].of)'
             \/ /\ ~AtStep(d, "draw")' /\ Clear(serving[d].of, serving[d].user)'
                /\ AtStep(d, "create")' \/ There(serving[d].of, serving[d].user)'
  <2>1. CASE d = c
    <3>1. serving'[d].of = r.of /\ serving'[d].user = r.user
      BY <1>1, <2>1
    <3> QED
      BY <1>3, <2>1, <3>1 DEF Clear, There, Nobody
  <2>2. CASE d # c
    <3>1. /\ serving'[d] = serving[d] /\ (AtStep(d, "create")' <=> AtStep(d, "create"))
          /\ AtStep(d, "draw")' <=> AtStep(d, "draw")
      BY <1>1, <2>2 DEF AtStep
    <3>2. Registering(d) /\ serving[d].of \notin overlapped'
      BY <1>3, <3>1 DEF Registering, Idle
    <3>3. PICK a, u : a = serving[d].of /\ u = serving[d].user
      OBVIOUS
    <3>4. CASE AtStep(d, "draw")
      <4>1. Nobody(a)
        BY <3>2, <3>3, <3>4 DEF Alone
      <4>2. ASSUME NEW v \in users' \ users PROVE a \notin v.names
        <5>1. a \in v.names => a \in LookedUp(v.names)
          BY <3>2, <3>3, <3>4 DEF LookedUp, Registering
        <5> QED
          BY <3>2, <3>3, <5>1 DEF Later
      <4> QED
        BY <3>1, <3>3, <3>4, <4>1, <4>2 DEF Nobody
    <3>5. CASE ~AtStep(d, "draw")
      <4>1. Clear(a, u) /\ (AtStep(d, "create") \/ There(a, u))
        BY <3>2, <3>3, <3>5 DEF Alone
      <4>2. Clear(a, u)' /\ (AtStep(d, "create")' \/ There(a, u)')
        BY <3>1, <4>1, ClearStays
      <4> QED
        BY <3>1, <3>3, <3>5, <4>2 DEF Clear, There
    <3> QED
      BY <3>4, <3>5
  <2> QED
    BY <2>1, <2>2
<1> QED
  BY <1>2, <1>3 DEF Alone

\* Steps that draw no number; the rows they add are of the request about to
\* make one.
LEMMA UndrawnIsLater ==
    ASSUME AccountsTypeOK, NEW c \in Client, NEW r \in Request \cup {NoRequest},
           serving' = [serving EXCEPT ![c] = r], lastId' = lastId, r.at # "create",
           users \subseteq users',
           \A v \in users' \ users : /\ AtStep(c, "create") /\ v.id = serving[c].user
                                    /\ LookedUp(v.names) \subseteq overlapped'
    PROVE  Later
<1>1. serving'[c] = r /\ \A d \in Client \ {c} : serving'[d] = serving[d]
  BY DEF AccountsTypeOK
<1>2. ASSUME NEW d \in Client, AtStep(d, "create")'
      PROVE  AtStep(d, "create") /\ serving'[d].user = serving[d].user
  BY <1>1, <1>2 DEF AtStep
<1>3. lastId \in Nat
  BY AccountsAssumption DEF AccountsTypeOK
<1> QED
  BY <1>2, <1>3 DEF Later

\* A step that draws the number of the user it is about to make.
LEMMA DrawnIsLater ==
    ASSUME AccountsTypeOK, NEW c \in Client, NEW r \in Request,
           serving' = [serving EXCEPT ![c] = r], UNCHANGED users,
           lastId' = lastId + 1, r.user = lastId + 1
    PROVE  Later
<1>1. serving'[c] = r /\ \A d \in Client \ {c} : serving'[d] = serving[d]
  BY DEF AccountsTypeOK
<1>2. lastId \in Nat
  BY AccountsAssumption DEF AccountsTypeOK
<1>3. ASSUME NEW d \in Client, AtStep(d, "create")'
      PROVE  \/ AtStep(d, "create") /\ serving'[d].user = serving[d].user
             \/ lastId < serving'[d].user /\ serving'[d].user \in Nat
  <2>1. CASE d = c
    BY <1>1, <1>2, <2>1
  <2>2. CASE d # c
    BY <1>1, <1>3, <2>2 DEF AtStep
  <2> QED
    BY <2>1, <2>2
<1> QED
  BY <1>2, <1>3 DEF Later

\* A request of another kind begins or goes on.
LEMMA OtherRequestAlone ==
    ASSUME AccountsTypeOK, Alone, NEW c \in Client, NEW op \in {"phone", "qq", "password"},
           NEW i \in Identity, NEW step \in {"byPhone", "draw", "create", "bind", "token"},
           NEW u \in UserId \cup {NoOne}, Enters(c, op, i, step, u),
           UNCHANGED <<users, registered>>, overlapped \subseteq overlapped',
           \/ lastId' = lastId /\ step # "create"
           \/ lastId' = lastId + 1 /\ u = lastId + 1
    PROVE  Alone'
<1> DEFINE r == [op |-> op, of |-> i, at |-> step, user |-> u]
<1>1. r \in Request /\ r.op # "register" /\ r.at = step /\ r.user = u
  BY DEF Request
<1>2. serving' = [serving EXCEPT ![c] = r]
  BY DEF Enters
<1> HIDE DEF r
<1>3. Later
  BY <1>1, <1>2, UndrawnIsLater, DrawnIsLater
<1>4. ~Registering(c)'
  BY <1>1, <1>2 DEF Registering, AccountsTypeOK
<1> QED
  BY <1>1, <1>2, <1>3, <1>4, AloneStep

LEMMA PhoneLoginAlone ==
    ASSUME AccountsInv, Alone, NEW c \in Client, NEW q \in Phone, PhoneLogin(c, q)
    PROVE  Alone'
<1> USE DEF AccountsInv
<1>1. PICK step \in {"token", "byPhone"}, u \in UserId \cup {NoOne} : Enters(c, "phone", q, step, u)
  <2>1. \A cr \in Bound("phone", q) : cr.user \in UserId
    BY DEF Bound, AccountsTypeOK, Credential
  <2> QED
    BY <2>1 DEF PhoneLogin
<1>2. /\ UNCHANGED <<users, registered, lastId>> /\ overlapped \subseteq overlapped'
      /\ q \in Identity
  BY DEF PhoneLogin, tables, histories, Identity
<1> QED
  BY <1>1, <1>2, OtherRequestAlone

LEMMA OtherLoginsAlone ==
    ASSUME AccountsInv, Alone, NEW c \in Client,
           \/ \E q \in OpenId : QQLogin(c, q)
           \/ \E a \in Account : PasswordLogin(c, a)
           \/ ByPhone(c)
    PROVE  Alone'
<1> USE DEF AccountsInv
<1>1. UNCHANGED <<users, registered, overlapped, lastId>>
  BY DEF QQLogin, PasswordLogin, ByPhone, tables, histories
<1>2. \A cr \in credentials : cr.user \in UserId
  BY DEF AccountsTypeOK, Credential
<1>3. \A v \in users : v.id \in UserId
  BY DEF AccountsTypeOK, Row
<1>4. ASSUME NEW q \in OpenId, QQLogin(c, q) PROVE Alone'
  <2>1. PICK step \in {"token", "draw"}, u \in UserId \cup {NoOne} : Enters(c, "qq", q, step, u)
    BY <1>2, <1>4 DEF QQLogin, Bound
  <2>2. q \in Identity
    BY DEF Identity
  <2> QED
    BY <1>1, <2>1, <2>2, OtherRequestAlone
<1>5. ASSUME NEW a \in Account, PasswordLogin(c, a) PROVE Alone'
  <2>1. PICK step \in {"token", "bind"}, u \in UserId : Enters(c, "password", a, step, u)
    BY <1>3, <1>5 DEF PasswordLogin
  <2>2. a \in Identity
    BY DEF Identity
  <2> QED
    BY <1>1, <2>1, <2>2, OtherRequestAlone
<1>6. ASSUME ByPhone(c) PROVE Alone'
  <2> DEFINE i == serving[c].of
             rows == {u \in users : u.phone = i}
  <2>1. i \in Identity
    BY <1>6, RequestOrNot DEF ByPhone, Request
  <2>2. First(rows) \in UserId \cup {NoOne} /\ GetByPhone(i) = First(rows)
    BY FirstRow DEF GetByPhone
  <2>3. PICK step \in {"draw", "bind"} : Enters(c, "phone", i, step, GetByPhone(i))
    BY <1>6 DEF ByPhone
  <2> QED
    BY <1>1, <2>1, <2>2, <2>3, OtherRequestAlone
<1> QED
  BY <1>4, <1>5, <1>6

\* A Register that goes on has found nobody.
LEMMA RegisterAlone ==
    ASSUME AccountsInv, Alone, NEW c \in Client, NEW a \in Account, Register(c, a)
    PROVE  Alone'
<1> USE DEF AccountsInv
<1> DEFINE r == [op |-> "register", of |-> a, at |-> "draw", user |-> NoOne]
           rows == {v \in users : a \in v.names}
<1>1. /\ UNCHANGED <<users, registered, lastId>> /\ overlapped \subseteq overlapped'
      /\ serving' = [serving EXCEPT ![c] = r]
  BY DEF Register, tables, histories, Enters
<1>2. r \in Request /\ r.of = a /\ r.at = "draw"
  BY DEF Request, Identity
<1> HIDE DEF r
<1>3. First(rows) = NoOne
  BY DEF Register, GetByAccount
<1>4. rows = {}
  BY <1>3, FirstRow
<1>5. Nobody(r.of)'
  BY <1>1, <1>2, <1>4 DEF Nobody
<1>6. AtStep(c, "draw")'
  BY <1>1, <1>2 DEF AtStep, AccountsTypeOK
<1>7. Later
  BY <1>1, <1>2, UndrawnIsLater
<1> QED
  BY <1>1, <1>2, <1>5, <1>6, <1>7, AloneStep

\* No user has the name, and when a Register that nobody overlaps draws its
\* number, none but its own is about to be made.
LEMMA DrawIdAlone ==
    ASSUME AccountsInv, Alone, NEW c \in Client, DrawId(c)
    PROVE  Alone'
<1> USE AccountsAssumption DEF AccountsInv
<1>1. PICK u, a, op : u = lastId + 1 /\ a = serving[c].of /\ op = serving[c].op
  OBVIOUS
<1> DEFINE r == [op |-> op, of |-> a, at |-> "create", user |-> u]
<1>2. ~Idle(c) /\ serving[c] \in Request /\ serving[c].at = "draw" /\ Sound(serving[c])
  BY RequestOrNot DEF DrawId, AtStep, Serves
<1>3. /\ UNCHANGED <<users, registered>> /\ overlapped \subseteq overlapped'
      /\ lastId' = lastId + 1 /\ u \in UserId
      /\ op \in {"phone", "qq", "register"} /\ a \in Identity
  BY <1>1, <1>2, DrawsId DEF DrawId, tables, histories, Draws, Request, Sound
<1>4. Enters(c, op, a, "create", u)
  BY <1>1 DEF DrawId
<1>5. CASE op # "register"
  BY <1>1, <1>3, <1>4, <1>5, OtherRequestAlone
<1>6. CASE op = "register"
  <2>1. r \in Request /\ r.of = a /\ r.user = u /\ r.at = "create" /\ r.op = op
    BY <1>3 DEF Request
  <2>2. serving' = [serving EXCEPT ![c] = r]
    BY <1>4 DEF Enters
  <2> HIDE DEF r
  <2>3. Later
    BY <1>1, <1>3, <2>1, <2>2, DrawnIsLater
  <2>4. serving'[c] = r /\ \A d \in Client \ {c} : serving'[d] = serving[d]
    BY <2>2 DEF AccountsTypeOK
  <2>5. ASSUME a \notin overlapped' PROVE Clear(a, u)'
    <3>1. Nobody(a)
      <4>1. Registering(c) /\ AtStep(c, "draw")
        BY <1>1, <1>2, <1>3, <1>6, <2>5 DEF Registering, AtStep
      <4> QED
        BY <1>1, <4>1 DEF Alone
    <3>2. ASSUME NEW d \in Client, AtStep(d, "create")' PROVE d = c
      <4>1. d # c => AtStep(d, "create")
        BY <2>4, <3>2 DEF AtStep
      <4>2. ~AtStep(d, "create")
        BY <1>1, <1>6, <2>5 DEF DrawId
      <4> QED
        BY <4>1, <4>2
    <3>3. u \in 1 .. lastId' /\ \A d \in Client : AtStep(d, "create")' => u <= serving'[d].user
      BY <1>1, <1>3, <2>1, <2>4, <3>2 DEF UserId
    <3> QED
      BY <1>3, <3>1, <3>3 DEF Clear, Nobody
  <2>6. AtStep(c, "create")' /\ ~AtStep(c, "draw")'
    BY <2>1, <2>4 DEF AtStep
  <2>7. Registering(c)' => Clear(r.of, r.user)'
    <3>1. Registering(c)' => a \notin overlapped'
      BY <2>1, <2>4 DEF Registering
    <3>2. Clear(r.of, r.user)' <=> Clear(a, u)'
      BY <2>1
    <3> QED
      BY <2>5, <3>1, <3>2
  <2> QED
    BY <1>3, <2>1, <2>2, <2>3, <2>6, <2>7, AloneStep
<1> QED
  BY <1>3, <1>5, <1>6

LEMMA RowsMade ==
    ASSUME NEW r \in Request, Sound(r), r.at = "create", NEW u \in NewRow(r)
    PROVE  u.id = r.user /\ (r.op = "register" => r.of \in u.names)
BY DEF NewRow

\* The row of its request is added.
Made(c) == AtStep(c, "create") /\ Inserts(c)

\* A request goes on to its next step, or ends; the user it was about to make
\* may have been made.
LEMMA GoesOnAlone ==
    ASSUME AccountsInv, Alone, NEW c \in Client, ~Idle(c),
           Answers(c) \/ \E step \in {"bind", "token"} : Goes(c, step),
           ~AtStep(c, "draw") \/ Answers(c),
           ~Answers(c) /\ AtStep(c, "create") => Made(c),
           UNCHANGED lastId, UNCHANGED <<users, overlapped>> \/ Made(c),
           \A ru \in registered' \ registered :
               /\ Registering(c) \/ ru[1] \in overlapped
               /\ serving[c].at \notin {"draw", "create"} /\ ru[1] = serving[c].of /\ ru[2] = serving[c].user
    PROVE  Alone'
<1> USE DEF AccountsInv
<1>1. serving[c] \in Request /\ Sound(serving[c])
  BY RequestOrNot DEF Serves
<1>2. PICK r \in Request \cup {NoRequest} :
         /\ serving' = [serving EXCEPT ![c] = r] /\ r.at \notin {"draw", "create"}
         /\ r # NoRequest => /\ r.op = serving[c].op /\ r.of = serving[c].of
                             /\ r.user = serving[c].user /\ ~AtStep(c, "draw")
                             /\ AtStep(c, "create") => Made(c)
  <2>1. CASE Answers(c)
    BY <2>1 DEF Answers, NoRequest
  <2>2. ASSUME NEW step \in {"bind", "token"}, Goes(c, step), ~Answers(c)
        PROVE  \E r \in Request :
                 /\ serving' = [serving EXCEPT ![c] = r] /\ r.at \in {"bind", "token"}
                 /\ r.op = serving[c].op /\ r.of = serving[c].of /\ r.user = serving[c].user
    BY <2>2, GoesTo
  <2> QED
    BY <2>1, <2>2
<1>3. /\ users \subseteq users' /\ overlapped \subseteq overlapped'
      /\ \A v \in users' \ users : /\ AtStep(c, "create") /\ v.id = serving[c].user
                                /\ LookedUp(v.names) \subseteq overlapped'
      /\ Made(c) /\ serving[c].op = "register" =>
           \E v \in users' : v.id = serving[c].user /\ serving[c].of \in v.names
  BY <1>1, RowsMade DEF AtStep, Made, Inserts
<1>4. Later
  BY <1>2, <1>3, UndrawnIsLater
<1>5. PICK a, u : a = serving[c].of /\ u = serving[c].user
  OBVIOUS
<1>6. ASSUME Registering(c), ~AtStep(c, "draw")
      PROVE  /\ Clear(a, u)'
             /\ ~AtStep(c, "create") \/ Made(c) => There(a, u)'
  <2>1. Clear(a, u) /\ (AtStep(c, "create") \/ There(a, u))
    BY <1>5, <1>6 DEF Alone
  <2>2. Clear(a, u)' /\ (There(a, u) => There(a, u)')
    BY <2>1, <1>4, ClearStays
  <2>3. Made(c) => There(a, u)'
    BY <1>3, <1>5, <1>6, <2>2 DEF Registering, There
  <2> QED
    BY <2>1, <2>2, <2>3
<1>7. ASSUME NEW ru \in registered' \ registered, ru[1] \notin overlapped'
      PROVE  Clear(ru[1], ru[2])' /\ There(ru[1], ru[2])'
  <2>1. Registering(c) /\ ru[1] = a /\ ru[2] = u /\ ~AtStep(c, "create") /\ ~AtStep(c, "draw")
    BY <1>3, <1>5, <1>7 DEF AtStep
  <2> QED
    BY <1>6, <2>1
<1>8. Registering(c)' => ~AtStep(c, "draw")' /\ Clear(r.of, r.user)' /\ There(r.of, r.user)'
  <2> SUFFICES ASSUME Registering(c)'
               PROVE  ~AtStep(c, "draw")' /\ Clear(r.of, r.user)' /\ There(r.of, r.user)'
    OBVIOUS
  <2>1. serving'[c] = r
    BY <1>2 DEF AccountsTypeOK
  <2>2. r # NoRequest /\ r.op = "register" /\ r.of \notin overlapped
    BY <1>3, <2>1 DEF Registering, Idle
  <2>3. /\ Registering(c) /\ ~AtStep(c, "draw") /\ r.of = a /\ r.user = u
        /\ AtStep(c, "create") => Made(c)
    BY <1>2, <1>5, <2>2 DEF Registering
  <2>4. ~AtStep(c, "draw")'
    BY <1>2, <2>1 DEF AtStep
  <2> QED
    BY <1>6, <2>3, <2>4
<1> QED
  BY <1>2, <1>3, <1>4, <1>7, <1>8, AloneStep

LEMMA AloneNext == RegistersInv /\ [AccountsNext]_accountVars => RegistersInv'
<1> SUFFICES ASSUME AccountsInv, Alone, [AccountsNext]_accountVars PROVE RegistersInv'
  BY DEF RegistersInv
<1> USE DEF AccountsInv
<1>1. AccountsInv'
  BY AccountsStep
<1>2. CASE UNCHANGED accountVars
  BY <1>1, <1>2 DEF accountVars, RegistersInv, Alone, Clear, There, Nobody, Registering, AtStep, Idle
<1>3. ASSUME NEW c \in Client, CreateUser(c) PROVE Alone'
  <2>1. /\ ~AtStep(c, "draw") /\ ~Idle(c) /\ Made(c) /\ Goes(c, "bind")
        /\ UNCHANGED <<lastId, registered>>
    BY <1>3, RequestOrNot DEF CreateUser, Made, histories, AtStep
  <2> QED
    BY <2>1, GoesOnAlone
<1>4. ASSUME NEW c \in Client, CreateUserAuth(c) PROVE Alone'
  <2>1. /\ ~AtStep(c, "draw") /\ ~AtStep(c, "create")
        /\ ~Idle(c) /\ (Answers(c) \/ Goes(c, "token"))
        /\ UNCHANGED <<users, lastId, registered, overlapped>>
    BY <1>4, RequestOrNot DEF CreateUserAuth, BindFails, AtStep, histories
  <2> QED
    BY <2>1, GoesOnAlone
<1>5. ASSUME NEW c \in Client, IssueToken(c) PROVE Alone'
  <2>1. /\ serving[c].at \notin {"draw", "create"} /\ ~Idle(c) /\ Answers(c)
        /\ UNCHANGED <<users, lastId, overlapped>>
    BY <1>5, RequestOrNot DEF IssueToken, AtStep, tables
  <2>2. \A ru \in registered' \ registered :
           /\ serving[c].op = "register"
           /\ ru[1] = serving[c].of /\ ru[2] = serving[c].user
    BY <1>5 DEF IssueToken
  <2>3. \A ru \in registered' \ registered : Registering(c) \/ ru[1] \in overlapped
    BY <2>1, <2>2 DEF Registering
  <2> QED
    BY <2>1, <2>2, <2>3, GoesOnAlone
<1>6. ASSUME NEW c \in Client, Miss(c) PROVE Alone'
  <2>1. /\ ~Idle(c) /\ Answers(c) /\ UNCHANGED <<lastId, registered>>
        /\ UNCHANGED <<users, overlapped>> \/ Made(c)
    BY <1>6 DEF Miss, Made, histories, tables
  <2> QED
    BY <2>1, GoesOnAlone
<1>7. CASE AccountsNext
  <2>1. Alone'
    BY <1>3, <1>4, <1>5, <1>6, <1>7, PhoneLoginAlone, OtherLoginsAlone, RegisterAlone,
       DrawIdAlone DEF AccountsNext
  <2> QED
    BY <1>1, <2>1 DEF RegistersInv
<1> QED
  BY <1>2, <1>7

(***************************************************************************)
(* Who was registered under an account stays the one a password login      *)
(* under it finds, whatever requests come later or are cut off, if when    *)
(* Register drew its identifier no other request had drawn one and not     *)
(* inserted its user, and nobody inserted a user with that name between    *)
(* its look-up and that draw (sys_user.go:95-112).                         *)
(***************************************************************************)
THEOREM RegisteredAloneLogsIn == AccountsSpec => []RegisteredLogsIn
<1>1. AccountsInit => RegistersInv
  <2>1. AccountsInit => Alone
    BY DEF AccountsInit, Alone, Registering, Idle
  <2> QED
    BY <2>1, AccountsInitInv DEF RegistersInv
<1>2. ASSUME RegistersInv PROVE RegisteredLogsIn
  BY <1>2, FoundByAccount DEF RegistersInv, AccountsInv, Alone, RegisteredLogsIn
<1> QED
  BY <1>1, <1>2, AloneNext, PTL DEF AccountsSpec
=============================================================================
