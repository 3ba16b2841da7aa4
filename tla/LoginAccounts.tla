---------------------------- MODULE LoginAccounts ----------------------------
(***************************************************************************)
(* Accounts: how a phone number, a QQ identity or an account name becomes  *)
(* a user.  Handlers run side by side; each database call is a step, and   *)
(* may fail with or without effect.  The tables have the unique indexes    *)
(* their models declare: of credentials (sys_user_auth) by type and        *)
(* identifier and by user and type; none on users.  Passwords, codes and   *)
(* tokens are right, and nobody registers a phone number as an account.    *)
(***************************************************************************)
EXTENDS Integers, FiniteSets, FiniteSetsExt

CONSTANTS
    Client,       \* goroutines that serve requests
    Phone,        \* phone numbers
    OpenId,       \* QQ identities
    Account,      \* account names
    NoOne,        \* no phone, no user
    MaxUsers,     \* bound: user ids 1 .. MaxUsers, in the order they are drawn
    MaxMisses     \* bound: requests cut off by an error or by a crash

ASSUME AccountsAssumption ==
    /\ NoOne \notin Phone /\ NoOne \notin Nat
    /\ MaxUsers \in Nat \ {0} /\ MaxMisses \in Nat
    /\ Phone \cap OpenId = {} /\ Phone \cap Account = {} /\ OpenId \cap Account = {}

VARIABLES
    users,        \* the rows of sys_user
    credentials,  \* the rows of sys_user_auth
    lastId,       \* the last id drawn
    serving,      \* what a goroutine serves and the step it does next
    reached,      \* history: the users an identity was logged in as
    registered,   \* history: the users Register created, with their account
    overlapped,   \* history: phones with two logins at a time, and accounts
                  \* registered while another user was being made (DrawId, Inserts)
    misses

accountVars ==
    <<users, credentials, lastId, serving, reached, registered, overlapped, misses>>

UserId == 1 .. MaxUsers
Identity == Phone \cup OpenId \cup Account
Kind == {"phone", "qq", "password"}

\* "names": what GetByAccount finds the row by; "legacy": it has a password of
\* the time before sys_user_auth; "by": the request that made it.
Row == [id : UserId, names : SUBSET (Account \cup Phone), phone : Phone \cup {NoOne},
        legacy : BOOLEAN, by : {"phone", "qq", "register", "before"}]
Credential == [user : UserId, kind : Kind, of : Identity]
Request == [op : {"phone", "qq", "register", "password"}, of : Identity,
            at : {"byPhone", "draw", "create", "bind", "token"}, user : UserId \cup {NoOne}]
NoRequest == [at |-> "idle"]

AccountsTypeOK ==
    /\ users \subseteq Row
    /\ credentials \subseteq Credential
    /\ lastId \in 0 .. MaxUsers
    /\ serving \in [Client -> Request \cup {NoRequest}]
    /\ reached \in [Identity -> SUBSET UserId]
    /\ registered \subseteq Account \X UserId
    /\ overlapped \subseteq Phone \cup Account
    /\ misses \in 0 .. MaxMisses

\* The system may have a user of the time before sys_user_auth.
AccountsInit ==
    /\ \/ users = {} /\ lastId = 0
       \/ \E a \in Account :
             users = {[id |-> 1, names |-> {a}, phone |-> NoOne, legacy |-> TRUE, by |-> "before"]}
          /\ lastId = 1
    /\ credentials = {}
    /\ serving = [c \in Client |-> NoRequest]
    /\ reached = [i \in Identity |-> {}]
    /\ registered = {}
    /\ overlapped = {}
    /\ misses = 0

Idle(c) == serving[c] = NoRequest
AtStep(c, step) == serving[c].at = step

\* First orders by the primary key.
First(rows) == IF rows = {} THEN NoOne ELSE Min({u.id : u \in rows})
GetByAccount(a) == First({u \in users : a \in u.names})
GetByPhone(p) == First({u \in users : u.phone = p})
Bound(kind, i) == {cr \in credentials : cr.kind = kind /\ cr.of = i}

Goes(c, step) == serving' = [serving EXCEPT ![c].at = step]
Answers(c) == serving' = [serving EXCEPT ![c] = NoRequest]
Enters(c, op, i, step, u) ==
    serving' = [serving EXCEPT ![c] = [op |-> op, of |-> i, at |-> step, user |-> u]]
Draws == lastId < MaxUsers /\ lastId' = lastId + 1

tables == <<users, credentials>>
histories == <<reached, registered>>

-----------------------------------------------------------------------------
\* A login of an identity that is bound already goes straight to its user.
PhoneLogin(c, p) ==
    /\ Idle(c)
    /\ IF Bound("phone", p) # {}
       THEN \E cr \in Bound("phone", p) : Enters(c, "phone", p, "token", cr.user)
       ELSE Enters(c, "phone", p, "byPhone", NoOne)
    /\ overlapped' =
         overlapped \cup {q \in {p} : \E d \in Client : ~Idle(d) /\ serving[d].of = p}
    /\ UNCHANGED <<tables, lastId, histories, misses>>

ByPhone_Forgets(c) ==
    /\ AtStep(c, "byPhone")
    /\ IF GetByPhone(serving[c].of) # NoOne THEN Enters(c, "phone", serving[c].of, "bind", NoOne)
       ELSE Enters(c, "phone", serving[c].of, "draw", NoOne)
    /\ UNCHANGED <<tables, lastId, histories, overlapped, misses>>

ByPhone_Skipped(c) ==
    /\ AtStep(c, "byPhone")
    /\ Enters(c, "phone", serving[c].of, "draw", NoOne)
    /\ UNCHANGED <<tables, lastId, histories, overlapped, misses>>

ByPhone(c) ==
    /\ AtStep(c, "byPhone")
    /\ LET u == GetByPhone(serving[c].of) IN
       Enters(c, "phone", serving[c].of, IF u = NoOne THEN "draw" ELSE "bind", u)
    /\ UNCHANGED <<tables, lastId, histories, overlapped, misses>>

QQLogin(c, q) ==
    /\ Idle(c)
    /\ IF Bound("qq", q) # {}
       THEN \E cr \in Bound("qq", q) : Enters(c, "qq", q, "token", cr.user)
       ELSE Enters(c, "qq", q, "draw", NoOne)
    /\ UNCHANGED <<tables, lastId, histories, overlapped, misses>>

Register_Unchecked(c, a) ==
    /\ Idle(c)
    /\ Enters(c, "register", a, "draw", NoOne)
    /\ UNCHANGED <<tables, lastId, histories, overlapped, misses>>

Register(c, a) ==
    /\ Idle(c) /\ GetByAccount(a) = NoOne
    /\ Enters(c, "register", a, "draw", NoOne)
    /\ UNCHANGED <<tables, lastId, histories, overlapped, misses>>

\* The identifier of the new user, some calls after the look-up.  A Register
\* overlaps the requests that have drawn theirs and not inserted its user.
DrawId(c) ==
    /\ AtStep(c, "draw")
    /\ Draws
    /\ Enters(c, serving[c].op, serving[c].of, "create", lastId + 1)
    /\ overlapped' =
         overlapped \cup {a \in {serving[c].of} :
             serving[c].op = "register" /\ \E d \in Client : AtStep(d, "create")}
    /\ UNCHANGED <<tables, histories, misses>>

\* The password of the user GetByAccount finds: in its credential, or in its
\* row, and then the login makes the credential.
PasswordLogin(c, a) ==
    /\ Idle(c)
    /\ \E u \in users :
          /\ u.id = GetByAccount(a)
          /\ \/ /\ \E cr \in credentials : cr.user = u.id /\ cr.kind = "password"
                /\ Enters(c, "password", a, "token", u.id)
             \/ /\ u.legacy
                /\ \A cr \in credentials : ~(cr.user = u.id /\ cr.kind = "password")
                /\ Enters(c, "password", a, "bind", u.id)
    /\ UNCHANGED <<tables, lastId, histories, overlapped, misses>>

\* The row of a new user: the phone's (whose name is made from its digits),
\* QQ's (whose nickname may be any name) or the one registered (with any phone
\* and email).
NewRow(r) ==
    {[id |-> r.user, names |-> ns, phone |-> p, legacy |-> FALSE, by |-> r.op] :
        ns \in CASE r.op = "register" -> {{r.of, e} : e \in Account}
                 [] r.op = "qq" -> {{}} \cup {{a} : a \in Account}
                 [] OTHER -> {{r.of}} \cup {{r.of, a} : a \in Account},
        p \in CASE r.op = "phone" -> {r.of}
                [] r.op = "qq" -> {NoOne}
                [] OTHER -> Phone \cup {NoOne}}

\* The names a Register has looked up and drawn no identifier for yet.
LookedUp(names) ==
    {a \in names : \E d \in Client :
        AtStep(d, "draw") /\ serving[d].op = "register" /\ serving[d].of = a}

Inserts(c) ==
    \E u \in NewRow(serving[c]) :
        users' = users \cup {u} /\ overlapped' = overlapped \cup LookedUp(u.names)

CreateUser(c) ==
    /\ AtStep(c, "create")
    /\ Inserts(c)
    /\ Goes(c, "bind")
    /\ UNCHANGED <<credentials, lastId, histories, misses>>

NewCredential(r) ==
    [user |-> r.user, kind |-> IF r.op = "register" THEN "password" ELSE r.op, of |-> r.of]

\* What the unique indexes refuse.
Taken(cr) ==
    \E other \in credentials :
        other.kind = cr.kind /\ (other.of = cr.of \/ other.user = cr.user)

BindFails_Logged(c) == Goes(c, "token")

\* Only the migration of a legacy password survives it.
BindFails(c) ==
    IF serving[c].op = "password" THEN Goes(c, "token") ELSE Answers(c)

\* UpsertPasswordAuth of a login finds the credential another login has made
\* since, unless it looked before that.
Updates(c, cr) ==
    LET own == {o \in credentials : o.user = cr.user /\ o.kind = cr.kind} IN
    /\ serving[c].op = "password" /\ own # {}
    /\ \A other \in credentials \ own : other.kind = cr.kind => other.of # cr.of
    /\ credentials' = (credentials \ own) \cup {cr}

CreateUserAuth(c) ==
    /\ AtStep(c, "bind")
    /\ LET cr == NewCredential(serving[c]) IN
       \/ ~Taken(cr) /\ credentials' = credentials \cup {cr} /\ Goes(c, "token")
       \/ Updates(c, cr) /\ Goes(c, "token")
       \/ Taken(cr) /\ BindFails(c) /\ UNCHANGED credentials
    /\ UNCHANGED <<users, lastId, histories, overlapped, misses>>

IssueToken(c) ==
    /\ AtStep(c, "token")
    /\ LET r == serving[c] IN
       /\ reached' = [reached EXCEPT ![r.of] = @ \cup {r.user}]
       /\ registered' = IF r.op = "register" THEN registered \cup {<<r.of, r.user>>}
                        ELSE registered
    /\ Answers(c)
    /\ UNCHANGED <<tables, lastId, overlapped, misses>>

\* An error, or the end of the process: the request is over, its write may be
\* in the database.
Miss(c) ==
    /\ ~Idle(c) /\ misses < MaxMisses
    /\ misses' = misses + 1
    /\ Answers(c)
    /\ UNCHANGED <<lastId, histories>>
    /\ \/ UNCHANGED <<tables, overlapped>>
       \/ AtStep(c, "create") /\ UNCHANGED credentials /\ Inserts(c)
       \/ /\ AtStep(c, "bind") /\ UNCHANGED <<users, overlapped>>
          /\ ~Taken(NewCredential(serving[c]))
          /\ credentials' = credentials \cup {NewCredential(serving[c])}

AccountsNext ==
    \E c \in Client :
        \/ \E p \in Phone : PhoneLogin(c, p)
        \/ \E q \in OpenId : QQLogin(c, q)
        \/ \E a \in Account : Register(c, a) \/ PasswordLogin(c, a)
        \/ ByPhone(c) \/ DrawId(c) \/ CreateUser(c) \/ CreateUserAuth(c) \/ IssueToken(c) \/ Miss(c)

AccountsSpec == AccountsInit /\ [][AccountsNext]_accountVars

-----------------------------------------------------------------------------
(***************************************************************************)
(* Whoever logs in with one phone or one QQ identity, however often and at *)
(* the same time, is always logged in as the same user, although each      *)
(* request reads and writes the tables on its own (a late duplicate user   *)
(* is created, and its login refused).                                     *)
(***************************************************************************)
SameUser == \A i \in Phone \cup OpenId : Cardinality(reached[i]) <= 1

(***************************************************************************)
(* A phone login that failed after it created its user is continued by the *)
(* next one: the logins of one phone make one user, unless two of them ran *)
(* at the same time.                                                       *)
(***************************************************************************)
OneUserPerPhone ==
    \A p \in Phone \ overlapped :
        Cardinality({u \in users : u.phone = p /\ u.by = "phone"}) <= 1

(***************************************************************************)
(* sys_user.go:87: Register makes an account and its password.  So who     *)
(* was registered is whom a password login under that account finds,       *)
(* whatever users with that name come later.  The exceptions are the two   *)
(* ways another creation may overlap it: when Register drew its            *)
(* identifier, another request had drawn one and not inserted its user     *)
(* yet; or between its look-up (:95) and that draw (:112), a user with     *)
(* that name was inserted.                                                 *)
(***************************************************************************)
RegisteredLogsIn ==
    \A ru \in registered : ru[1] \in overlapped \/ GetByAccount(ru[1]) = ru[2]
=============================================================================
