----------------------------- MODULE AccountsProofs -----------------------------
(***************************************************************************)
(* Proofs about Accounts, for any users, ASNs, Telegram accounts, tokens   *)
(* and requests.  IInv says what a login has established at each of its    *)
(* steps, which no other request takes back: users and audit rows stay,    *)
(* and a challenge keeps its owner while a request holds its token.  The   *)
(* action properties follow from it, one action at a time.                 *)
(***************************************************************************)
EXTENDS Accounts, FiniteSetTheorems, TLAPS

Login == {"consume", "lookup", "upsert", "insert", "identity", "bind", "link"}

\* What job j has established at its step, as users u, audit rows a and challenges c say.
JobOK(j, u, a, c) ==
  /\ j.step = "consume" <=> j.token # None
  /\ j.step \in Login => j.asn \in Asn
  /\ j.step = "consume" => c[j.token] # None /\ c[j.token].owner = j.prover
  /\ j.step \in Login \ {"consume"} => j.prover = j.who
  /\ j.step \in {"upsert", "identity", "bind", "link"} =>
       j.user \in User /\ u[j.user] # None /\ u[j.user].asn = j.asn
  /\ j.step \in {"bind", "link"} => j.who \in Telegram /\ j.user \in a
  /\ j.step = "toggle" => j.user \in User /\ u[j.user] # None

OK(j) == JobOK(j, user, audited, challenge)

OKNext(j) == JobOK(j, user', audited', challenge')

JobInv == \A r \in Request : request[r] # None => OK(request[r])

\* An unused challenge was never consumed since it was issued.
ChallengeInv ==
  \A k \in Token : challenge[k] # None /\ ~challenge[k].used => spent[k] = 0

Unique ==
  \A u, v \in User :
    user[u] # None /\ user[v] # None /\ user[u].asn = user[v].asn => u = v

IInv == TypeOK /\ JobInv /\ ChallengeInv /\ Unique /\ LinkIsProved

\* A job with the user and the flag that a look-up found.
LEMMA Found ==
  ASSUME NEW j \in Job, NEW u \in User, NEW b \in BOOLEAN
  PROVE  [j EXCEPT !.step = "upsert", !.user = u, !.admin = b] \in Job
<1> DEFINE k == [j EXCEPT !.step = "upsert", !.user = u]
<1>1. k \in Job
  BY DEF Job
<1> HIDE DEF k
<1>2. [k EXCEPT !.admin = b] \in Job
  BY <1>1 DEF Job
<1> QED
  BY <1>2 DEF k

\* A job at the audit row of the user that it has inserted.
LEMMA Inserted ==
  ASSUME NEW j \in Job, NEW u \in User
  PROVE  LET n == [j EXCEPT !.step = "identity", !.user = u] IN
           /\ n \in Job /\ n.step = "identity" /\ n.token = j.token
           /\ n.user = u /\ n.asn = j.asn /\ n.prover = j.prover /\ n.who = j.who
<1> DEFINE k == [j EXCEPT !.step = "identity"]
           n == [j EXCEPT !.step = "identity", !.user = u]
<1>1. k \in Job
  BY DEF Job
<1>2. n = [k EXCEPT !.user = u]
  OBVIOUS
<1> HIDE DEF k
<1>3. n \in Job
  BY <1>1, <1>2 DEF Job
<1>4. /\ n.step = "identity" /\ n.token = j.token
      /\ n.user = u /\ n.asn = j.asn /\ n.prover = j.prover /\ n.who = j.who
  BY DEF Job
<1> QED
  BY <1>3, <1>4

\* A job at the audit row of the user that it has brought up to date.
LEMMA Updated ==
  ASSUME NEW j \in Job
  PROVE  LET n == [j EXCEPT !.step = "identity", !.admin = FALSE] IN
           /\ n \in Job /\ n.step = "identity" /\ n.token = j.token
           /\ n.user = j.user /\ n.asn = j.asn /\ n.prover = j.prover /\ n.who = j.who
<1> DEFINE k == [j EXCEPT !.step = "identity"]
           n == [j EXCEPT !.step = "identity", !.admin = FALSE]
<1>1. k \in Job
  BY DEF Job
<1>2. n = [k EXCEPT !.admin = FALSE]
  OBVIOUS
<1> HIDE DEF k
<1>3. n \in Job
  BY <1>1, <1>2 DEF Job
<1>4. /\ n.step = "identity" /\ n.token = j.token
      /\ n.user = j.user /\ n.asn = j.asn /\ n.prover = j.prover /\ n.who = j.who
  BY DEF Job
<1> QED
  BY <1>3, <1>4

\* A job that has loaded the link of its account.
LEMMA Loaded ==
  ASSUME NEW j \in Job, NEW l \in User \union {None}
  PROVE  LET n == [j EXCEPT !.step = "link", !.link = l] IN
           /\ n \in Job /\ n.step = "link" /\ n.token = j.token
           /\ n.user = j.user /\ n.asn = j.asn /\ n.prover = j.prover /\ n.who = j.who
<1> DEFINE k == [j EXCEPT !.step = "link"]
           n == [j EXCEPT !.step = "link", !.link = l]
<1>1. k \in Job
  BY DEF Job
<1>2. n = [k EXCEPT !.link = l]
  OBVIOUS
<1> HIDE DEF k
<1>3. n \in Job
  BY <1>1, <1>2 DEF Job
<1>4. /\ n.step = "link" /\ n.token = j.token
      /\ n.user = j.user /\ n.asn = j.asn /\ n.prover = j.prover /\ n.who = j.who
  BY DEF Job
<1> QED
  BY <1>3, <1>4

USE LocalAssumption, NoneAssumption, NoRecord DEF vars

-----------------------------------------------------------------------------
LEMMA Records ==
  /\ \A a \in Account : a # None
  /\ \A l \in Link : l # None
  /\ \A c \in Challenge : c # None
  /\ \A j \in Job : j # None
OBVIOUS

\* The types, in groups.
UserTypes ==
  /\ user \in [User -> Account \union {None}]
  /\ audited \subseteq {u \in User : user[u] # None}

LinkTypes == link \in [Telegram -> Link \union {None}]

ChallengeTypes ==
  /\ challenge \in [Token -> Challenge \union {None}]
  /\ spent \in [Token -> Nat]

RequestTypes == request \in [Request -> Job \union {None}]

LEMMA Types ==
  /\ TypeOK <=> UserTypes /\ LinkTypes /\ ChallengeTypes /\ RequestTypes
  /\ TypeOK' <=> UserTypes' /\ LinkTypes' /\ ChallengeTypes' /\ RequestTypes'
BY DEF TypeOK, UserTypes, LinkTypes, ChallengeTypes, RequestTypes

\* Users stay, with their ASN, and so do audit rows.
UsersKept ==
  /\ \A u \in User : user[u] # None => user'[u] # None /\ user'[u].asn = user[u].asn
  /\ audited \subseteq audited'

\* What a request has established stays true while another one works on the users.
LEMMA JobKept ==
  ASSUME UsersKept, NEW j \in Job, OK(j),
         j.token # None => challenge'[j.token] # None
                           /\ challenge'[j.token].owner = challenge[j.token].owner
  PROVE  OKNext(j)
BY DEF UsersKept, OK, OKNext, JobOK, Login

\* One request goes on without a challenge, or ends.
LEMMA RequestStep ==
  ASSUME IInv, UsersKept, UNCHANGED <<challenge, spent>>,
         NEW r \in Request, NEW j \in Job \union {None},
         j # None => OKNext(j) /\ j.token = None,
         request' = [request EXCEPT ![r] = j]
  PROVE  RequestTypes' /\ JobInv' /\ ChallengeTypes' /\ ChallengeInv'
<1>0. RequestTypes /\ ChallengeTypes
  BY Types DEF IInv
<1>1. request'[r] = j /\ \A s \in Request \ {r} : request'[s] = request[s]
  BY <1>0 DEF RequestTypes
<1>2. RequestTypes' /\ ChallengeTypes'
  BY <1>0 DEF RequestTypes, ChallengeTypes
<1>3. JobInv'
  <2> SUFFICES ASSUME NEW s \in Request, request'[s] # None PROVE OKNext(request'[s])
    BY DEF JobInv, OK, OKNext
  <2>1. CASE s = r
    BY <1>1, <2>1
  <2>2. CASE s # r
    <3>1. request[s] \in Job /\ OK(request[s])
      BY <1>0, <1>1, <2>2 DEF RequestTypes, JobInv, IInv
    <3>2. OK(request[s]) /\ challenge' = challenge
      BY <3>1
    <3>3. request[s].token # None => challenge[request[s].token] # None
      BY <3>2 DEF OK, JobOK
    <3> QED
      BY <1>1, <2>2, <3>1, <3>2, <3>3, JobKept
  <2> QED
    BY <2>1, <2>2
<1>4. ChallengeInv'
  BY DEF ChallengeInv, IInv
<1> QED
  BY <1>2, <1>3, <1>4

\* Links, where an action leaves them alone.
LEMMA LinksKept ==
  ASSUME IInv, UsersKept, UNCHANGED link
  PROVE  LinkTypes' /\ LinkIsProved'
<1>1. link \in [Telegram -> Link \union {None}]
  BY DEF IInv, TypeOK
<1>2. \A t \in Telegram : link[t] # None => link[t].user \in User
  BY <1>1 DEF Link
<1>3. ASSUME NEW t \in Telegram, link'[t] # None
      PROVE  /\ link'[t].prover = t
             /\ link'[t].user \in audited' /\ user'[link'[t].user].asn = link'[t].asn
  <2>1. link[t] # None /\ link'[t] = link[t]
    BY <1>3
  <2>2. /\ link[t].prover = t /\ link[t].user \in audited
        /\ user[link[t].user].asn = link[t].asn
    BY <2>1 DEF IInv, LinkIsProved
  <2>3. user[link[t].user] # None
    BY <2>2 DEF IInv, TypeOK
  <2> QED
    BY <1>2, <2>1, <2>2, <2>3 DEF UsersKept
<1> QED
  BY <1>1, <1>3 DEF LinkTypes, LinkIsProved

LEMMA UsersStay ==
  ASSUME IInv, UNCHANGED <<user, audited>>
  PROVE  UsersKept /\ UserTypes' /\ Unique'
BY Types DEF UsersKept, UserTypes, Unique, IInv

LEMMA InitIInv == Init => IInv
<1> SUFFICES ASSUME Init PROVE IInv
  OBVIOUS
<1>1. UserTypes /\ LinkTypes /\ RequestTypes
  BY DEF Init, UserTypes, LinkTypes, RequestTypes
<1>2. ChallengeTypes
  BY DEF Init, ChallengeTypes
<1>3. JobInv /\ Unique /\ LinkIsProved
  BY DEF Init, JobInv, Unique, LinkIsProved
<1>4. ChallengeInv
  BY DEF Init, ChallengeInv
<1> QED
  BY <1>1, <1>2, <1>3, <1>4, Types DEF IInv

-----------------------------------------------------------------------------
(* Steps that only read: logins that begin, queries, requests that end. *)

LEMMA RequestOnly ==
  ASSUME IInv, UNCHANGED <<user, audited, link, challenge, spent>>,
         NEW r \in Request, NEW j \in Job \union {None},
         j # None => OK(j) /\ j.token = None,
         request' = [request EXCEPT ![r] = j]
  PROVE  IInv'
<1>1. j # None => OKNext(j)
  BY DEF OK, OKNext
<1> QED
  BY <1>1, RequestStep, UsersStay, LinksKept, Types DEF IInv

LEMMA FindNocBeginStep ==
  ASSUME IInv, NEW r \in Request, NEW t \in Telegram, NEW a \in Asn, FindNocBegin(r, t, a)
  PROVE  IInv'
<1> DEFINE j == [Idle EXCEPT !.who = t, !.asn = a, !.prover = t]
<1>1. /\ j \in Job /\ j.step = "lookup" /\ j.token = None
      /\ j.asn = a /\ j.who = t /\ j.prover = t
  BY DEF Idle, Job
<1>2. request' = [request EXCEPT ![r] = j]
  BY DEF FindNocBegin
<1> HIDE DEF j
<1>3. OK(j)
  BY <1>1 DEF OK, JobOK, Login
<1> QED
  BY <1>1, <1>2, <1>3, RequestOnly DEF FindNocBegin

LEMMA LookupStep ==
  ASSUME IInv, NEW r \in Request, Lookup(r)
  PROVE  IInv'
<1> DEFINE j == request[r]
<1>1. j \in Job /\ OK(j) /\ j.step = "lookup" /\ j.token = None
  BY Types DEF IInv, Lookup, RequestTypes, JobInv, OK, JobOK
<1>2. j.asn \in Asn /\ j.prover = j.who
  BY <1>1 DEF OK, JobOK, Login
<1>3. RequestTypes /\ UserTypes
  BY Types DEF IInv
<1>4. CASE request' = [request EXCEPT ![r].step = "insert"]
  <2> DEFINE n == [j EXCEPT !.step = "insert"]
  <2>1. /\ n \in Job /\ n.step = "insert" /\ n.token = None
        /\ n.asn = j.asn /\ n.prover = j.who /\ n.who = j.who
    BY <1>1, <1>2 DEF Job
  <2>2. request' = [request EXCEPT ![r] = n]
    BY <1>4
  <2> HIDE DEF n
  <2>3. OK(n)
    BY <1>2, <2>1 DEF OK, JobOK, Login
  <2> QED
    BY <2>1, <2>2, <2>3, RequestOnly DEF Lookup
<1>5. ASSUME NEW u \in UserOf(j.asn),
             request' = [request EXCEPT ![r].step = "upsert", ![r].user = u,
                                         ![r].admin = user[u].admin]
      PROVE  IInv'
  <2> DEFINE admin == user[u].admin
             n == [j EXCEPT !.step = "upsert", !.user = u, !.admin = admin]
  <2>1. u \in User /\ user[u] \in Account /\ user[u] # None /\ user[u].asn = j.asn
    BY <1>3 DEF UserOf, UserTypes
  <2>5. admin \in BOOLEAN
    BY <2>1 DEF Account
  <2>2. /\ n \in Job /\ n.step = "upsert" /\ n.token = None /\ n.user = u
        /\ n.asn = j.asn /\ n.prover = j.who /\ n.who = j.who
    <3>1. u \in User
      BY <2>1
    <3> HIDE DEF admin, j
    <3>2. n \in Job
      BY <1>1, <2>5, <3>1, Found
    <3>3. /\ n.step = "upsert" /\ n.token = None /\ n.user = u
          /\ n.asn = j.asn /\ n.prover = j.who /\ n.who = j.who
      BY <1>1, <1>2 DEF Job
    <3> QED
      BY <3>2, <3>3
  <2>3. request' = [request EXCEPT ![r] = n]
    BY <1>3, <1>5 DEF RequestTypes
  <2> HIDE DEF n
  <2>4. OK(n)
    BY <1>2, <2>1, <2>2 DEF OK, JobOK, Login
  <2> QED
    BY <2>2, <2>3, <2>4, RequestOnly DEF Lookup
<1> QED
  BY <1>4, <1>5 DEF Lookup

LEMMA BindStep ==
  ASSUME IInv, NEW r \in Request, Bind(r)
  PROVE  IInv'
<1> DEFINE j == request[r]
           l == IF link[j.who] # None THEN link[j.who].user ELSE None
           n == [j EXCEPT !.step = "link", !.link = l]
<1>1. j \in Job /\ OK(j) /\ j.step = "bind"
  BY Types DEF IInv, Bind, RequestTypes, JobInv
<1>2. /\ j.token = None /\ j.who \in Telegram /\ j.asn \in Asn /\ j.prover = j.who
      /\ j.user \in audited /\ j.user \in User /\ user[j.user] # None /\ user[j.user].asn = j.asn
  BY <1>1 DEF OK, JobOK, Login
<1>3. l \in User \union {None}
  BY <1>2, Types DEF IInv, LinkTypes, Link
<1> HIDE DEF l, j, n
<1>4. /\ n \in Job /\ n.step = "link" /\ n.token = None /\ n.who = j.who /\ n.user = j.user
      /\ n.asn = j.asn /\ n.prover = j.who
  BY <1>1, <1>2, <1>3, Loaded DEF n
<1>5. request' = [request EXCEPT ![r] = n]
  BY DEF Bind, l, j, n
<1>6. OK(n)
  BY <1>2, <1>4 DEF OK, JobOK, Login
<1> QED
  BY <1>4, <1>5, <1>6, RequestOnly DEF Bind

LEMMA AdminBeginStep ==
  ASSUME IInv, NEW r \in Request, NEW u \in User, Toggle(r, u) \/ Unlink(r, u)
  PROVE  IInv'
<1>1. CASE Toggle(r, u)
  <2> DEFINE j == [Idle EXCEPT !.step = "toggle", !.user = u, !.admin = user[u].admin]
  <2>1. user[u] \in Account /\ user[u] # None
    BY <1>1, Types DEF IInv, UserTypes, Toggle
  <2>2. j \in Job /\ j.step = "toggle" /\ j.token = None /\ j.user = u
    BY <2>1 DEF Idle, Job, Account
  <2>3. request' = [request EXCEPT ![r] = j]
    BY <1>1 DEF Toggle
  <2> HIDE DEF j
  <2>4. OK(j)
    BY <2>1, <2>2 DEF OK, JobOK, Login
  <2> QED
    BY <1>1, <2>2, <2>3, <2>4, RequestOnly DEF Toggle
<1>2. CASE Unlink(r, u)
  <2> DEFINE todo == {t \in Telegram : link[t] # None /\ link[t].user = u}
             j == [Idle EXCEPT !.step = "unlink", !.todo = todo]
  <2>1. todo \in SUBSET Telegram
    OBVIOUS
  <2>2. request' = [request EXCEPT ![r] = j]
    BY <1>2 DEF Unlink
  <2> HIDE DEF todo
  <2>3. j \in Job /\ j.step = "unlink" /\ j.token = None
    BY <2>1 DEF Idle, Job
  <2> HIDE DEF j
  <2>4. OK(j)
    BY <2>3 DEF OK, JobOK, Login
  <2> QED
    BY <1>2, <2>2, <2>3, <2>4, RequestOnly DEF Unlink
<1> QED
  BY <1>1, <1>2

LEMMA FailsStep ==
  ASSUME IInv, NEW r \in Request, Fails(r)
  PROVE  IInv'
BY RequestOnly DEF Fails

-----------------------------------------------------------------------------
(* Steps that write users and audit rows. *)

\* A new row for an ASN that has none, with the flag that LOCAL_ASN gives it.
LEMMA NewUser ==
  ASSUME IInv, NEW a \in Asn, NEW u \in User, UserOf(a) = {}, user[u] = None,
         user' = [user EXCEPT ![u] = [asn |-> a, admin |-> Derived(a)]],
         audited \subseteq audited', audited' \subseteq audited \union {u}
  PROVE  /\ UserTypes' /\ UsersKept /\ Unique'
         /\ user'[u] # None /\ user'[u].asn = a
<1> DEFINE row == [asn |-> a, admin |-> Derived(a)]
<1>1. row \in Account /\ row.asn = a /\ row.admin = Derived(a)
  BY DEF Account, Derived
<1>2. UserTypes
  BY Types DEF IInv
<1> HIDE DEF row
<1>3. user' = [user EXCEPT ![u] = row]
  BY DEF row
<1>4. user'[u] = row /\ \A v \in User \ {u} : user'[v] = user[v]
  BY <1>2, <1>3 DEF UserTypes
<1>5. UserTypes'
  BY <1>1, <1>2, <1>3, <1>4, Records DEF UserTypes
<1>6. UsersKept
  BY <1>4 DEF UsersKept
<1>7. \A v \in User : user[v] # None => user[v].asn # a
  BY DEF UserOf
<1>8. Unique'
  BY <1>1, <1>4, <1>7 DEF Unique, IInv
<1> QED
  BY <1>1, <1>4, <1>5, <1>6, <1>8, Records

\* The flag of a row is set to b.
LEMMA FlagSet ==
  ASSUME IInv, NEW u \in User, user[u] # None, NEW b \in BOOLEAN,
         user' = [user EXCEPT ![u].admin = b], UNCHANGED audited
  PROVE  /\ user' \in [User -> Account \union {None}] /\ UsersKept /\ Unique'
         /\ audited' \subseteq {v \in User : user'[v] # None}
         /\ user'[u].admin = b /\ user'[u].asn = user[u].asn
         /\ \A v \in User \ {u} : user'[v] = user[v]
<1> DEFINE row == [user[u] EXCEPT !.admin = b]
<1>1. UserTypes
  BY Types DEF IInv
<1>2. row \in Account /\ row.asn = user[u].asn /\ row.admin = b
  BY <1>1 DEF UserTypes, Account
<1> HIDE DEF row
<1>3. user' = [user EXCEPT ![u] = row]
  BY DEF row
<1>4. user'[u] = row /\ \A v \in User \ {u} : user'[v] = user[v]
  BY <1>1, <1>3 DEF UserTypes
<1>5. user' \in [User -> Account \union {None}]
  BY <1>1, <1>2, <1>3 DEF UserTypes
<1>6. UsersKept
  BY <1>2, <1>4, Records DEF UsersKept
<1>7. Unique'
  BY <1>2, <1>4 DEF Unique, IInv
<1>8. audited' \subseteq {v \in User : user'[v] # None}
  BY <1>1, <1>6 DEF UsersKept, UserTypes
<1> QED
  BY <1>2, <1>4, <1>5, <1>6, <1>7, <1>8

LEMMA InsertStep ==
  ASSUME IInv, NEW r \in Request, Insert(r)
  PROVE  IInv'
<1> DEFINE j == request[r]
<1>1. j \in Job /\ OK(j) /\ j.step = "insert"
  BY Types DEF IInv, Insert, RequestTypes, JobInv
<1>2. j.token = None /\ j.asn \in Asn /\ j.prover = j.who /\ UserOf(j.asn) = {}
  BY <1>1 DEF OK, JobOK, Login, Insert
<1>3. PICK u \in User :
        /\ user[u] = None
        /\ user' = [user EXCEPT ![u] = [asn |-> j.asn, admin |-> Derived(j.asn)]]
        /\ request' = [request EXCEPT ![r].step = "identity", ![r].user = u]
  BY DEF Insert
<1> DEFINE n == [j EXCEPT !.step = "identity", !.user = u]
<1>4. request' = [request EXCEPT ![r] = n]
  BY <1>3, Types DEF IInv, RequestTypes
<1>5. UNCHANGED <<audited, link, challenge, spent>>
  BY DEF Insert
<1> HIDE DEF j, n
<1>6. /\ n \in Job /\ n.step = "identity" /\ n.token = None /\ n.user = u
      /\ n.asn = j.asn /\ n.prover = j.who /\ n.who = j.who
  BY <1>1, <1>2, Inserted DEF n
<1>7. UserTypes' /\ UsersKept /\ Unique'
      /\ user'[u] # None /\ user'[u].asn = j.asn
  BY <1>2, <1>3, <1>5, NewUser
<1>8. OKNext(n)
  BY <1>2, <1>6, <1>7 DEF OKNext, JobOK, Login
<1> QED
  BY <1>4, <1>5, <1>6, <1>7, <1>8, RequestStep, LinksKept, Types DEF IInv

LEMMA UpsertStep ==
  ASSUME IInv, NEW r \in Request, Upsert(r)
  PROVE  IInv'
<1> DEFINE j == request[r]
           n == [j EXCEPT !.step = "identity", !.admin = FALSE]
           b == Derived(j.asn)
<1>0. UserTypes /\ RequestTypes
  BY Types DEF IInv
<1>1. j \in Job /\ OK(j) /\ j.step = "upsert"
  BY Types DEF IInv, Upsert, RequestTypes, JobInv
<1>2. /\ j.token = None /\ j.asn \in Asn /\ j.prover = j.who
      /\ j.user \in User /\ user[j.user] # None /\ user[j.user].asn = j.asn
  BY <1>1 DEF OK, JobOK, Login
<1>3. /\ user' = user \/ user' = [user EXCEPT ![j.user].admin = b]
      /\ UNCHANGED <<audited, link, challenge, spent>>
      /\ request' = [request EXCEPT ![r] = n]
  BY <1>0 DEF Upsert, RequestTypes
<1>4. b \in BOOLEAN
  BY DEF Derived
<1> HIDE DEF j, n, b
<1>5. /\ n \in Job /\ n.step = "identity" /\ n.token = None /\ n.user = j.user
      /\ n.asn = j.asn /\ n.prover = j.who /\ n.who = j.who
  BY <1>1, <1>2, Updated DEF n
<1>6. UserTypes' /\ UsersKept /\ Unique'
  <2>1. CASE user' = user
    BY <1>3, <2>1, UsersStay
  <2>2. CASE user' = [user EXCEPT ![j.user].admin = b]
    BY <1>2, <1>3, <1>4, <2>2, FlagSet DEF UserTypes
  <2> QED
    BY <1>3, <2>1, <2>2
<1>7. OKNext(n)
  BY <1>2, <1>5, <1>6 DEF OKNext, JobOK, Login, UsersKept
<1> QED
  BY <1>3, <1>5, <1>6, <1>7, RequestStep, LinksKept, Types DEF IInv

LEMMA SaveToggleStep ==
  ASSUME IInv, NEW r \in Request, SaveToggle(r)
  PROVE  IInv'
<1> DEFINE u == request[r].user
           b == ~request[r].admin
<1>0. UserTypes /\ RequestTypes
  BY Types DEF IInv
<1>1. request[r] \in Job /\ OK(request[r]) /\ request[r].step = "toggle"
  BY <1>0 DEF IInv, SaveToggle, RequestTypes, JobInv
<1>2. u \in User /\ user[u] # None /\ b \in BOOLEAN
  BY <1>1 DEF OK, JobOK
<1>3. /\ user' = [user EXCEPT ![u].admin = b]
      /\ request' = [request EXCEPT ![r] = None]
      /\ UNCHANGED <<audited, link, challenge, spent>>
  BY DEF SaveToggle
<1> HIDE DEF u, b
<1>4. /\ user' \in [User -> Account \union {None}] /\ UsersKept /\ Unique'
      /\ audited' \subseteq {v \in User : user'[v] # None}
      /\ \A v \in User \ {u} : user'[v] = user[v]
  BY <1>2, <1>3, FlagSet
<1>5. UserTypes'
  BY <1>0, <1>2, <1>3, <1>4 DEF UserTypes
<1> QED
  BY <1>3, <1>4, <1>5, RequestStep, LinksKept, Types DEF IInv

\* Nobody's request moves.
LEMMA OthersGoOn ==
  ASSUME IInv, UsersKept, UNCHANGED <<challenge, spent, request>>
  PROVE  RequestTypes' /\ JobInv' /\ ChallengeTypes' /\ ChallengeInv'
<1>0. RequestTypes /\ ChallengeTypes
  BY Types DEF IInv
<1>1. ASSUME NEW r \in Request, request[r] # None PROVE OKNext(request[r])
  <2>1. request[r] \in Job /\ OK(request[r])
    BY <1>0, <1>1 DEF RequestTypes, JobInv, IInv
  <2>2. request[r].token # None => challenge[request[r].token] # None
    BY <2>1 DEF OK, JobOK
  <2> QED
    BY <2>1, <2>2, JobKept
<1>2. JobInv'
  BY <1>1 DEF JobInv, OK, OKNext
<1>3. ChallengeInv'
  BY DEF ChallengeInv, IInv
<1> QED
  BY <1>0, <1>2, <1>3 DEF RequestTypes, ChallengeTypes

LEMMA PreRegisterStep ==
  ASSUME IInv, NEW a \in Asn, PreRegister(a)
  PROVE  IInv'
<1>1. PICK u \in User :
        /\ user[u] = None
        /\ user' = [user EXCEPT ![u] = [asn |-> a, admin |-> Derived(a)]]
        /\ audited' = audited \union {u}
  BY DEF PreRegister
<1>2. UserOf(a) = {} /\ UNCHANGED <<link, challenge, request, spent>>
  BY DEF PreRegister
<1>3. UserTypes' /\ UsersKept /\ Unique'
  BY <1>1, <1>2, NewUser
<1> QED
  BY <1>2, <1>3, OthersGoOn, LinksKept, Types DEF IInv

LEMMA IdentityStep ==
  ASSUME IInv, NEW r \in Request, Identity(r)
  PROVE  IInv'
<1> DEFINE j == request[r]
           n == [j EXCEPT !.step = "bind"]
<1>0. UserTypes /\ RequestTypes
  BY Types DEF IInv
<1>1. j \in Job /\ OK(j) /\ j.step = "identity"
  BY <1>0 DEF IInv, Identity, RequestTypes, JobInv
<1>2. /\ j.token = None /\ j.asn \in Asn /\ j.prover = j.who
      /\ j.user \in User /\ user[j.user] # None /\ user[j.user].asn = j.asn
  BY <1>1 DEF OK, JobOK, Login
<1>3. /\ audited' = audited \union {j.user}
      /\ UNCHANGED <<user, link, challenge, spent>>
      /\ request' = [request EXCEPT ![r] = IF j.who = None THEN None ELSE n]
  BY DEF Identity
<1> HIDE DEF j
<1>4. UsersKept /\ UserTypes' /\ Unique'
  BY <1>0, <1>2, <1>3 DEF UsersKept, UserTypes, Unique, IInv
<1>5. CASE j.who = None
  BY <1>3, <1>4, <1>5, RequestStep, LinksKept, Types DEF IInv
<1>6. CASE j.who # None
  <2>1. /\ n \in Job /\ n.step = "bind" /\ n.token = None /\ n.user = j.user
        /\ n.asn = j.asn /\ n.prover = j.who /\ n.who = j.who /\ j.who \in Telegram
    BY <1>1, <1>2, <1>6 DEF Job
  <2>2. request' = [request EXCEPT ![r] = n]
    BY <1>3, <1>6
  <2> HIDE DEF n
  <2>3. OKNext(n)
    BY <1>2, <1>3, <2>1 DEF OKNext, JobOK, Login
  <2> QED
    BY <1>3, <1>4, <2>1, <2>2, <2>3, RequestStep, LinksKept, Types DEF IInv
<1> QED
  BY <1>5, <1>6

-----------------------------------------------------------------------------
(* Steps that write links. *)

\* A link goes, and the request that took it away goes on or ends.
LEMMA LinkGone ==
  ASSUME IInv, NEW t \in Telegram, link' = [link EXCEPT ![t] = None]
  PROVE  LinkTypes' /\ (UNCHANGED <<user, audited>> => LinkIsProved')
<1>1. LinkTypes
  BY Types DEF IInv
<1>2. link'[t] = None /\ \A s \in Telegram \ {t} : link'[s] = link[s]
  BY <1>1 DEF LinkTypes
<1> QED
  BY <1>1, <1>2 DEF LinkTypes, LinkIsProved, IInv

LEMMA LogoutStep ==
  ASSUME IInv, NEW t \in Telegram, Logout(t)
  PROVE  IInv'
<1>1. UsersKept /\ UserTypes' /\ Unique'
  BY UsersStay DEF Logout
<1> QED
  BY <1>1, LinkGone, OthersGoOn, Types DEF Logout, IInv

LEMMA UnlinkOneStep ==
  ASSUME IInv, NEW r \in Request, NEW t \in Telegram, UnlinkOne(r, t)
  PROVE  IInv'
<1> DEFINE j == request[r]
           n == [j EXCEPT !.todo = @ \ {t}]
<1>0. RequestTypes
  BY Types DEF IInv
<1>1. j \in Job /\ OK(j)
  BY <1>0 DEF IInv, UnlinkOne, RequestTypes, JobInv
<1>2. link' = [link EXCEPT ![t] = None]
      /\ UNCHANGED <<user, audited, challenge, spent>>
  BY DEF UnlinkOne
<1>3. request' = [request EXCEPT ![r] = None] \/ request' = [request EXCEPT ![r] = n]
  BY DEF UnlinkOne
<1>4. j.step = "unlink" /\ j.token = None
  BY <1>1 DEF UnlinkOne, OK, JobOK
<1> HIDE DEF j
<1>5. n \in Job /\ n.step = "unlink" /\ n.token = None
  BY <1>1, <1>4 DEF Job
<1> HIDE DEF n
<1>6. OKNext(n)
  BY <1>5 DEF OKNext, JobOK, Login
<1>7. UsersKept /\ UserTypes' /\ Unique'
  BY <1>2, UsersStay
<1>8. RequestTypes' /\ JobInv' /\ ChallengeTypes' /\ ChallengeInv'
  <2>1. CASE request' = [request EXCEPT ![r] = None]
    BY <1>2, <1>7, <2>1, RequestStep
  <2>2. CASE request' = [request EXCEPT ![r] = n]
    BY <1>2, <1>5, <1>6, <1>7, <2>2, RequestStep
  <2> QED
    BY <1>3, <2>1, <2>2
<1> QED
  BY <1>2, <1>7, <1>8, LinkGone, Types DEF IInv

LEMMA LinkRowStep ==
  ASSUME IInv, NEW r \in Request, LinkRow(r)
  PROVE  IInv'
<1> DEFINE j == request[r]
           row == [user |-> j.user, prover |-> j.prover, asn |-> j.asn]
<1>0. RequestTypes /\ LinkTypes
  BY Types DEF IInv
<1>1. j \in Job /\ OK(j) /\ j.step = "link"
  BY <1>0 DEF IInv, LinkRow, RequestTypes, JobInv
<1>2. /\ j.who \in Telegram /\ j.asn \in Asn /\ j.prover = j.who
      /\ j.user \in audited /\ j.user \in User /\ user[j.user].asn = j.asn
  BY <1>1 DEF OK, JobOK, Login
<1>3. /\ link' = link \/ link' = [link EXCEPT ![j.who] = row]
      /\ request' = [request EXCEPT ![r] = None]
      /\ UNCHANGED <<user, audited, challenge, spent>>
  BY DEF LinkRow
<1> HIDE DEF j
<1>4. row \in Link /\ row.user = j.user /\ row.prover = j.who /\ row.asn = j.asn
  BY <1>2 DEF Link
<1> HIDE DEF row
<1>5. UsersKept /\ UserTypes' /\ Unique'
  BY <1>3, UsersStay
<1>6. RequestTypes' /\ JobInv' /\ ChallengeTypes' /\ ChallengeInv'
  BY <1>3, <1>5, RequestStep
<1>7. LinkTypes' /\ LinkIsProved'
  <2>1. CASE link' = link
    BY <1>5, <2>1, LinksKept
  <2>2. CASE link' = [link EXCEPT ![j.who] = row]
    <3>1. link'[j.who] = row /\ \A t \in Telegram \ {j.who} : link'[t] = link[t]
      BY <1>0, <1>2, <2>2 DEF LinkTypes
    <3>2. LinkTypes'
      BY <1>0, <1>4, <2>2 DEF LinkTypes
    <3>3. LinkIsProved'
      BY <1>2, <1>3, <1>4, <3>1 DEF LinkIsProved, IInv
    <3> QED
      BY <3>2, <3>3
  <2> QED
    BY <1>3, <2>1, <2>2
<1> QED
  BY <1>5, <1>6, <1>7, Types DEF IInv

-----------------------------------------------------------------------------
(* Challenges. *)

\* Users and links, of which challenges know nothing.
LEMMA ChallengeStep ==
  ASSUME IInv, UNCHANGED <<user, audited, link>>,
         RequestTypes' /\ JobInv' /\ ChallengeTypes' /\ ChallengeInv'
  PROVE  IInv'
BY UsersStay, LinksKept, Types DEF IInv

\* Requests that stay find what they have established of the challenges they hold.
LEMMA HoldersKept ==
  ASSUME IInv, UNCHANGED <<user, audited>>,
         \A k \in Token : Held(k) /\ challenge[k] # None =>
           challenge'[k] # None /\ challenge'[k].owner = challenge[k].owner
  PROVE  \A r \in Request : request[r] # None => OKNext(request[r])
<1> SUFFICES ASSUME NEW r \in Request, request[r] # None PROVE OKNext(request[r])
  OBVIOUS
<1>1. request[r] \in Job /\ OK(request[r])
  BY Types DEF IInv, RequestTypes, JobInv
<1>2. request[r].token # None =>
        request[r].token \in Token /\ Held(request[r].token) /\ challenge[request[r].token] # None
  BY <1>1 DEF OK, JobOK, Job, Held
<1> QED
  BY <1>1, <1>2, JobKept DEF UsersKept

LEMMA IssueStep ==
  ASSUME IInv, NEW k \in Token, NEW purpose \in {"web", "telegram"},
         NEW owner \in Telegram \union {None}, Issue(k, purpose, owner)
  PROVE  IInv'
<1> DEFINE c == [purpose |-> purpose, owner |-> owner, used |-> FALSE, expired |-> FALSE]
<1>0. RequestTypes /\ ChallengeTypes
  BY Types DEF IInv
<1>1. ~Held(k) /\ challenge' = [challenge EXCEPT ![k] = c] /\ spent' = [spent EXCEPT ![k] = 0]
      /\ UNCHANGED <<user, audited, link, request>>
  BY DEF Issue
<1>2. c \in Challenge /\ ~c.used
  BY DEF Challenge
<1> HIDE DEF c
<1>3. /\ challenge'[k] = c /\ spent'[k] = 0
      /\ \A l \in Token \ {k} : challenge'[l] = challenge[l] /\ spent'[l] = spent[l]
  BY <1>0, <1>1 DEF ChallengeTypes
<1>4. RequestTypes' /\ ChallengeTypes'
  BY <1>0, <1>1, <1>2 DEF RequestTypes, ChallengeTypes
<1>5. JobInv'
  BY <1>1, <1>3, HoldersKept DEF JobInv, OK, OKNext
<1>6. ChallengeInv'
  BY <1>3 DEF ChallengeInv, IInv
<1> QED
  BY <1>1, <1>4, <1>5, <1>6, ChallengeStep

LEMMA ExpireStep ==
  ASSUME IInv, NEW k \in Token, Expire(k)
  PROVE  IInv'
<1> DEFINE c == [challenge[k] EXCEPT !.expired = TRUE]
<1>0. RequestTypes /\ ChallengeTypes
  BY Types DEF IInv
<1>1. challenge[k] \in Challenge /\ challenge' = [challenge EXCEPT ![k] = c]
      /\ UNCHANGED <<user, audited, link, request, spent>>
  BY <1>0 DEF Expire, ChallengeTypes
<1>2. c \in Challenge /\ c.used = challenge[k].used /\ c.owner = challenge[k].owner /\ c # None
  BY <1>1 DEF Challenge
<1> HIDE DEF c
<1>3. challenge'[k] = c /\ \A l \in Token \ {k} : challenge'[l] = challenge[l]
  BY <1>0, <1>1 DEF ChallengeTypes
<1>4. RequestTypes' /\ ChallengeTypes'
  BY <1>0, <1>1, <1>2 DEF RequestTypes, ChallengeTypes
<1>5. JobInv'
  BY <1>1, <1>2, <1>3, HoldersKept DEF JobInv, OK, OKNext
<1>6. \A l \in Token : /\ challenge'[l] # None <=> challenge[l] # None
                       /\ challenge[l] # None => challenge'[l].used = challenge[l].used
  BY <1>1, <1>2, <1>3, Records
<1>7. ChallengeInv'
  BY <1>1, <1>6 DEF ChallengeInv, IInv
<1> QED
  BY <1>1, <1>4, <1>5, <1>7, ChallengeStep

LEMMA ReadChallengeStep ==
  ASSUME IInv, NEW r \in Request, NEW who \in Telegram \union {None}, NEW e \in Envelope,
         NEW purpose \in {"web", "telegram"}, ReadChallenge(r, who, e, purpose)
  PROVE  IInv'
<1> DEFINE c == challenge[e.token]
           j == [Idle EXCEPT !.step = "consume", !.who = who, !.token = e.token, !.asn = e.asn,
                             !.prover = c.owner]
<1>0. RequestTypes /\ ChallengeTypes
  BY Types DEF IInv
<1>1. e.token \in Token /\ e.asn \in Asn
  BY DEF Envelope
<1>2. /\ request[r] = None /\ c # None /\ ~c.used
      /\ request' = [request EXCEPT ![r] = j]
      /\ UNCHANGED <<user, audited, link, challenge, spent>>
  BY DEF ReadChallenge
<1>3. c.owner \in Telegram \union {None}
  BY <1>0, <1>1, <1>2 DEF ChallengeTypes, Challenge
<1> HIDE DEF c
<1>4. j \in Job /\ j.step = "consume" /\ j.token = e.token /\ j.asn = e.asn /\ j.prover = c.owner
  BY <1>1, <1>3 DEF Idle, Job
<1> HIDE DEF j
<1>5. j # None
  BY <1>4, Records
<1>6. request'[r] = j /\ \A s \in Request \ {r} : request'[s] = request[s]
  BY <1>0, <1>2 DEF RequestTypes
<1>7. RequestTypes' /\ ChallengeTypes'
  BY <1>0, <1>1, <1>2, <1>4 DEF RequestTypes, ChallengeTypes
<1>8. OKNext(j)
  BY <1>1, <1>2, <1>4 DEF OKNext, JobOK, Login, c
<1>9. JobInv'
  <2>1. \A s \in Request : request[s] # None => OKNext(request[s])
    BY <1>2, HoldersKept
  <2> QED
    BY <1>6, <1>8, <2>1 DEF JobInv, OK, OKNext
<1>10. ChallengeInv'
  BY <1>2 DEF ChallengeInv, IInv
<1> QED
  BY <1>2, <1>7, <1>9, <1>10, ChallengeStep

LEMMA ConsumeStep ==
  ASSUME IInv, NEW r \in Request, Consume(r)
  PROVE  IInv'
<1> DEFINE j == request[r]
           k == j.token
           c == [challenge[k] EXCEPT !.used = TRUE]
           n == [j EXCEPT !.step = "lookup", !.token = None]
<1>0. RequestTypes /\ ChallengeTypes
  BY Types DEF IInv
<1>1. j \in Job /\ OK(j) /\ j.step = "consume"
  BY <1>0 DEF IInv, Consume, RequestTypes, JobInv
<1>2. k \in Token /\ j.asn \in Asn /\ challenge[k] # None /\ challenge[k].owner = j.prover
  BY <1>1 DEF OK, JobOK, Login, Job
<1>4. /\ challenge' = [challenge EXCEPT ![k] = c] /\ spent' = [spent EXCEPT ![k] = @ + 1]
      /\ request' = [request EXCEPT ![r] = IF challenge[k].owner # j.who THEN None ELSE n]
      /\ UNCHANGED <<user, audited, link>>
  BY DEF Consume
<1>5. c \in Challenge /\ c.used /\ c.owner = challenge[k].owner /\ c # None
  <2>1. challenge[k] \in Challenge
    BY <1>0, <1>2 DEF ChallengeTypes
  <2> HIDE DEF k
  <2>2. c \in Challenge /\ c.used /\ c.owner = challenge[k].owner
    BY <2>1 DEF Challenge
  <2> QED
    BY <2>2, Records
<1> HIDE DEF c, j
<1>6. /\ n \in Job /\ n.step = "lookup" /\ n.token = None /\ n.asn = j.asn
      /\ n.prover = j.prover /\ n.who = j.who
  BY <1>1 DEF Job
<1> HIDE DEF k, n
<1>7. /\ challenge'[k] = c /\ spent'[k] = spent[k] + 1
      /\ \A l \in Token \ {k} : challenge'[l] = challenge[l] /\ spent'[l] = spent[l]
  BY <1>0, <1>2, <1>4 DEF ChallengeTypes
<1>8. /\ request'[r] = n \/ request'[r] = None
      /\ request'[r] # None => n.who = n.prover
      /\ \A s \in Request \ {r} : request'[s] = request[s]
  <2>1. request'[r] = IF challenge[k].owner # j.who THEN None ELSE n
    BY <1>0, <1>4 DEF RequestTypes
  <2>2. \A s \in Request \ {r} : request'[s] = request[s]
    BY <1>0, <1>4 DEF RequestTypes
  <2> QED
    BY <1>2, <1>6, <2>1, <2>2
<1>9. RequestTypes' /\ ChallengeTypes'
  BY <1>0, <1>2, <1>4, <1>5, <1>6 DEF RequestTypes, ChallengeTypes
<1>10. n.who = n.prover => OKNext(n)
  BY <1>2, <1>6 DEF OKNext, JobOK, Login
<1>11. JobInv'
  <2>1. \A s \in Request : request[s] # None => OKNext(request[s])
    BY <1>4, <1>5, <1>7, HoldersKept
  <2> QED
    BY <1>8, <1>10, <2>1 DEF JobInv, OK, OKNext
<1>12. ChallengeInv'
  BY <1>5, <1>7 DEF ChallengeInv, IInv
<1> QED
  BY <1>4, <1>9, <1>11, <1>12, ChallengeStep

-----------------------------------------------------------------------------
LEMMA NextIInv == IInv /\ [Next]_vars => IInv'
<1> SUFFICES ASSUME IInv, [Next]_vars PROVE IInv'
  OBVIOUS
<1>1. CASE UNCHANGED vars
  BY <1>1, UsersStay, LinksKept, OthersGoOn, Types DEF IInv
<1>2. ASSUME NEW k \in Token, LoginPage(k) \/ Expire(k) PROVE IInv'
  BY <1>2, IssueStep, ExpireStep DEF LoginPage
<1>3. ASSUME NEW t \in Telegram, Logout(t) PROVE IInv'
  BY <1>3, LogoutStep
<1>4. ASSUME NEW a \in Asn, PreRegister(a) PROVE IInv'
  BY <1>4, PreRegisterStep
<1>5. ASSUME NEW r \in Request, Continue(r) \/ Fails(r) PROVE IInv'
  BY <1>5, ConsumeStep, LookupStep, InsertStep, UpsertStep, IdentityStep, BindStep, LinkRowStep,
     SaveToggleStep, UnlinkOneStep, FailsStep DEF Continue
<1>6. ASSUME NEW r \in Request, NEW u \in User, Toggle(r, u) \/ Unlink(r, u) PROVE IInv'
  BY <1>6, AdminBeginStep
<1>7. ASSUME NEW r \in Request, NEW e \in Envelope, Callback(r, e) PROVE IInv'
  BY <1>7, ReadChallengeStep DEF Callback
<1>8. ASSUME NEW r \in Request, NEW e \in Envelope, NEW t \in Telegram, WebAppData(r, t, e)
      PROVE  IInv'
  BY <1>8, ReadChallengeStep DEF WebAppData
<1>9. ASSUME NEW r \in Request, NEW t \in Telegram, LoginCmd(r, t) PROVE IInv'
  BY <1>9, IssueStep, FindNocBeginStep DEF LoginCmd, KioubitLogin
<1>10. ASSUME NEW r \in Request, NEW t \in Telegram, NEW a \in Asn, Choose(r, t, a) PROVE IInv'
  BY <1>10, FindNocBeginStep DEF Choose
<1>11. CASE Next
  BY <1>2, <1>3, <1>4, <1>5, <1>6, <1>7, <1>8, <1>9, <1>10, <1>11 DEF Next
<1> QED
  BY <1>1, <1>11

LEMMA Inductive == Spec => []IInv
BY InitIInv, NextIInv, PTL DEF Spec

-----------------------------------------------------------------------------
\* Every variable keeps its type; audit rows are of users that exist.
THEOREM TypeCorrect == Spec => []TypeOK
<1>1. IInv => TypeOK
  BY DEF IInv
<1> QED
  BY <1>1, Inductive, PTL

\* Logins and pre-registrations that race leave one users row per ASN (_upsert_user_for_asn,
\* admin_create_peer).
THEOREM AsnsAreUnique == Spec => []OneUserPerAsn
<1>1. IInv => OneUserPerAsn
  <2> SUFFICES ASSUME IInv, NEW a \in Asn PROVE Cardinality(UserOf(a)) <= 1
    BY DEF OneUserPerAsn
  <2>1. CASE UserOf(a) = {}
    BY <2>1, FS_EmptySet
  <2>2. CASE UserOf(a) # {}
    <3>1. PICK u \in User : UserOf(a) = {u}
      BY <2>2 DEF UserOf, Unique, IInv
    <3> QED
      BY <3>1, FS_Singleton
  <2> QED
    BY <2>1, <2>2
<1> QED
  BY <1>1, Inductive, PTL

\* Whatever was read before others changed it, a link leads from an account to the user of an
\* ASN which that account has shown (consume_challenge, bind_telegram).
THEOREM LinksAreProved == Spec => []LinkIsProved
<1>1. IInv => LinkIsProved
  BY DEF IInv
<1> QED
  BY <1>1, Inductive, PTL

\* What is_admin of u says after a step that writes it as LOCAL_ASN says, or not at all.
LEMMA FlagAsDerived ==
  ASSUME NEW u \in User,
         \/ UNCHANGED user
         \/ user'[u] = user[u]
         \/ user'[u] # None /\ user'[u].admin = Derived(user'[u].asn)
  PROVE  Overruled(u)' => Overruled(u)
BY DEF Overruled, Derived

\* The same of a login's commits.
LEMMA LoginFlags ==
  ASSUME IInv, NEW u \in User, NEW r \in Request, Insert(r) \/ Upsert(r)
  PROVE  Overruled(u)' => Overruled(u)
<1> DEFINE j == request[r]
<1>0. UserTypes /\ RequestTypes
  BY Types DEF IInv
<1>1. j \in Job /\ OK(j)
  BY <1>0 DEF Insert, Upsert, RequestTypes, JobInv, IInv
<1>2. CASE Insert(r)
  <2>1. PICK v \in User :
          user' = [user EXCEPT ![v] = [asn |-> j.asn, admin |-> Derived(j.asn)]]
    BY <1>2 DEF Insert
  <2>2. j.asn \in Asn
    BY <1>1, <1>2 DEF Insert, OK, JobOK, Login
  <2> DEFINE row == [asn |-> j.asn, admin |-> Derived(j.asn)]
  <2>3. row \in Account /\ row.admin = Derived(row.asn)
    BY <2>2 DEF Account, Derived
  <2> HIDE DEF row
  <2>4. user'[u] = row \/ user'[u] = user[u]
    BY <1>0, <2>1 DEF UserTypes, row
  <2> QED
    BY <2>3, <2>4, FlagAsDerived, Records
<1>3. CASE Upsert(r)
  <2>1. j.user \in User /\ user[j.user] # None /\ user[j.user].asn = j.asn
    BY <1>1, <1>3 DEF Upsert, OK, JobOK
  <2> DEFINE b == Derived(j.asn)
  <2>2. /\ b \in BOOLEAN /\ UNCHANGED audited
        /\ user' = user \/ user' = [user EXCEPT ![j.user].admin = b]
    BY <1>3 DEF Upsert, Derived
  <2> HIDE DEF j, b
  <2>3. CASE user' = [user EXCEPT ![j.user].admin = b]
    <3>1. /\ UsersKept /\ user'[j.user].admin = b /\ user'[j.user].asn = user[j.user].asn
          /\ \A v \in User \ {j.user} : user'[v] = user[v]
      BY <2>1, <2>2, <2>3, FlagSet
    <3> QED
      BY <2>1, <3>1, FlagAsDerived DEF UsersKept, b
  <2> QED
    BY <2>2, <2>3, FlagAsDerived
<1> QED
  BY <1>2, <1>3

\* The same of a pre-registration.
LEMMA PreRegisterFlags ==
  ASSUME IInv, NEW u \in User, NEW a \in Asn, PreRegister(a)
  PROVE  Overruled(u)' => Overruled(u)
<1> DEFINE row == [asn |-> a, admin |-> Derived(a)]
<1>1. PICK v \in User : user' = [user EXCEPT ![v] = row]
  BY DEF PreRegister
<1>2. row \in Account /\ row.admin = Derived(row.asn)
  BY DEF Account, Derived
<1> HIDE DEF row
<1>3. user'[u] = row \/ user'[u] = user[u]
  BY <1>1, Types DEF IInv, UserTypes
<1> QED
  BY <1>2, <1>3, FlagAsDerived, Records

\* Whatever overlaps, only admin_toggle_user_admin makes is_admin of a user differ from what
\* LOCAL_ASN says of its ASN: no login that loaded the flag earlier brings back what an admin
\* took back (_upsert_user_for_asn).
THEOREM OnlyTogglesDo == Spec => OnlyTogglesOverrule
<1>1. ASSUME IInv, [Next]_vars, NEW u \in User
      PROVE  Overruled(u)' =>
               \/ Overruled(u)
               \/ \E r \in Request : request[r] # None /\ request[r].user = u /\ SaveToggle(r)
  <2>1. CASE UNCHANGED user
    BY <2>1, FlagAsDerived
  <2>2. ASSUME NEW a \in Asn, PreRegister(a) PROVE Overruled(u)' => Overruled(u)
    BY <1>1, <2>2, PreRegisterFlags
  <2>3. ASSUME NEW r \in Request, Insert(r) \/ Upsert(r) PROVE Overruled(u)' => Overruled(u)
    BY <1>1, <2>3, LoginFlags
  <2>4. ASSUME NEW r \in Request, SaveToggle(r), request[r].user # u
        PROVE  Overruled(u)' => Overruled(u)
    <3>1. user'[u] = user[u]
      BY <1>1, <2>4, Types DEF SaveToggle, IInv, UserTypes
    <3> QED
      BY <3>1, FlagAsDerived
  <2>5. \/ UNCHANGED user
        \/ \E a \in Asn : PreRegister(a)
        \/ \E r \in Request : Insert(r) \/ Upsert(r) \/ SaveToggle(r)
    <3>1. CASE UNCHANGED vars
      BY <3>1
    <3>2. CASE Next
      BY <3>2 DEF Next, LoginPage, KioubitLogin, Issue, Expire, Logout, Continue, Fails, Toggle,
         Unlink, Callback, WebAppData, ReadChallenge, LoginCmd, FindNocBegin, Choose, Consume,
         Lookup, Identity, Bind, LinkRow, UnlinkOne
    <3> QED
      BY <1>1, <3>1, <3>2
  <2> QED
    BY <2>1, <2>2, <2>3, <2>4, <2>5 DEF SaveToggle
<1>2. IInv /\ [Next]_vars =>
        [\A u \in User : Overruled(u)' =>
           \/ Overruled(u)
           \/ \E r \in Request : request[r] # None /\ request[r].user = u /\ SaveToggle(r)]_vars
  BY <1>1
<1> QED
  BY <1>2, Inductive, PTL DEF Spec, OnlyTogglesOverrule

\* A request that begins serves no challenge, or one that nothing has consumed
\* (consume_challenge).
THEOREM ReplaysAreRefused == Spec => ReplayIsRefused
<1>1. ASSUME IInv, [Next]_vars, NEW r \in Request, NEW k \in Token,
             request[r] = None, request'[r] # None, request'[r].token = k
      PROVE  spent[k] = 0
  <2>0. RequestTypes
    BY <1>1, Types DEF IInv
  <2>1. ASSUME NEW s \in Request, NEW who, NEW e \in Envelope, NEW purpose,
               ReadChallenge(s, who, e, purpose)
        PROVE  spent[k] = 0
    <3> DEFINE j == [Idle EXCEPT !.step = "consume", !.who = who, !.token = e.token,
                                 !.asn = e.asn, !.prover = challenge[e.token].owner]
    <3>1. request' = [request EXCEPT ![s] = j] /\ j.token = e.token
      BY <2>1 DEF ReadChallenge, Idle
    <3>2. challenge[e.token] # None /\ ~challenge[e.token].used /\ e.token \in Token
      BY <2>1 DEF ReadChallenge, Envelope
    <3> HIDE DEF j
    <3>3. request'[r] = IF r = s THEN j ELSE request[r]
      BY <2>0, <3>1 DEF RequestTypes
    <3>4. k = e.token
      BY <1>1, <3>1, <3>3
    <3> QED
      BY <1>1, <3>2, <3>4 DEF ChallengeInv, IInv
  <2>2. ASSUME NEW s \in Request, NEW t \in Telegram, NEW a \in Asn, FindNocBegin(s, t, a)
        PROVE  FALSE
    <3> DEFINE j == [Idle EXCEPT !.who = t, !.asn = a, !.prover = t]
    <3>1. request' = [request EXCEPT ![s] = j] /\ j.token = None
      BY <2>2 DEF FindNocBegin, Idle
    <3> HIDE DEF j
    <3>2. request'[r] = IF r = s THEN j ELSE request[r]
      BY <2>0, <3>1 DEF RequestTypes
    <3> QED
      BY <1>1, <3>1, <3>2
  <2>3. ASSUME NEW s \in Request, NEW u \in User, Toggle(s, u) \/ Unlink(s, u)
        PROVE  FALSE
    <3> DEFINE i == [Idle EXCEPT !.step = "toggle", !.user = u, !.admin = user[u].admin]
               l == [Idle EXCEPT !.step = "unlink",
                                 !.todo = {t \in Telegram : link[t] # None /\ link[t].user = u}]
    <3>1. i.token = None /\ l.token = None
      BY DEF Idle
    <3>2. request' = [request EXCEPT ![s] = i] \/ request' = [request EXCEPT ![s] = l]
      BY <2>3 DEF Toggle, Unlink
    <3> HIDE DEF i, l
    <3>3. PICK j \in {i, l} : request' = [request EXCEPT ![s] = j] /\ j.token = None
      BY <3>1, <3>2
    <3>4. request'[r] = IF r = s THEN j ELSE request[r]
      BY <2>0, <3>3 DEF RequestTypes
    <3> QED
      BY <1>1, <3>3, <3>4
  <2>4. ASSUME NEW s \in Request, Continue(s) \/ Fails(s) PROVE FALSE
    <3>1. request[s] # None
      BY <2>4 DEF Continue, Fails, Consume, Lookup, Insert, Upsert, Identity, Bind, LinkRow,
         SaveToggle, UnlinkOne
    <3>2. request'[r] = request[r]
      BY <1>1, <2>0, <2>4, <3>1 DEF RequestTypes, Continue, Fails, Consume, Lookup, Insert,
         Upsert, Identity, Bind, LinkRow, SaveToggle, UnlinkOne
    <3> QED
      BY <1>1, <3>2
  <2>5. CASE UNCHANGED request
    BY <1>1, <2>5
  <2> QED
    BY <1>1, <2>1, <2>2, <2>3, <2>4, <2>5 DEF Next, LoginPage, KioubitLogin, Issue, Expire,
       Logout, PreRegister, Callback, WebAppData, LoginCmd, Choose
<1>2. IInv /\ [Next]_vars =>
        [\A r \in Request, k \in Token :
           request[r] = None /\ request'[r] # None /\ request'[r].token = k => spent[k] = 0]_vars
  BY <1>1
<1> QED
  BY <1>2, Inductive, PTL DEF Spec, ReplayIsRefused
=============================================================================
