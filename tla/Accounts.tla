------------------------------- MODULE Accounts -------------------------------
(***************************************************************************)
(* Who is logged in as whom: the tables users, asn_identities,             *)
(* auth_challenges and telegram_bindings (app/db/models.py), written by    *)
(* the login routes of the web and the Telegram bot (app/web/pages.py,     *)
(* app/api/telegram.py, app/auth/service.py) and by the admin pages        *)
(* (app/web/admin.py).                                                     *)
(*                                                                         *)
(* Every request has a thread and a session of its own.  A login commits   *)
(* four times (the challenge, the user, the audit row, the link), and      *)
(* between a query and its commit, and between commits, other requests     *)
(* run.  A session writes the columns that it changed; an INSERT that a    *)
(* unique constraint forbids and an UPDATE of a row that is gone raise.    *)
(* Any request may end early, with an exception or with the backend.       *)
(*                                                                         *)
(* Who proved what is history: an envelope that Kioubit signed for a       *)
(* challenge is the proof of the account that asked for the challenge, and *)
(* what FindNOC says of an account is that account's.                      *)
(***************************************************************************)
EXTENDS FiniteSets, Naturals

CONSTANTS
  User,      \* ids of users rows, which are never deleted
  Asn,
  LocalAsn,  \* LOCAL_ASN
  Telegram,  \* Telegram accounts
  Token,     \* challenge tokens; one is used again when it is dead and nobody holds it
  Request,   \* threads that serve requests
  None

ASSUME LocalAssumption == LocalAsn \in Asn
ASSUME NoneAssumption == None \notin User \union Telegram \union Token \union Asn

VARIABLES
  user,       \* user[u]: the users row, or None
  audited,    \* users with an asn_identities row
  link,       \* link[t]: the telegram_bindings row of t, or None
  challenge,  \* challenge[k]: the auth_challenges row, or None
  request,    \* request[r]: what the thread is doing, or None
  spent       \* spent[k]: how often challenge k was consumed (history)

vars == <<user, audited, link, challenge, request, spent>>

Account == [asn : Asn, admin : BOOLEAN]
Link == [user : User, prover : Telegram \union {None}, asn : Asn]   \* who showed which ASN (history)
Challenge == [purpose : {"web", "telegram"}, owner : Telegram \union {None},
              used : BOOLEAN, expired : BOOLEAN]

\* What a request works on: the account it serves (None: a browser), the token and the ASN
\* it came with, who proved that, and what its session has loaded.
Job == [step : {"consume", "lookup", "upsert", "insert", "identity", "bind", "link", "toggle",
                "unlink"},
        who : Telegram \union {None}, token : Token \union {None}, asn : Asn \union {None},
        prover : Telegram \union {None}, user : User \union {None}, admin : BOOLEAN,
        link : User \union {None}, todo : SUBSET Telegram]

Idle == [step |-> "lookup", who |-> None, token |-> None, asn |-> None, prover |-> None,
         user |-> None, admin |-> FALSE, link |-> None, todo |-> {}]

ASSUME NoRecord == None \notin Account \union Link \union Challenge \union Job

\* The type of every variable.
TypeOK ==
  /\ user \in [User -> Account \union {None}]
  /\ audited \subseteq {u \in User : user[u] # None}
  /\ link \in [Telegram -> Link \union {None}]
  /\ challenge \in [Token -> Challenge \union {None}]
  /\ request \in [Request -> Job \union {None}]
  /\ spent \in [Token -> Nat]

Init ==
  /\ user = [u \in User |-> None]
  /\ audited = {}
  /\ link = [t \in Telegram |-> None]
  /\ challenge = [k \in Token |-> None]
  /\ request = [r \in Request |-> None]
  /\ spent = [k \in Token |-> 0]

UserOf(a) == {u \in User : user[u] # None /\ user[u].asn = a}

-----------------------------------------------------------------------------
(* Challenges. *)

Held(k) == \E r \in Request : request[r] # None /\ request[r].token = k

\* create_challenge: a new row with a random token.
Issue(k, purpose, owner) ==
  /\ ~Held(k)
  /\ challenge[k] # None => challenge[k].used \/ challenge[k].expired
  /\ challenge' = [challenge EXCEPT ![k] = [purpose |-> purpose, owner |-> owner,
                                              used |-> FALSE, expired |-> FALSE]]
  /\ spent' = [spent EXCEPT ![k] = 0]
  /\ UNCHANGED <<user, audited, link, request>>

LoginPage(k) == Issue(k, "web", None)

\* kioubit_login and telegram_challenge.
KioubitLogin(t, k) == Issue(k, "telegram", t)

\* ttl_seconds go by.
Expire(k) ==
  /\ challenge[k] # None /\ ~challenge[k].expired
  /\ challenge' = [challenge EXCEPT ![k].expired = TRUE]
  /\ UNCHANGED <<user, audited, link, request, spent>>

\* KioubitVerifier.verify returns what Kioubit signed: the challenge's token and the ASN that
\* was shown to Kioubit from the page of that challenge.
Envelope == [token : Token, asn : Asn]

\* consume_challenge, up to its commit: unknown, used, expired or foreign ones are refused.
ReadChallenge(r, who, e, purpose) ==
  LET c == challenge[e.token] IN
  /\ request[r] = None
  /\ c # None /\ c.purpose = purpose /\ ~c.used /\ ~c.expired
  /\ request' = [request EXCEPT ![r] = [Idle EXCEPT !.step = "consume", !.who = who,
                   !.token = e.token, !.asn = e.asn, !.prover = c.owner]]
  /\ UNCHANGED <<user, audited, link, challenge, spent>>

\* kioubit_callback.
Callback(r, e) == ReadChallenge(r, None, e, "web")

\* web_app_data and telegram_verify: the envelope comes in a message of account t.
WebAppData(r, t, e) == ReadChallenge(r, t, e, "telegram")

\* Mutation: consumed_at is not set.
ConsumeNothing(r) ==
  LET j == request[r] IN
  /\ j # None /\ j.step = "consume"
  /\ spent' = [spent EXCEPT ![j.token] = @ + 1]
  /\ request' = [request EXCEPT ![r].step = "lookup", ![r].token = None]
  /\ UNCHANGED <<user, audited, link, challenge>>

\* Mutation: an account may redeem the challenge of another one.
ConsumeAnyones(r) ==
  LET j == request[r] IN
  /\ j # None /\ j.step = "consume"
  /\ challenge' = [challenge EXCEPT ![j.token].used = TRUE]
  /\ spent' = [spent EXCEPT ![j.token] = @ + 1]
  /\ request' = [request EXCEPT ![r].step = "lookup", ![r].token = None]
  /\ UNCHANGED <<user, audited, link>>

\* The commit of consume_challenge; then telegram_verify compares the account with the
\* challenge's, which is spent even if it refuses.
Consume(r) ==
  LET j == request[r] IN
  /\ j # None /\ j.step = "consume"
  /\ challenge' = [challenge EXCEPT ![j.token].used = TRUE]
  /\ spent' = [spent EXCEPT ![j.token] = @ + 1]
  /\ request' = [request EXCEPT ![r] = IF challenge[j.token].owner # j.who THEN None
                   ELSE [j EXCEPT !.step = "lookup", !.token = None]]
  /\ UNCHANGED <<user, audited, link>>

-----------------------------------------------------------------------------
(* Logins. *)

\* query_user_asns: the ASNs FindNOC lists for an account, which change as it pleases.
Answers == SUBSET Asn

FindNocBegin(r, t, a) ==
  /\ request[r] = None
  /\ request' = [request EXCEPT ![r] = [Idle EXCEPT !.who = t, !.asn = a, !.prover = t]]
  /\ UNCHANGED <<user, audited, link, challenge, spent>>

\* login_cmd: an account FindNOC does not know is sent to Kioubit, one with a single ASN is
\* logged in by telegram_findnoc_login, and one with several gets a button for each.
LoginCmd(r, t) ==
  \E asns \in Answers :
    \/ asns = {} /\ \E k \in Token : KioubitLogin(t, k)
    \/ \E a \in Asn : asns = {a} /\ FindNocBegin(r, t, a)

\* fnlogin_choose: the ASN of the button is verified again (verify_control).
Choose(r, t, a) == \E asns \in Answers : a \in asns /\ FindNocBegin(r, t, a)

\* _upsert_user_for_asn, the query.
Lookup(r) ==
  LET j == request[r] IN
  /\ j # None /\ j.step = "lookup"
  /\ \/ /\ UserOf(j.asn) = {}
        /\ request' = [request EXCEPT ![r].step = "insert"]
     \/ \E u \in UserOf(j.asn) :
          request' = [request EXCEPT ![r].step = "upsert", ![r].user = u,
                                      ![r].admin = user[u].admin]
  /\ UNCHANGED <<user, audited, link, challenge, spent>>

Derived(a) == a = LocalAsn

\* Mutation: primary_asn is not unique.
InsertAnyway(r) ==
  LET j == request[r] IN
  /\ j # None /\ j.step = "insert"
  /\ \E u \in User :
       /\ user[u] = None
       /\ user' = [user EXCEPT ![u] = [asn |-> j.asn, admin |-> Derived(j.asn)]]
       /\ request' = [request EXCEPT ![r].step = "identity", ![r].user = u]
  /\ UNCHANGED <<audited, link, challenge, spent>>

\* Its commit for an ASN that had no row; it raises if there is one by now.
Insert(r) ==
  LET j == request[r] IN
  /\ j # None /\ j.step = "insert"
  /\ UserOf(j.asn) = {}
  /\ \E u \in User :
       /\ user[u] = None
       /\ user' = [user EXCEPT ![u] = [asn |-> j.asn, admin |-> Derived(j.asn)]]
       /\ request' = [request EXCEPT ![r].step = "identity", ![r].user = u]
  /\ UNCHANGED <<audited, link, challenge, spent>>

\* Mutation: the row is written back as it was loaded, is_admin included.
UpsertAsLoaded(r) ==
  LET j == request[r] IN
  /\ j # None /\ j.step = "upsert"
  /\ user' = [user EXCEPT ![j.user].admin = j.admin]
  /\ request' = [request EXCEPT ![r].step = "identity", ![r].admin = FALSE]
  /\ UNCHANGED <<audited, link, challenge, spent>>

\* Its commit for an existing row: is_admin is written if it differs from what was loaded,
\* so that an admin's change in between may stay.
Upsert(r) ==
  LET j == request[r] IN
  /\ j # None /\ j.step = "upsert"
  /\ user' = IF j.admin # Derived(j.asn)
               THEN [user EXCEPT ![j.user].admin = Derived(j.asn)] ELSE user
  /\ request' = [request EXCEPT ![r].step = "identity", ![r].admin = FALSE]
  /\ UNCHANGED <<audited, link, challenge, spent>>

\* The audit row; then a web login puts user_id into the cookie and ends.
Identity(r) ==
  LET j == request[r] IN
  /\ j # None /\ j.step = "identity"
  /\ audited' = audited \union {j.user}
  /\ request' = [request EXCEPT ![r] = IF j.who = None THEN None ELSE [j EXCEPT !.step = "bind"]]
  /\ UNCHANGED <<user, link, challenge, spent>>

\* bind_telegram, the query.
Bind(r) ==
  LET j == request[r] IN
  /\ j # None /\ j.step = "bind"
  /\ request' = [request EXCEPT ![r].step = "link",
                   ![r].link = IF link[j.who] # None THEN link[j.who].user ELSE None]
  /\ UNCHANGED <<user, audited, link, challenge, spent>>

\* Its commit.  A row that came or went in between makes it raise; a user_id that is what was
\* loaded is not written.
LinkRow(r) ==
  LET j == request[r]
      row == [user |-> j.user, prover |-> j.prover, asn |-> j.asn]
  IN
  /\ j # None /\ j.step = "link"
  /\ (link[j.who] = None) = (j.link = None)
  /\ link' = IF j.link = j.user THEN link ELSE [link EXCEPT ![j.who] = row]
  /\ request' = [request EXCEPT ![r] = None]
  /\ UNCHANGED <<user, audited, challenge, spent>>

\* logout_cmd and telegram_logout: the row goes by its key, whatever else is written to it.
Logout(t) ==
  /\ link[t] # None
  /\ link' = [link EXCEPT ![t] = None]
  /\ UNCHANGED <<user, audited, challenge, request, spent>>

-----------------------------------------------------------------------------
(* The admin pages. *)

\* Mutation: the audit row is made before the flush that gives the user its id.
PreRegisterUnflushed(a) ==
  /\ UserOf(a) = {}
  /\ \E u \in User :
       /\ user[u] = None
       /\ user' = [user EXCEPT ![u] = [asn |-> a, admin |-> Derived(a)]]
       /\ audited' = audited \union {None}
  /\ UNCHANGED <<link, challenge, request, spent>>

\* admin_create_peer, where the peer's ASN has no user yet: the user, its audit row and the
\* peer are one transaction.
PreRegister(a) ==
  /\ UserOf(a) = {}
  /\ \E u \in User :
       /\ user[u] = None
       /\ user' = [user EXCEPT ![u] = [asn |-> a, admin |-> Derived(a)]]
       /\ audited' = audited \union {u}
  /\ UNCHANGED <<link, challenge, request, spent>>

\* require_admin, and the guard against self-lockout.
MayAdminister(u) == \E actor \in User \ {u} : user[actor] # None /\ user[actor].admin

\* admin_toggle_user_admin, the query.
Toggle(r, u) ==
  /\ request[r] = None
  /\ user[u] # None /\ MayAdminister(u)
  /\ request' = [request EXCEPT ![r] = [Idle EXCEPT !.step = "toggle", !.user = u,
                                          !.admin = user[u].admin]]
  /\ UNCHANGED <<user, audited, link, challenge, spent>>

\* Its commit.
SaveToggle(r) ==
  LET j == request[r] IN
  /\ j # None /\ j.step = "toggle"
  /\ user' = [user EXCEPT ![j.user].admin = ~j.admin]
  /\ request' = [request EXCEPT ![r] = None]
  /\ UNCHANGED <<audited, link, challenge, spent>>

\* admin_unlink_telegram: the accounts linked to a user.
Unlink(r, u) ==
  LET linked == {t \in Telegram : link[t] # None /\ link[t].user = u} IN
  /\ request[r] = None
  /\ linked # {}
  /\ request' = [request EXCEPT ![r] = [Idle EXCEPT !.step = "unlink", !.todo = linked]]
  /\ UNCHANGED <<user, audited, link, challenge, spent>>

\* unbind_telegram of one of them, which may be another user's by now.
UnlinkOne(r, t) ==
  LET j == request[r] IN
  /\ j # None /\ j.step = "unlink" /\ t \in j.todo
  /\ link' = [link EXCEPT ![t] = None]
  /\ request' = [request EXCEPT ![r] = IF j.todo = {t} THEN None ELSE [j EXCEPT !.todo = @ \ {t}]]
  /\ UNCHANGED <<user, audited, challenge, spent>>

-----------------------------------------------------------------------------
\* An exception, the database's refusals among them, or the end of the backend.
Fails(r) ==
  /\ request[r] # None
  /\ request' = [request EXCEPT ![r] = None]
  /\ UNCHANGED <<user, audited, link, challenge, spent>>

Continue(r) ==
  \/ Consume(r) \/ Lookup(r) \/ Insert(r) \/ Upsert(r) \/ Identity(r) \/ Bind(r) \/ LinkRow(r)
  \/ SaveToggle(r) \/ \E t \in Telegram : UnlinkOne(r, t)

Next ==
  \/ \E k \in Token : LoginPage(k) \/ Expire(k)
  \/ \E t \in Telegram : Logout(t)
  \/ \E a \in Asn : PreRegister(a)
  \/ \E r \in Request :
       \/ Continue(r) \/ Fails(r)
       \/ \E u \in User : Toggle(r, u) \/ Unlink(r, u)
       \/ \E e \in Envelope : Callback(r, e) \/ \E t \in Telegram : WebAppData(r, t, e)
       \/ \E t \in Telegram : LoginCmd(r, t) \/ \E a \in Asn : Choose(r, t, a)

Spec == Init /\ [][Next]_vars

-----------------------------------------------------------------------------
(* Properties. *)

\* docs/auth-flow.md: one row per primary ASN, whatever logins and pre-registrations of one
\* ASN run side by side between the query and the INSERT.
OneUserPerAsn == \A a \in Asn : Cardinality(UserOf(a)) <= 1

\* A Telegram account is linked only to a user whose ASN that account itself has shown, and
\* an audit row says that the user was shown: a challenge of another account, or a session
\* that loaded the link before others changed it, never links it elsewhere.
LinkIsProved ==
  \A t \in Telegram : link[t] # None =>
    /\ link[t].prover = t
    /\ link[t].user \in audited /\ user[link[t].user].asn = link[t].asn

Overruled(u) == user[u] # None /\ user[u].admin # Derived(user[u].asn)

\* Only the commit of an admin's toggle makes is_admin of a user differ from what LOCAL_ASN
\* says of its ASN.  A login, which loads the flag, computes it anew and commits while admins
\* change it, may leave what they chose, but never brings back what they took back.
OnlyTogglesOverrule ==
  [][\A u \in User : Overruled(u)' =>
       \/ Overruled(u)
       \/ \E r \in Request : request[r] # None /\ request[r].user = u /\ SaveToggle(r)]_vars

\* A callback or a message that comes in when its challenge has been consumed, even if only by
\* a login that failed later, is refused.
ReplayIsRefused ==
  [][\A r \in Request, k \in Token :
       request[r] = None /\ request'[r] # None /\ request'[r].token = k => spent[k] = 0]_vars

\* docs/auth-flow.md:46-47 of challenge tokens: they "are consumed exactly once".  The code lets
\* two requests that both find a challenge unused consume it one after the other.
ConsumedOnce == \A k \in Token : spent[k] <= 1
=============================================================================
