------------------------------ MODULE BotWizard ------------------------------
(***************************************************************************)
(* The Telegram bot's conversation with one user in one private chat:      *)
(* app/bot/main.py.  aiogram starts a task for every update, without       *)
(* waiting for the task of the update before it, and keeps the state and   *)
(* the data of the conversation in memory.  Storage operations do not      *)
(* suspend, so an action is what a handler does between two awaits of the  *)
(* backend or of a Telegram answer.                                        *)
(*                                                                         *)
(* A wizard is a group of states, a step one of its states: steps 1 to 8   *)
(* of "create" ask for the node, endpoint, public key, DN42 IPv4, DN42     *)
(* IPv6, link-local address, MTU and BGP extensions, and 9 is confirming;  *)
(* "edit" asks at 1 which peer, then for the endpoint, public key and MTU; *)
(* "delete" asks at 1 which peer, and 2 is confirming.  Endpoint and       *)
(* public key have the same keys in the data whichever wizard asks.        *)
(*                                                                         *)
(* Text that a step rejects, a command inside a wizard included, changes   *)
(* nothing and has no action, nor has the answer that ends a handler.  The *)
(* backend may answer whatever it likes: what it does is PeerLifecycle's   *)
(* subject.                                                                *)
(* Bound: a Token is used again once the chat has forgotten its menu.      *)
(***************************************************************************)
EXTENDS Naturals, Sequences

CONSTANTS
  Task,          \* handlers that may be under way at once
  Node, Peer,
  PeerLists,     \* the lists of a user's peers that the backend may answer with
  Value,         \* what a field may hold
  Blank,         \* the value of a skipped field
  Inputs,        \* Inputs[i]: the values step i accepts
  Token, Query,  \* looking-glass menus, and what they were asked
  None

Fields == 1..8
Optional == 4..6            \* read with a default when the key is missing
Confirming == 9

ASSUME ValueAssumption == Blank \in Value /\ Inputs \in [2..8 -> SUBSET Value]
ASSUME ListsAssumption == \A l \in PeerLists : l \in Seq(Peer) /\ l # <<>>

VARIABLES
  wizard, step,  \* the FSM state; "none" and 0 is aiogram's default state
  data,          \* the FSM data
  work,          \* work[t]: where task t stands and what it holds
  menu,          \* menu[k]: the query of the message whose buttons carry token k
  answers,       \* what the user answered since the wizard's first question (history)
  accepted,      \* the form the last successful preview was about, until it is created (history)
  cancelled      \* "Cancelled." was the reply to the last command (history)

conversation == <<wizard, step, data>>
history == <<answers, accepted, cancelled>>
vars == <<conversation, work, menu, history>>

\* A peer is answered by its number in the list.
Answer == Node \union Nat \union Value \union {None}
Form == [Fields -> Answer]
Menu == [token : Token, query : Query]
Asked == [token : {None}, query : Query]

ASSUME NoneAssumption ==
  /\ None \notin Node /\ None \notin Peer /\ None \notin Nat /\ None \notin Value /\ None \notin Query
  /\ None \notin Token /\ None \notin Form /\ None \notin Menu

NoForm == [i \in Fields |-> None]
NoData == [nodes |-> {}, peer_ids |-> <<>>, peer_id |-> None, form |-> NoForm,
           create_payload |-> None, lg |-> None]
Idle == [at |-> "idle", op |-> "none", form |-> NoForm, peer |-> None, lg |-> None]

StepsOf == [none |-> {0}, create |-> 1..Confirming, edit |-> 1..4, delete |-> 1..2]

\* Every variable has its type, and a step belongs to its wizard.
TypeOK ==
  /\ wizard \in DOMAIN StepsOf /\ step \in StepsOf[wizard]
  /\ data \in [nodes : SUBSET Node, peer_ids : PeerLists \union {<<>>}, peer_id : Peer \union {None},
               form : Form, create_payload : Form \union {None}, lg : Menu \union {None}]
  /\ work \in [Task -> [at : {"idle", "opening", "preview", "posting",
                              "lg_nodes", "lg_menu", "lg_query"},
                        op : DOMAIN StepsOf, form : Form, peer : Peer \union {None},
                        lg : Menu \union Asked \union {None}]]
  /\ menu \in [Token -> Query \union {None}]
  /\ answers \in Form /\ accepted \in Form \union {None} /\ cancelled \in BOOLEAN

Init ==
  /\ wizard = "none" /\ step = 0 /\ data = NoData
  /\ work = [t \in Task |-> Idle]
  /\ menu = [k \in Token |-> None]
  /\ answers = NoForm /\ accepted = None /\ cancelled = FALSE

-----------------------------------------------------------------------------
(* Pieces of handlers.                                                     *)

Free(t) == work[t].at = "idle"
End(t) == work' = [work EXCEPT ![t] = Idle]

Clear == wizard' = "none" /\ step' = 0 /\ data' = NoData
GoTo(w, i) == wizard' = w /\ step' = i

\* data.get(key, "") for the three addresses, data[key] for the rest.
Read(form) == [i \in Fields |-> IF i \in Optional /\ form[i] = None THEN Blank ELSE form[i]]

\* The questions whose answer is stored under a key of its own, before the next one is asked.
CreateAsks == wizard = "create" /\ step \in 2..7
EditAsks == wizard = "edit" /\ step \in 2..3

-----------------------------------------------------------------------------
(* Mutants: plausible bugs in the handlers, each of which breaks a         *)
(* property.                                                               *)

\* edit_mtu_step stores its answer like the other steps and moves on.
AnswerFieldPastTheLast(v) ==
  /\ CreateAsks \/ (wizard = "edit" /\ step \in 2..4)
  /\ v \in Inputs[step]
  /\ data' = [data EXCEPT !.form[step] = v]
  /\ GoTo(wizard, step + 1)
  /\ answers' = [answers EXCEPT ![step] = v]
  /\ UNCHANGED <<work, menu, accepted, cancelled>>

\* A skipped address is not stored, since reading it has a default.
AnswerFieldUnlessSkipped(v) ==
  /\ CreateAsks \/ EditAsks
  /\ v \in Inputs[step]
  /\ data' = IF step \in Optional /\ v = Blank THEN data ELSE [data EXCEPT !.form[step] = v]
  /\ GoTo(wizard, step + 1)
  /\ answers' = [answers EXCEPT ![step] = v]
  /\ UNCHANGED <<work, menu, accepted, cancelled>>

\* The state is cleared after the request, with the answer in hand.
ConfirmCreateAndClearLater(t) ==
  /\ Free(t) /\ wizard = "create" /\ step = Confirming
  /\ work' = [work EXCEPT ![t] = [Idle EXCEPT !.at = "posting", !.op = "create",
                                              !.form = data.create_payload]]
  /\ answers' = NoForm /\ accepted' = None
  /\ UNCHANGED <<conversation, menu, cancelled>>

\* run_lg stores the target when it has parsed it, and the token when it has the nodes.
LgCommandStoringTarget(t, q) ==
  /\ Free(t) /\ wizard = "none"
  /\ data' = IF data.lg = None THEN data ELSE [data EXCEPT !.lg.query = q]
  /\ work' = [work EXCEPT ![t] = [Idle EXCEPT !.at = "lg_nodes", !.lg = [token |-> None, query |-> q]]]
  /\ UNCHANGED <<wizard, step, menu, history>>

-----------------------------------------------------------------------------
(* Entry commands, taken in any state, and /cancel.                        *)

\* /create, /edit or /delete: clear first, then ask the backend for what the first question
\* offers.  (/create asks twice, for the account and for the nodes; nothing is stored between.)
Enter(t, w) ==
  /\ Free(t)
  /\ Clear
  /\ work' = [work EXCEPT ![t] = [Idle EXCEPT !.at = "opening", !.op = w]]
  /\ cancelled' = FALSE
  /\ UNCHANGED <<menu, answers, accepted>>

\* The backend has nodes or peers to choose from: the wizard starts, in whatever state the
\* conversation is by now.
Opened(t) ==
  /\ work[t].at = "opening"
  /\ \/ /\ work[t].op = "create"
        /\ \E nodes \in SUBSET Node \ {{}} : data' = [data EXCEPT !.nodes = nodes]
     \/ /\ work[t].op \in {"edit", "delete"}
        /\ \E peers \in PeerLists : data' = [data EXCEPT !.peer_ids = peers]
  /\ GoTo(work[t].op, 1)
  /\ End(t)
  /\ answers' = NoForm
  /\ UNCHANGED <<menu, accepted, cancelled>>

\* /cancel inside a wizard; outside, it only says that there is nothing to cancel.
Cancel ==
  /\ wizard # "none"
  /\ Clear
  /\ cancelled' = TRUE
  /\ UNCHANGED <<work, menu, answers, accepted>>

-----------------------------------------------------------------------------
(* Questions.                                                              *)

\* create_node_step
ChooseNode(n) ==
  /\ wizard = "create" /\ step = 1 /\ n \in data.nodes
  /\ data' = [data EXCEPT !.form[1] = n]
  /\ GoTo("create", 2)
  /\ answers' = [answers EXCEPT ![1] = n]
  /\ UNCHANGED <<work, menu, accepted, cancelled>>

\* edit_choose_step and delete_choose_step: a number picks from the list that the last entry
\* command stored, whichever list of the chat the user read it off.
ChoosePeer(i) ==
  /\ wizard \in {"edit", "delete"} /\ step = 1 /\ i \in DOMAIN data.peer_ids
  /\ data' = [data EXCEPT !.peer_id = data.peer_ids[i]]
  /\ GoTo(wizard, 2)
  /\ answers' = [answers EXCEPT ![1] = i]
  /\ UNCHANGED <<work, menu, accepted, cancelled>>

\* The steps that store one answer and go on.
AnswerField(v) ==
  /\ CreateAsks \/ EditAsks
  /\ v \in Inputs[step]
  /\ data' = [data EXCEPT !.form[step] = v]
  /\ GoTo(wizard, step + 1)
  /\ answers' = [answers EXCEPT ![step] = v]
  /\ UNCHANGED <<work, menu, accepted, cancelled>>

\* create_bgp_extended_step: the last answer, and a preview of the whole; the state stays until
\* the backend has answered.
AnswerBgp(t, v) ==
  /\ Free(t) /\ wizard = "create" /\ step = 8 /\ v \in Inputs[8]
  /\ data' = [data EXCEPT !.form[8] = v]
  /\ work' = [work EXCEPT ![t] = [Idle EXCEPT !.at = "preview", !.form = Read(data'.form)]]
  /\ answers' = [answers EXCEPT ![8] = v]
  /\ UNCHANGED <<wizard, step, menu, accepted, cancelled>>

\* The preview is fine: its payload is what a "yes" will create.
Previewed(t) ==
  /\ work[t].at = "preview"
  /\ data' = [data EXCEPT !.create_payload = work[t].form]
  /\ GoTo("create", Confirming)
  /\ End(t)
  /\ accepted' = work[t].form
  /\ UNCHANGED <<menu, answers, cancelled>>

-----------------------------------------------------------------------------
(* The last step of each wizard: clear, then send the request.             *)

ConfirmCreate(t) ==
  /\ Free(t) /\ wizard = "create" /\ step = Confirming
  /\ Clear
  /\ work' = [work EXCEPT ![t] = [Idle EXCEPT !.at = "posting", !.op = "create",
                                              !.form = data.create_payload]]
  /\ answers' = NoForm /\ accepted' = None
  /\ UNCHANGED <<menu, cancelled>>

\* edit_mtu_step
AnswerMtu(t, v) ==
  /\ Free(t) /\ wizard = "edit" /\ step = 4 /\ v \in Inputs[7]
  /\ Clear
  /\ work' = [work EXCEPT ![t] = [Idle EXCEPT
       !.at = "posting", !.op = "edit", !.peer = data.peer_id,
       !.form = [NoForm EXCEPT ![2] = data.form[2], ![3] = data.form[3], ![7] = v]]]
  /\ answers' = NoForm
  /\ UNCHANGED <<menu, accepted, cancelled>>

ConfirmDelete(t) ==
  /\ Free(t) /\ wizard = "delete" /\ step = 2
  /\ Clear
  /\ work' = [work EXCEPT ![t] = [Idle EXCEPT !.at = "posting", !.op = "delete", !.peer = data.peer_id]]
  /\ answers' = NoForm
  /\ UNCHANGED <<menu, accepted, cancelled>>

-----------------------------------------------------------------------------
(* The looking glass.                                                      *)

\* /ping, /trace, /mtr, /route: in the default state only.
LgCommand(t, q) ==
  /\ Free(t) /\ wizard = "none"
  /\ work' = [work EXCEPT ![t] = [Idle EXCEPT !.at = "lg_nodes", !.lg = [token |-> None, query |-> q]]]
  /\ UNCHANGED <<conversation, menu, history>>

Unused(k) ==
  /\ menu[k] = None
  /\ \A t \in Task : work[t].lg # None => work[t].lg.token # k
  /\ data.lg # None => data.lg.token # k

\* run_lg has the nodes: a fresh token, stored with the query in one update.
LgNodes(t, k) ==
  /\ work[t].at = "lg_nodes" /\ Unused(k)
  /\ LET m == [token |-> k, query |-> work[t].lg.query] IN
       /\ data' = [data EXCEPT !.lg = m]
       /\ work' = [work EXCEPT ![t].at = "lg_menu", ![t].lg = m]
  /\ UNCHANGED <<wizard, step, menu, history>>

\* The message with the buttons is in the chat; the first query starts.
LgMenu(t) ==
  /\ work[t].at = "lg_menu"
  /\ menu' = [menu EXCEPT ![work[t].lg.token] = work[t].lg.query]
  /\ work' = [work EXCEPT ![t].at = "lg_query"]
  /\ UNCHANGED <<conversation, history>>

\* lg_choose: a button is tapped, in any state.  Buttons of another token have expired.
Tap(t, k) ==
  /\ Free(t) /\ menu[k] # None
  /\ data.lg # None /\ data.lg.token = k
  /\ work' = [work EXCEPT ![t] = [Idle EXCEPT !.at = "lg_query", !.lg = data.lg]]
  /\ UNCHANGED <<conversation, menu, history>>

\* A message that is scrolled out of sight or deleted.
ForgetMenu(k) ==
  /\ menu[k] # None
  /\ \A t \in Task : work[t].lg # None => work[t].lg.token # k
  /\ menu' = [menu EXCEPT ![k] = None]
  /\ UNCHANGED <<conversation, work, history>>

-----------------------------------------------------------------------------
\* The backend or Telegram fails the await, or there is nothing to choose from; the handler
\* reports it and ends.
Fails(t) ==
  /\ work[t].at \in {"opening", "preview", "lg_nodes", "lg_menu"}
  /\ End(t)
  /\ UNCHANGED <<conversation, menu, history>>

\* The answer to a request whose handler has nothing more to store.
Done(t) ==
  /\ work[t].at \in {"posting", "lg_query"}
  /\ End(t)
  /\ UNCHANGED <<conversation, menu, history>>

\* The bot's process is stopped and started: MemoryStorage is empty, tasks are gone.
Restart ==
  /\ Clear
  /\ work' = [t \in Task |-> Idle]
  /\ answers' = NoForm /\ accepted' = None
  /\ UNCHANGED <<menu, cancelled>>

Chat ==
  \/ Cancel
  \/ \E n \in Node : ChooseNode(n)
  \/ \E i \in DOMAIN data.peer_ids : ChoosePeer(i)
  \/ \E v \in Value : AnswerField(v)
  \/ \E t \in Task :
       \/ \E w \in {"create", "edit", "delete"} : Enter(t, w)
       \/ \E v \in Value : AnswerBgp(t, v) \/ AnswerMtu(t, v)
       \/ ConfirmCreate(t) \/ ConfirmDelete(t)
       \/ \E q \in Query : LgCommand(t, q)
       \/ \E k \in Token : Tap(t, k)
  \/ \E k \in Token : ForgetMenu(k)

Resumed ==
  \E t \in Task :
    \/ Opened(t) \/ Previewed(t)
    \/ \E k \in Token : LgNodes(t, k)
    \/ LgMenu(t) \/ Fails(t) \/ Done(t)

Next == Chat \/ Resumed \/ Restart

Spec == Init /\ [][Next]_vars

-----------------------------------------------------------------------------
(* Properties.                                                             *)

\* Task t starts to wait at a place it was not at.
Sends(t, at) == work[t].at # at /\ work'[t].at = at

\* p is the peer whose number was the answer, in the list of this run's command.
PicksPeer(p) == answers[1] \in DOMAIN data.peer_ids /\ p = data.peer_ids[answers[1]]

\* Whatever order commands, answers and late replies come in, a step finds in the data what the
\* user answered at the earlier steps of this very run of the wizard: nothing is missing (a KeyError
\* in the handler) and nothing is left over from a run that a second entry command replaced.
DataIsAnswers ==
  /\ wizard = "create" /\ step < Confirming =>
       \A i \in 1..(step - 1) : answers[i] # None /\ Read(data.form)[i] = answers[i]
  /\ wizard = "create" /\ step = Confirming => data.create_payload = accepted /\ accepted # None
  /\ wizard \in {"edit", "delete"} /\ step > 1 => PicksPeer(data.peer_id)
  /\ wizard = "edit" => \A i \in 2..(step - 1) : answers[i] # None /\ data.form[i] = answers[i]

\* A preview carries the answers; a create carries the form of the last preview that succeeded, and
\* carries it once; an edit or a delete goes to the peer whose number was picked in the list of its
\* own command, once per pick.
SendsWhatWasAnswered ==
  [][\A t \in Task :
       /\ Sends(t, "preview") => work'[t].form = answers'
       /\ Sends(t, "posting") /\ work'[t].op = "create" => accepted # None /\ work'[t].form = accepted
       /\ Sends(t, "posting") /\ work'[t].op = "edit" =>
            /\ PicksPeer(work'[t].peer)
            /\ \A i \in 2..3 : work'[t].form[i] = answers[i]
       /\ Sends(t, "posting") /\ work'[t].op = "delete" =>
            PicksPeer(work'[t].peer)]_vars

\* A button of a looking-glass menu runs the query the menu was shown with, though a newer command
\* has its own query in the same data, and wizards clear and extend them.
TapRunsItsQuery == \A t \in Task : work[t].at = "lg_query" => menu[work[t].lg.token] = work[t].lg.query

\* README.md says "/cancel       Abort the current guided action": after it there is no wizard
\* until a command starts one.  The code lets a reply that was awaited meanwhile bring one back.
CancelAborts == cancelled => wizard = "none"
=============================================================================
