--------------------------- MODULE BotWizardProofs ---------------------------
(***************************************************************************)
(* Proofs about BotWizard, for any number of concurrent handlers, nodes,   *)
(* peers, menus and values.                                                *)
(***************************************************************************)
EXTENDS BotWizard, TLAPS

Load == [at : {"idle", "opening", "preview", "posting", "lg_nodes", "lg_menu", "lg_query"},
         op : DOMAIN StepsOf, form : Form, peer : Peer \union {None},
         lg : Menu \union Asked \union {None}]

Data == [nodes : SUBSET Node, peer_ids : PeerLists \union {<<>>}, peer_id : Peer \union {None},
         form : Form, create_payload : Form \union {None}, lg : Menu \union {None}]

\* The default state, an idle task and an empty storage have their types.
LEMMA Empty ==
  /\ NoForm \in Form /\ NoData \in Data /\ Idle \in Load
  /\ Idle.at = "idle" /\ Idle.lg = None
  /\ NoForm[1] = None
BY DEF NoForm, Form, NoData, Data, Idle, Load, Answer, StepsOf, Fields

\* The five wizards' names and their steps, spelled out.
LEMMA StepsFacts ==
  /\ DOMAIN StepsOf = {"none", "create", "edit", "delete"}
  /\ StepsOf["none"] = {0} /\ StepsOf["create"] = 1..9
  /\ StepsOf["edit"] = 1..4 /\ StepsOf["delete"] = 1..2
BY DEF StepsOf, Confirming

\* Storing one answer leaves a form, and the other answers.
LEMMA StoreForm ==
  ASSUME NEW f \in Form, NEW i \in Fields, NEW v \in Answer
  PROVE  /\ [f EXCEPT ![i] = v] \in Form
         /\ [f EXCEPT ![i] = v][i] = v
         /\ \A j \in Fields : j # i => [f EXCEPT ![i] = v][j] = f[j]
BY DEF Form

\* A number that picks from a stored list is one of an answer, and picks a peer.
LEMMA Listed ==
  ASSUME NEW d \in Data, NEW i \in DOMAIN d.peer_ids
  PROVE  i \in Nat /\ d.peer_ids[i] \in Peer
<1>1. d.peer_ids \in Seq(Peer)
  BY ListsAssumption DEF Data
<1> QED BY <1>1

\* A form read with its defaults is a form.
LEMMA ReadForm == ASSUME NEW f \in Form PROVE Read(f) \in Form
BY ValueAssumption DEF Form, Read, Answer

\* The type of the storage, whichever key an update sets.
LEMMA StoreData ==
  ASSUME NEW d \in Data
  PROVE  /\ \A x \in SUBSET Node : [d EXCEPT !.nodes = x] \in Data
         /\ \A x \in PeerLists : [d EXCEPT !.peer_ids = x] \in Data
         /\ \A x \in Peer : [d EXCEPT !.peer_id = x] \in Data
         /\ \A x \in Form : [d EXCEPT !.create_payload = x] \in Data
         /\ \A x \in Menu : [d EXCEPT !.lg = x] \in Data
         /\ \A i \in Fields, v \in Answer :
              /\ [d EXCEPT !.form[i] = v] \in Data
              /\ [d EXCEPT !.form[i] = v].form = [d.form EXCEPT ![i] = v]
<1>1. \A i \in Fields, v \in Answer : [d.form EXCEPT ![i] = v] \in Form
  BY StoreForm DEF Data
<1>2. \A i \in Fields, v \in Answer : [d EXCEPT !.form[i] = v].form = [d.form EXCEPT ![i] = v]
  BY DEF Data
<1>3. \A i \in Fields, v \in Answer : [d EXCEPT !.form[i] = v] \in Data
  BY <1>1 DEF Data
<1> QED BY <1>2, <1>3 DEF Data

\* A task that gets a menu keeps its type.
LEMMA StoreMenu ==
  \A x \in Load, m \in Menu : [x EXCEPT !.at = "lg_menu", !.lg = m] \in Load
BY DEF Load

-----------------------------------------------------------------------------
(* The invariant beside the types and DataIsAnswers.                       *)

\* Something that holds a menu: the storage or a task.
Holds(m) == m = data.lg \/ \E t \in Task : m = work[t].lg

\* A looking-glass task holds what its place says.
PlaceInv ==
  \A t \in Task :
    /\ work[t].at = "lg_nodes" => work[t].lg \in Asked
    /\ work[t].at \in {"lg_menu", "lg_query"} => work[t].lg \in Menu

\* A token stands for one query wherever it is held, and for none other in the chat.
TokenInv ==
  /\ \A m, n \in Menu : Holds(m) /\ Holds(n) /\ m.token = n.token => m = n
  /\ \A m \in Menu : Holds(m) => menu[m.token] \in {None, m.query}

-----------------------------------------------------------------------------
(* Types.                                                                  *)

\* The type invariant, with the storage and the tasks under their names.
LEMMA TypeParts ==
  TypeOK <=> /\ wizard \in DOMAIN StepsOf /\ step \in StepsOf[wizard]
             /\ data \in Data /\ work \in [Task -> Load] /\ menu \in [Token -> Query \union {None}]
             /\ answers \in Form /\ accepted \in Form \union {None} /\ cancelled \in BOOLEAN
BY DEF TypeOK, Data, Load

\* The initial states have their types.
LEMMA TypeInit == Init => TypeOK
<1> SUFFICES ASSUME Init PROVE TypeOK
  OBVIOUS
<1>1. wizard \in DOMAIN StepsOf /\ step \in StepsOf[wizard]
  BY StepsFacts DEF Init
<1>2. data \in Data /\ work \in [Task -> Load] /\ answers \in Form
  BY Empty DEF Init
<1> QED BY <1>1, <1>2 DEF Init, TypeOK, Data, Load

\* Every step keeps them.
LEMMA TypeStep == TypeOK /\ DataIsAnswers /\ PlaceInv /\ [Next]_vars => TypeOK'
<1> SUFFICES ASSUME TypeOK, DataIsAnswers, PlaceInv, [Next]_vars PROVE TypeOK'
  OBVIOUS
<1>t. /\ wizard \in DOMAIN StepsOf /\ step \in StepsOf[wizard]
      /\ data \in Data /\ work \in [Task -> Load] /\ menu \in [Token -> Query \union {None}]
      /\ answers \in Form /\ accepted \in Form \union {None} /\ cancelled \in BOOLEAN
  BY TypeParts
<1>f. data.form \in Form /\ \A t \in Task : work[t].form \in Form /\ work[t].op \in DOMAIN StepsOf
  BY <1>t DEF Data, Load
<1>1. CASE Cancel
  BY <1>t, <1>1, Empty, StepsFacts DEF Cancel, Clear, TypeOK, Data, Load
<1>2. ASSUME NEW n \in Node, ChooseNode(n) PROVE TypeOK'
  <2>1. n \in Answer /\ 1 \in Fields
    BY DEF Answer, Fields
  <2>2. data' \in Data /\ answers' \in Form
    BY <1>t, <1>2, <2>1, StoreData, StoreForm DEF ChooseNode
  <2> QED BY <1>t, <1>2, <2>2, StepsFacts DEF ChooseNode, GoTo, TypeOK, Data, Load
<1>3. ASSUME NEW i \in DOMAIN data.peer_ids, ChoosePeer(i) PROVE TypeOK'
  <2>1. i \in Answer /\ 1 \in Fields /\ data.peer_ids[i] \in Peer
    BY <1>t, Listed DEF Answer, Fields
  <2>2. data' \in Data /\ answers' \in Form
    BY <1>t, <1>3, <2>1, StoreData, StoreForm DEF ChoosePeer
  <2> QED BY <1>t, <1>3, <2>2, StepsFacts DEF ChoosePeer, GoTo, TypeOK, Data, Load
<1>4. ASSUME NEW v \in Value, AnswerField(v) PROVE TypeOK'
  <2>1. v \in Answer /\ step \in Fields /\ step + 1 \in StepsOf[wizard]
    BY <1>4, StepsFacts DEF AnswerField, CreateAsks, EditAsks, Answer, Fields
  <2>2. data' \in Data /\ answers' \in Form
    BY <1>t, <1>4, <2>1, StoreData, StoreForm DEF AnswerField
  <2> QED BY <1>t, <1>4, <2>1, <2>2 DEF AnswerField, CreateAsks, EditAsks, GoTo, TypeOK, Data, Load
<1>5. ASSUME NEW t \in Task, NEW w \in {"create", "edit", "delete"}, Enter(t, w) PROVE TypeOK'
  <2>1. [Idle EXCEPT !.at = "opening", !.op = w] \in Load
    BY Empty, StepsFacts DEF Load
  <2> QED BY <1>t, <1>5, <2>1, Empty, StepsFacts DEF Enter, Clear, TypeOK, Data, Load
<1>6. ASSUME NEW t \in Task, NEW v \in Value, AnswerBgp(t, v) PROVE TypeOK'
  <2>1. v \in Answer /\ 8 \in Fields
    BY DEF Answer, Fields
  <2>2. data' \in Data /\ answers' \in Form
    <3>1. data' = [data EXCEPT !.form[8] = v] /\ answers' = [answers EXCEPT ![8] = v]
      BY <1>6 DEF AnswerBgp
    <3>2. [data EXCEPT !.form[8] = v] \in Data
      BY <1>t, <2>1, StoreData
    <3>3. [answers EXCEPT ![8] = v] \in Form
      BY <1>t, <2>1, StoreForm
    <3> QED BY <3>1, <3>2, <3>3
  <2>3. Read(data'.form) \in Form
    BY <2>2, ReadForm DEF Data
  <2>4. [Idle EXCEPT !.at = "preview", !.form = Read(data'.form)] \in Load
    BY <2>3, Empty DEF Load
  <2>5. work' \in [Task -> Load]
    BY <1>t, <1>6, <2>4 DEF AnswerBgp
  <2>6. UNCHANGED <<wizard, step, menu, accepted, cancelled>>
    BY <1>6 DEF AnswerBgp
  <2> QED BY <1>t, <2>2, <2>5, <2>6 DEF TypeOK, Data, Load
<1>7. ASSUME NEW t \in Task, NEW v \in Value, AnswerMtu(t, v) PROVE TypeOK'
  <2>1. /\ data.form[2] \in Answer /\ data.form[3] \in Answer /\ v \in Answer
        /\ 2 \in Fields /\ 3 \in Fields /\ 7 \in Fields
    BY <1>f DEF Answer, Fields, Form
  <2>2. [NoForm EXCEPT ![2] = data.form[2], ![3] = data.form[3], ![7] = v] \in Form
    BY <2>1, Empty DEF Form
  <2>3. data.peer_id \in Peer \union {None} /\ "edit" \in DOMAIN StepsOf
    BY <1>t, StepsFacts DEF Data
  <2>4. [Idle EXCEPT !.at = "posting", !.op = "edit", !.peer = data.peer_id,
           !.form = [NoForm EXCEPT ![2] = data.form[2], ![3] = data.form[3], ![7] = v]] \in Load
    BY <2>2, <2>3, Empty DEF Load
  <2>5. work' \in [Task -> Load]
    BY <1>t, <1>7, <2>4 DEF AnswerMtu
  <2> QED BY <1>t, <1>7, <2>5, Empty, StepsFacts DEF AnswerMtu, Clear, TypeOK, Data, Load
<1>8. ASSUME NEW t \in Task, ConfirmCreate(t) PROVE TypeOK'
  <2>1. data.create_payload \in Form
    BY <1>t, <1>8 DEF ConfirmCreate, DataIsAnswers
  <2>2. [Idle EXCEPT !.at = "posting", !.op = "create", !.form = data.create_payload] \in Load
    BY <2>1, Empty, StepsFacts DEF Load
  <2> QED BY <1>t, <1>8, <2>2, Empty, StepsFacts DEF ConfirmCreate, Clear, TypeOK, Data, Load
<1>9. ASSUME NEW t \in Task, ConfirmDelete(t) PROVE TypeOK'
  <2>1. data.peer_id \in Peer \union {None}
    BY <1>t DEF Data
  <2>2. [Idle EXCEPT !.at = "posting", !.op = "delete", !.peer = data.peer_id] \in Load
    BY <2>1, Empty, StepsFacts DEF Load
  <2> QED BY <1>t, <1>9, <2>2, Empty, StepsFacts DEF ConfirmDelete, Clear, TypeOK, Data, Load
<1>10. ASSUME NEW t \in Task, NEW q \in Query, LgCommand(t, q) PROVE TypeOK'
  <2>1. [Idle EXCEPT !.at = "lg_nodes", !.lg = [token |-> None, query |-> q]] \in Load
    BY Empty DEF Load, Asked
  <2> QED BY <1>t, <1>10, <2>1 DEF LgCommand, conversation, history, TypeOK, Data, Load
<1>11. ASSUME NEW t \in Task, NEW k \in Token, Tap(t, k) PROVE TypeOK'
  <2>1. data.lg \in Menu
    BY <1>t, <1>11 DEF Tap, Data
  <2>2. [Idle EXCEPT !.at = "lg_query", !.lg = data.lg] \in Load
    BY <2>1, Empty DEF Load
  <2> QED BY <1>t, <1>11, <2>2 DEF Tap, conversation, history, TypeOK, Data, Load
<1>12. ASSUME NEW k \in Token, ForgetMenu(k) PROVE TypeOK'
  BY <1>t, <1>12 DEF ForgetMenu, conversation, history, TypeOK, Data, Load
<1>13. ASSUME NEW t \in Task, Opened(t) PROVE TypeOK'
  <2>1. data' \in Data
    <3>1. CASE work[t].op = "create"
      BY <1>t, <1>13, <3>1, StoreData DEF Opened
    <3>2. CASE work[t].op \in {"edit", "delete"}
      BY <1>t, <1>13, <3>2, StoreData DEF Opened
    <3> QED BY <1>13, <3>1, <3>2 DEF Opened
  <2>2. wizard' \in DOMAIN StepsOf /\ step' \in StepsOf[wizard']
    BY <1>13, StepsFacts DEF Opened, GoTo
  <2> QED BY <1>t, <1>13, <2>1, <2>2, Empty DEF Opened, End, TypeOK, Data, Load
<1>14. ASSUME NEW t \in Task, Previewed(t) PROVE TypeOK'
  <2>1. data' \in Data
    BY <1>t, <1>f, <1>14, StoreData DEF Previewed
  <2> QED BY <1>t, <1>f, <1>14, <2>1, Empty, StepsFacts
          DEF Previewed, End, GoTo, Confirming, TypeOK, Data, Load
<1>15. ASSUME NEW t \in Task, NEW k \in Token, LgNodes(t, k) PROVE TypeOK'
  <2> DEFINE m == [token |-> k, query |-> work[t].lg.query]
  <2>1. m \in Menu
    BY <1>15 DEF LgNodes, PlaceInv, Asked, Menu
  <2>2. data' \in Data
    BY <1>t, <1>15, <2>1, StoreData DEF LgNodes
  <2>3. [work[t] EXCEPT !.at = "lg_menu", !.lg = m] \in Load
    BY <1>t, <2>1, StoreMenu
  <2>4. work' \in [Task -> Load]
    BY <1>t, <1>15, <2>3 DEF LgNodes
  <2> QED BY <1>t, <1>15, <2>2, <2>4 DEF LgNodes, history, TypeOK, Data, Load
<1>16. ASSUME NEW t \in Task, LgMenu(t) PROVE TypeOK'
  <2>1. [work[t] EXCEPT !.at = "lg_query"] \in Load
    BY <1>t DEF Load
  <2>2. menu' \in [Token -> Query \union {None}]
    BY <1>t, <1>16 DEF LgMenu, PlaceInv, Menu
  <2> QED BY <1>t, <1>16, <2>1, <2>2 DEF LgMenu, conversation, history, TypeOK, Data, Load
<1>17. ASSUME NEW t \in Task, Fails(t) \/ Done(t) PROVE TypeOK'
  BY <1>t, <1>17, Empty DEF Fails, Done, End, conversation, history, TypeOK, Data, Load
<1>18. CASE Restart
  BY <1>t, <1>18, Empty, StepsFacts DEF Restart, Clear, TypeOK, Data, Load
<1>19. CASE UNCHANGED vars
  BY <1>t, <1>19 DEF vars, conversation, history, TypeOK, Data, Load
<1> QED BY <1>1, <1>2, <1>3, <1>4, <1>5, <1>6, <1>7, <1>8, <1>9, <1>10, <1>11, <1>12, <1>13,
           <1>14, <1>15, <1>16, <1>17, <1>18, <1>19 DEF Next, Chat, Resumed

-----------------------------------------------------------------------------
(* What a step finds in the data.                                          *)

\* Reading changes no field that has been answered.
LEMMA ReadAnswered ==
  ASSUME NEW f \in Form, NEW i \in Fields
  PROVE  /\ f[i] # None => Read(f)[i] = f[i]
         /\ \A g \in Form : g[i] = f[i] => Read(g)[i] = Read(f)[i]
BY DEF Form, Read

\* Nothing is asked of the data in the default state and at the first question.
LEMMA AnswersFresh ==
  ASSUME wizard' = "none" \/ step' = 1
  PROVE  DataIsAnswers'
BY DEF DataIsAnswers, Confirming

\* Every step leaves the data as the later questions expect it.
LEMMA AnswersStep == TypeOK /\ DataIsAnswers /\ [Next]_vars => DataIsAnswers'
<1> SUFFICES ASSUME TypeOK, DataIsAnswers, [Next]_vars PROVE DataIsAnswers'
  OBVIOUS
<1>t. /\ data \in Data /\ data.form \in Form /\ answers \in Form
      /\ \A t \in Task : work[t].form \in Form
      /\ \A x \in Node \union Value : x \in Answer /\ x # None
  BY NoneAssumption DEF TypeOK, Data, Answer
<1>1. ASSUME NEW n \in Node, ChooseNode(n) PROVE DataIsAnswers'
  <2>1. wizard' = "create" /\ step' = 2 /\ 1 \in Fields
    BY <1>1 DEF ChooseNode, GoTo, Fields
  <2>2. answers'[1] = n /\ data'.form = [data.form EXCEPT ![1] = n]
    BY <1>t, <1>1, <2>1, StoreForm, StoreData DEF ChooseNode
  <2>3. data'.form \in Form /\ data'.form[1] = n
    BY <1>t, <2>1, <2>2, StoreForm
  <2>4. Read(data'.form)[1] = n
    BY <1>t, <2>1, <2>3, ReadAnswered
  <2> QED BY <1>t, <2>1, <2>2, <2>4 DEF DataIsAnswers, Confirming
<1>2. ASSUME NEW i \in DOMAIN data.peer_ids, ChoosePeer(i) PROVE DataIsAnswers'
  <2>1. wizard' \in {"edit", "delete"} /\ step' = 2 /\ 1 \in Fields
    BY <1>2 DEF ChoosePeer, GoTo, Fields
  <2>2. i \in Answer /\ data.peer_ids[i] \in Peer
    BY <1>t, Listed DEF Answer
  <2>3. answers'[1] = i /\ data'.peer_id = data.peer_ids[i] /\ data'.peer_ids = data.peer_ids
    BY <1>t, <1>2, <2>1, <2>2, StoreForm DEF ChoosePeer, Data
  <2> QED BY <2>1, <2>3 DEF DataIsAnswers, PicksPeer, Confirming
<1>3. ASSUME NEW v \in Value, AnswerField(v) PROVE DataIsAnswers'
  <2>1. step \in Fields /\ step \in 2..7 /\ wizard' = wizard /\ step' = step + 1
    BY <1>3 DEF AnswerField, CreateAsks, EditAsks, GoTo, Fields
  <2>2. /\ answers' = [answers EXCEPT ![step] = v]
        /\ data'.form = [data.form EXCEPT ![step] = v]
        /\ data'.peer_id = data.peer_id /\ data'.peer_ids = data.peer_ids
    BY <1>t, <1>3, <2>1, StoreData DEF AnswerField, Data
  <2>3. /\ data'.form \in Form /\ answers'[step] = v /\ data'.form[step] = v
        /\ \A j \in Fields : j # step => answers'[j] = answers[j] /\ data'.form[j] = data.form[j]
    BY <1>t, <2>1, <2>2, StoreForm
  <2>4. CASE wizard = "create"
    <3>1. step' # Confirming
      BY <2>1 DEF Confirming
    <3>2. ASSUME NEW i \in 1..(step' - 1)
          PROVE  answers'[i] # None /\ Read(data'.form)[i] = answers'[i]
      <4>1. i \in Fields
        BY <2>1, <3>2 DEF Fields
      <4>2. CASE i = step
        BY <1>t, <2>3, <4>1, <4>2, ReadAnswered
      <4>3. CASE i # step
        <5>1. i \in 1..(step - 1) /\ step < Confirming
          BY <2>1, <3>2, <4>3 DEF Confirming
        <5>2. answers[i] # None /\ Read(data.form)[i] = answers[i]
          BY <2>4, <5>1 DEF DataIsAnswers
        <5>3. Read(data'.form)[i] = Read(data.form)[i]
          BY <1>t, <2>3, <4>1, <4>3, ReadAnswered
        <5> QED BY <2>3, <4>1, <4>3, <5>2, <5>3
      <4> QED BY <4>2, <4>3
    <3> QED BY <2>1, <2>4, <3>1, <3>2 DEF DataIsAnswers
  <2>5. CASE wizard = "edit"
    <3>1. PicksPeer(data.peer_id)'
      BY <2>1, <2>2, <2>3, <2>5 DEF DataIsAnswers, PicksPeer, Fields
    <3>2. ASSUME NEW i \in 2..(step' - 1)
          PROVE  answers'[i] # None /\ data'.form[i] = answers'[i]
      <4>1. i \in Fields /\ (i = step \/ i \in 2..(step - 1))
        BY <2>1, <3>2 DEF Fields
      <4> QED BY <1>t, <2>3, <2>5, <4>1 DEF DataIsAnswers
    <3> QED BY <2>1, <2>5, <3>1, <3>2 DEF DataIsAnswers
  <2> QED BY <1>3, <2>4, <2>5 DEF AnswerField, CreateAsks, EditAsks
<1>4. ASSUME NEW t \in Task, NEW v \in Value, AnswerBgp(t, v) PROVE DataIsAnswers'
  <2>1. wizard = "create" /\ step = 8 /\ wizard' = wizard /\ step' = step /\ 8 \in Fields
    BY <1>4 DEF AnswerBgp, Fields
  <2>2. answers' = [answers EXCEPT ![8] = v] /\ data'.form = [data.form EXCEPT ![8] = v]
    BY <1>t, <1>4, <2>1, StoreData DEF AnswerBgp
  <2>3. /\ data'.form \in Form
        /\ \A j \in Fields : j # 8 => answers'[j] = answers[j] /\ data'.form[j] = data.form[j]
    BY <1>t, <2>1, <2>2, StoreForm
  <2>4. ASSUME NEW i \in 1..7
        PROVE  answers'[i] # None /\ Read(data'.form)[i] = answers'[i]
    <3>1. i \in Fields /\ i # 8 /\ i \in 1..(step - 1)
      BY <2>1 DEF Fields
    <3>2. answers[i] # None /\ Read(data.form)[i] = answers[i]
      BY <2>1, <3>1 DEF DataIsAnswers, Confirming
    <3>3. Read(data'.form)[i] = Read(data.form)[i]
      BY <1>t, <2>3, <3>1, ReadAnswered
    <3> QED BY <2>3, <3>1, <3>2, <3>3
  <2> QED BY <2>1, <2>4 DEF DataIsAnswers, Confirming
<1>5. ASSUME NEW t \in Task, Previewed(t) PROVE DataIsAnswers'
  <2>1. data'.create_payload = accepted' /\ accepted' # None
    BY <1>t, <1>5, NoneAssumption DEF Previewed, Data
  <2> QED BY <1>5, <2>1 DEF Previewed, GoTo, DataIsAnswers, Confirming
<1>6. ASSUME NEW t \in Task, NEW k \in Token, LgNodes(t, k) PROVE DataIsAnswers'
  <2>1. /\ data'.form = data.form /\ data'.peer_id = data.peer_id
        /\ data'.peer_ids = data.peer_ids
        /\ data'.create_payload = data.create_payload
    BY <1>t, <1>6 DEF LgNodes, Data
  <2> QED BY <1>6, <2>1 DEF LgNodes, history, DataIsAnswers, PicksPeer
<1>7. ASSUME NEW t \in Task, Opened(t) PROVE DataIsAnswers'
  BY <1>7, AnswersFresh DEF Opened, GoTo
<1>8. CASE Cancel \/ Restart
  BY <1>8, AnswersFresh DEF Cancel, Restart, Clear
<1>9. ASSUME NEW t \in Task, \E w \in {"create", "edit", "delete"} : Enter(t, w) PROVE DataIsAnswers'
  BY <1>9, AnswersFresh DEF Enter, Clear
<1>10. ASSUME NEW t \in Task,
              ConfirmCreate(t) \/ ConfirmDelete(t) \/ \E v \in Value : AnswerMtu(t, v)
       PROVE  DataIsAnswers'
  BY <1>10, AnswersFresh DEF ConfirmCreate, ConfirmDelete, AnswerMtu, Clear
<1>11. CASE UNCHANGED <<conversation, history>>
  BY <1>11 DEF conversation, history, DataIsAnswers, PicksPeer
<1>12. ASSUME NEW t \in Task,
              \/ \E q \in Query : LgCommand(t, q)
              \/ \E k \in Token : Tap(t, k)
              \/ LgMenu(t) \/ Fails(t) \/ Done(t)
       PROVE  UNCHANGED <<conversation, history>>
  BY <1>12 DEF LgCommand, Tap, LgMenu, Fails, Done, conversation, history
<1>13. ASSUME NEW k \in Token, ForgetMenu(k) PROVE UNCHANGED <<conversation, history>>
  BY <1>13 DEF ForgetMenu, conversation, history
<1> QED BY <1>1, <1>2, <1>3, <1>4, <1>5, <1>6, <1>7, <1>8, <1>9, <1>10, <1>11, <1>12, <1>13
        DEF Next, Chat, Resumed, vars, conversation, history

-----------------------------------------------------------------------------
(* The looking glass.                                                      *)

\* A command that has no token yet is no menu, and neither is nothing.
LEMMA NoMenu == None \notin Menu /\ \A m \in Asked : m \notin Menu
BY NoneAssumption DEF Menu, Asked

LgInv == PlaceInv /\ TokenInv /\ TapRunsItsQuery

Elsewhere == {"idle", "opening", "preview", "posting"}

\* Steps after which nobody holds a menu that he did not hold before.
Quiet ==
  /\ \A t \in Task :
       \/ work'[t] = work[t]
       \/ work'[t].at \in Elsewhere /\ work'[t].lg = None
       \/ work'[t].at = "lg_nodes" /\ work'[t].lg \in Asked
  /\ data'.lg \in {data.lg, None}
  /\ menu' = menu

\* They keep the invariant.
LEMMA QuietStep ==
  ASSUME LgInv, Quiet
  PROVE  LgInv'
<1>1. PlaceInv'
  BY DEF LgInv, PlaceInv, Quiet, Elsewhere
<1>2. \A m \in Menu : Holds(m)' => Holds(m)
  BY NoMenu DEF Holds, Quiet
<1>3. TokenInv'
  BY <1>2 DEF LgInv, TokenInv, Quiet
<1>4. TapRunsItsQuery'
  BY DEF LgInv, TapRunsItsQuery, Quiet, Elsewhere
<1> QED BY <1>1, <1>3, <1>4 DEF LgInv

\* The initial states satisfy it.
LEMMA LgInit == Init => LgInv
<1> SUFFICES ASSUME Init PROVE LgInv
  OBVIOUS
<1>1. /\ \A t \in Task : work[t].at = "idle" /\ work[t].lg = None
      /\ data.lg = None
  BY Empty DEF Init, NoData
<1> QED BY <1>1, NoMenu DEF LgInv, PlaceInv, TokenInv, TapRunsItsQuery, Holds

\* Every step keeps it.
LEMMA LgStep == TypeOK /\ LgInv /\ [Next]_vars => LgInv'
<1> SUFFICES ASSUME TypeOK, LgInv, [Next]_vars PROVE LgInv'
  OBVIOUS
<1>t. /\ data \in Data /\ work \in [Task -> Load] /\ menu \in [Token -> Query \union {None}]
      /\ NoData.lg = None /\ Idle \in Load /\ Idle.lg = None /\ Idle.at \in Elsewhere
  BY Empty, TypeParts DEF NoData, Elsewhere
<1>1. CASE Cancel
  BY <1>t, <1>1, QuietStep DEF Cancel, Clear, Quiet
<1>2. ASSUME NEW n \in Node, ChooseNode(n) PROVE LgInv'
  BY <1>t, <1>2, QuietStep DEF ChooseNode, Quiet, Data
<1>3. ASSUME NEW i \in DOMAIN data.peer_ids, ChoosePeer(i) PROVE LgInv'
  BY <1>t, <1>3, QuietStep DEF ChoosePeer, Quiet, Data
<1>4. ASSUME NEW v \in Value, AnswerField(v) PROVE LgInv'
  BY <1>t, <1>4, QuietStep DEF AnswerField, Quiet, Data
<1>5. ASSUME NEW t \in Task, NEW w \in {"create", "edit", "delete"}, Enter(t, w) PROVE LgInv'
  BY <1>t, <1>5, QuietStep DEF Enter, Clear, Quiet, Load, Elsewhere
<1>6. ASSUME NEW t \in Task, NEW v \in Value, AnswerBgp(t, v) PROVE LgInv'
  <2>1. data'.lg = data.lg
    BY <1>t, <1>6 DEF AnswerBgp, Data
  <2>2. \A s \in Task : work'[s] = work[s] \/ (work'[s].at = "preview" /\ work'[s].lg = None)
    BY <1>t, <1>6 DEF AnswerBgp, Load
  <2>3. menu' = menu
    BY <1>6 DEF AnswerBgp
  <2> QED BY <2>1, <2>2, <2>3, QuietStep DEF Quiet, Elsewhere
<1>7. ASSUME NEW t \in Task, NEW v \in Value, AnswerMtu(t, v) PROVE LgInv'
  <2>1. \A s \in Task : work'[s] = work[s] \/ (work'[s].at = "posting" /\ work'[s].lg = None)
    BY <1>t, <1>7 DEF AnswerMtu, Load
  <2> QED BY <1>t, <1>7, <2>1, QuietStep DEF AnswerMtu, Clear, Quiet, Elsewhere
<1>8. ASSUME NEW t \in Task, ConfirmCreate(t) PROVE LgInv'
  <2>1. \A s \in Task : work'[s] = work[s] \/ (work'[s].at = "posting" /\ work'[s].lg = None)
    BY <1>t, <1>8 DEF ConfirmCreate, Load
  <2> QED BY <1>t, <1>8, <2>1, QuietStep DEF ConfirmCreate, Clear, Quiet, Elsewhere
<1>9. ASSUME NEW t \in Task, ConfirmDelete(t) PROVE LgInv'
  <2>1. \A s \in Task : work'[s] = work[s] \/ (work'[s].at = "posting" /\ work'[s].lg = None)
    BY <1>t, <1>9 DEF ConfirmDelete, Load
  <2> QED BY <1>t, <1>9, <2>1, QuietStep DEF ConfirmDelete, Clear, Quiet, Elsewhere
<1>10. ASSUME NEW t \in Task, NEW q \in Query, LgCommand(t, q) PROVE LgInv'
  <2>1. \A s \in Task : work'[s] = work[s] \/ (work'[s].at = "lg_nodes" /\ work'[s].lg \in Asked)
    BY <1>t, <1>10 DEF LgCommand, Load, Asked
  <2> QED BY <1>10, <2>1, QuietStep DEF LgCommand, conversation, Quiet
<1>11. ASSUME NEW t \in Task, Opened(t) PROVE LgInv'
  <2>1. data'.lg = data.lg
    BY <1>t, <1>11 DEF Opened, Data
  <2> QED BY <1>t, <1>11, <2>1, QuietStep DEF Opened, End, Quiet
<1>12. ASSUME NEW t \in Task, Previewed(t) PROVE LgInv'
  BY <1>t, <1>12, QuietStep DEF Previewed, End, Quiet, Data
<1>13. ASSUME NEW t \in Task, Fails(t) \/ Done(t) PROVE LgInv'
  BY <1>t, <1>13, QuietStep DEF Fails, Done, End, conversation, Quiet
<1>14. CASE Restart
  BY <1>t, <1>14, QuietStep DEF Restart, Clear, Quiet
<1>15. CASE UNCHANGED vars
  BY <1>15, QuietStep DEF vars, conversation, Quiet
<1>16. ASSUME NEW t \in Task, NEW k \in Token, LgNodes(t, k) PROVE LgInv'
  <2> DEFINE m == [token |-> k, query |-> work[t].lg.query]
  <2>1. m \in Menu /\ m.token = k
    BY <1>16 DEF LgNodes, LgInv, PlaceInv, Asked, Menu
  <2>2. data'.lg = m /\ menu' = menu
    BY <1>t, <1>16 DEF LgNodes, Data
  <2>3. /\ work'[t].at = "lg_menu" /\ work'[t].lg = m
        /\ \A s \in Task : s # t => work'[s] = work[s]
    BY <1>t, <1>16 DEF LgNodes, Load
  <2>4. menu[k] = None /\ \A n \in Menu : Holds(n) => n.token # k
    BY <1>16, NoMenu DEF LgNodes, Unused, Holds
  <2>5. \A n \in Menu : Holds(n)' => n = m \/ Holds(n)
    BY <2>2, <2>3 DEF Holds
  <2>6. PlaceInv'
    BY <2>1, <2>3 DEF LgInv, PlaceInv
  <2>7. TokenInv'
    BY <2>1, <2>2, <2>4, <2>5 DEF LgInv, TokenInv
  <2>8. TapRunsItsQuery'
    BY <2>2, <2>3 DEF LgInv, TapRunsItsQuery
  <2> QED BY <2>6, <2>7, <2>8 DEF LgInv
<1>17. ASSUME NEW t \in Task, LgMenu(t) PROVE LgInv'
  <2>1. work[t].lg \in Menu /\ work[t].lg.token \in Token /\ Holds(work[t].lg)
    BY <1>17 DEF LgMenu, LgInv, PlaceInv, Menu, Holds
  <2>2. data' = data /\ menu' = [menu EXCEPT ![work[t].lg.token] = work[t].lg.query]
    BY <1>17 DEF LgMenu, conversation
  <2>3. /\ work'[t].at = "lg_query" /\ work'[t].lg = work[t].lg
        /\ \A s \in Task : s # t => work'[s] = work[s]
    BY <1>t, <1>17 DEF LgMenu, Load
  <2>4. \A n \in Menu : Holds(n)' <=> Holds(n)
    BY <2>2, <2>3 DEF Holds
  <2>5. PlaceInv'
    BY <2>1, <2>3 DEF LgInv, PlaceInv
  <2>6. \A n \in Menu : Holds(n) =>
          IF n.token = work[t].lg.token THEN menu'[n.token] = n.query
                                        ELSE menu'[n.token] = menu[n.token]
    BY <1>t, <2>1, <2>2 DEF LgInv, TokenInv, Menu
  <2>7. TokenInv'
    BY <2>4, <2>6 DEF LgInv, TokenInv
  <2>8. TapRunsItsQuery'
    <3>1. ASSUME NEW s \in Task, work'[s].at = "lg_query"
          PROVE  menu'[work'[s].lg.token] = work'[s].lg.query
      <4>1. CASE s = t
        BY <2>1, <2>3, <2>6, <4>1
      <4>2. CASE s # t
        <5>1. work[s].at = "lg_query" /\ work'[s] = work[s]
          BY <2>3, <3>1, <4>2
        <5>2. work[s].lg \in Menu /\ Holds(work[s].lg) /\ menu[work[s].lg.token] = work[s].lg.query
          BY <5>1 DEF LgInv, PlaceInv, Holds, TapRunsItsQuery
        <5> QED BY <2>6, <5>1, <5>2
      <4> QED BY <4>1, <4>2
    <3> QED BY <3>1 DEF TapRunsItsQuery
  <2> QED BY <2>5, <2>7, <2>8 DEF LgInv
<1>18. ASSUME NEW t \in Task, NEW k \in Token, Tap(t, k) PROVE LgInv'
  <2>1. data.lg \in Menu /\ Holds(data.lg) /\ menu[data.lg.token] = data.lg.query
    BY <1>t, <1>18 DEF Tap, Data, Holds, LgInv, TokenInv
  <2>2. data' = data /\ menu' = menu
    BY <1>18 DEF Tap, conversation
  <2>3. /\ work'[t].at = "lg_query" /\ work'[t].lg = data.lg
        /\ \A s \in Task : s # t => work'[s] = work[s]
    BY <1>t, <1>18 DEF Tap, Load
  <2>4. \A n \in Menu : Holds(n)' => Holds(n)
    BY <2>2, <2>3 DEF Holds
  <2>5. PlaceInv' /\ TapRunsItsQuery'
    BY <2>1, <2>2, <2>3 DEF LgInv, PlaceInv, TapRunsItsQuery
  <2>6. TokenInv'
    BY <2>2, <2>4 DEF LgInv, TokenInv
  <2> QED BY <2>5, <2>6 DEF LgInv
<1>19. ASSUME NEW k \in Token, ForgetMenu(k) PROVE LgInv'
  <2>1. data' = data /\ work' = work /\ menu' = [menu EXCEPT ![k] = None]
    BY <1>19 DEF ForgetMenu, conversation
  <2>2. PlaceInv'
    BY <2>1 DEF LgInv, PlaceInv
  <2>3. TokenInv'
    BY <1>t, <2>1 DEF LgInv, TokenInv, Holds, Menu
  <2>4. ASSUME NEW t \in Task, work[t].at = "lg_query" PROVE menu'[work[t].lg.token] = work[t].lg.query
    <3>1. work[t].lg \in Menu
      BY <2>4 DEF LgInv, PlaceInv
    <3>2. work[t].lg.token \in Token /\ work[t].lg.token # k
      BY <1>19, <3>1, NoMenu DEF ForgetMenu, Menu
    <3> QED BY <1>t, <2>1, <2>4, <3>2 DEF LgInv, TapRunsItsQuery
  <2> QED BY <2>1, <2>2, <2>3, <2>4 DEF LgInv, TapRunsItsQuery
<1> QED BY <1>1, <1>2, <1>3, <1>4, <1>5, <1>6, <1>7, <1>8, <1>9, <1>10, <1>11, <1>12, <1>13,
           <1>14, <1>15, <1>16, <1>17, <1>18, <1>19 DEF Next, Chat, Resumed

-----------------------------------------------------------------------------
(* What is sent to the backend.                                            *)

\* The request that step of SendsWhatWasAnswered is about, for one task.
SendsAnswered(t) ==
  /\ Sends(t, "preview") => work'[t].form = answers'
  /\ Sends(t, "posting") /\ work'[t].op = "create" => accepted # None /\ work'[t].form = accepted
  /\ Sends(t, "posting") /\ work'[t].op = "edit" =>
       /\ PicksPeer(work'[t].peer)
       /\ \A i \in 2..3 : work'[t].form[i] = answers[i]
  /\ Sends(t, "posting") /\ work'[t].op = "delete" =>
       PicksPeer(work'[t].peer)

\* A step that leaves every task, or moves it to where nothing is sent from the data, sends nothing.
LEMMA SilentStep ==
  ASSUME \A t \in Task : work'[t] = work[t] \/ work'[t].at \notin {"preview", "posting"}
  PROVE  \A t \in Task : SendsAnswered(t)
BY DEF SendsAnswered, Sends

\* A step of one task sends at most that task's request.
LEMMA OneSends ==
  ASSUME NEW t \in Task, SendsAnswered(t), \A s \in Task : s # t => work'[s] = work[s]
  PROVE  \A s \in Task : SendsAnswered(s)
BY DEF SendsAnswered, Sends

\* Every step sends what was answered.
LEMMA SendsStep ==
  TypeOK /\ DataIsAnswers /\ [Next]_vars => \A t \in Task : SendsAnswered(t)
<1> SUFFICES ASSUME TypeOK, DataIsAnswers, [Next]_vars
             PROVE  \A t \in Task : SendsAnswered(t)
  OBVIOUS
<1>t. /\ data \in Data /\ data.form \in Form /\ answers \in Form /\ work \in [Task -> Load]
      /\ Idle \in Load /\ Idle.at = "idle" /\ NoForm \in Form
  BY Empty, TypeParts DEF Data
<1>1. ASSUME NEW t \in Task, NEW v \in Value, AnswerBgp(t, v) PROVE \A s \in Task : SendsAnswered(s)
  <2>1. wizard = "create" /\ step = 8 /\ 8 \in Fields /\ v \in Answer /\ v # None
    BY <1>1, NoneAssumption DEF AnswerBgp, Fields, Answer
  <2>2. answers' = [answers EXCEPT ![8] = v] /\ data'.form = [data.form EXCEPT ![8] = v]
    <3>1. data' = [data EXCEPT !.form[8] = v] /\ answers' = [answers EXCEPT ![8] = v]
      BY <1>1 DEF AnswerBgp
    <3> QED BY <1>t, <2>1, <3>1, StoreData
  <2>3. /\ answers' \in Form /\ data'.form \in Form /\ answers'[8] = v /\ data'.form[8] = v
        /\ \A j \in Fields : j # 8 => answers'[j] = answers[j] /\ data'.form[j] = data.form[j]
    <3>1. \A f \in Form : /\ [f EXCEPT ![8] = v] \in Form
                         /\ [f EXCEPT ![8] = v][8] = v
                         /\ \A j \in Fields : j # 8 => [f EXCEPT ![8] = v][j] = f[j]
      BY <2>1, StoreForm
    <3>2. answers' \in Form /\ answers'[8] = v /\ \A j \in Fields : j # 8 => answers'[j] = answers[j]
      BY <1>t, <2>2, <3>1
    <3>3. /\ data'.form \in Form /\ data'.form[8] = v
          /\ \A j \in Fields : j # 8 => data'.form[j] = data.form[j]
      BY <1>t, <2>2, <3>1
    <3> QED BY <3>2, <3>3
  <2>4. ASSUME NEW i \in Fields PROVE Read(data'.form)[i] = answers'[i]
    <3>1. CASE i = 8
      BY <2>1, <2>3, <3>1, ReadAnswered
    <3>2. CASE i # 8
      <4>1. i \in 1..(step - 1)
        BY <2>1, <3>2 DEF Fields
      <4>2. Read(data.form)[i] = answers[i]
        BY <2>1, <4>1 DEF DataIsAnswers, Confirming
      <4>3. Read(data'.form)[i] = Read(data.form)[i]
        BY <1>t, <2>3, <3>2, ReadAnswered
      <4> QED BY <2>3, <3>2, <4>2, <4>3
    <3> QED BY <3>1, <3>2
  <2>5. Read(data'.form) = answers'
    BY <2>3, <2>4, ReadForm DEF Form
  <2>6. /\ work'[t].form = Read(data'.form) /\ work'[t].at = "preview"
        /\ \A s \in Task : s # t => work'[s] = work[s]
    <3> DEFINE f == Read(data'.form)
    <3>1. work' = [work EXCEPT ![t] = [Idle EXCEPT !.at = "preview", !.form = f]]
      BY <1>1 DEF AnswerBgp
    <3> HIDE DEF f
    <3>2. /\ work'[t].form = f /\ work'[t].at = "preview"
          /\ \A s \in Task : s # t => work'[s] = work[s]
      BY <1>t, <3>1 DEF Load
    <3> QED BY <3>2 DEF f
  <2>7. SendsAnswered(t)
    BY <2>5, <2>6 DEF SendsAnswered, Sends
  <2> QED BY <2>6, <2>7, OneSends
<1>2. ASSUME NEW t \in Task, ConfirmCreate(t) PROVE \A s \in Task : SendsAnswered(s)
  <2>1. data.create_payload = accepted /\ accepted # None
    BY <1>2 DEF ConfirmCreate, DataIsAnswers
  <2>2. /\ work'[t].at = "posting" /\ work'[t].op = "create" /\ work'[t].form = data.create_payload
        /\ \A s \in Task : s # t => work'[s] = work[s]
    BY <1>t, <1>2 DEF ConfirmCreate, Load
  <2> QED BY <2>1, <2>2, OneSends DEF SendsAnswered, Sends
<1>3. ASSUME NEW t \in Task, NEW v \in Value, AnswerMtu(t, v) PROVE \A s \in Task : SendsAnswered(s)
  <2>1. wizard = "edit" /\ step = 4
    BY <1>3 DEF AnswerMtu
  <2>2. /\ PicksPeer(data.peer_id)
        /\ data.form[2] = answers[2] /\ data.form[3] = answers[3]
    BY <2>1 DEF DataIsAnswers
  <2> DEFINE f == [NoForm EXCEPT ![2] = data.form[2], ![3] = data.form[3], ![7] = v]
  <2>3. f[2] = data.form[2] /\ f[3] = data.form[3]
    BY <1>t DEF Form, Fields
  <2>4. /\ work'[t].at = "posting" /\ work'[t].op = "edit" /\ work'[t].peer = data.peer_id
        /\ work'[t].form = f
        /\ \A s \in Task : s # t => work'[s] = work[s]
    <3>1. work' = [work EXCEPT ![t] = [Idle EXCEPT !.at = "posting", !.op = "edit",
                                                   !.peer = data.peer_id, !.form = f]]
      BY <1>3 DEF AnswerMtu
    <3> HIDE DEF f
    <3> QED BY <1>t, <3>1 DEF Load
  <2>5. \A i \in 2..3 : work'[t].form[i] = answers[i]
    <3>1. \A i \in 2..3 : i = 2 \/ i = 3
      OBVIOUS
    <3> HIDE DEF f
    <3> QED BY <2>2, <2>3, <2>4, <3>1
  <2>6. SendsAnswered(t)
    BY <2>2, <2>4, <2>5 DEF SendsAnswered, Sends
  <2> QED BY <2>4, <2>6, OneSends
<1>4. ASSUME NEW t \in Task, ConfirmDelete(t) PROVE \A s \in Task : SendsAnswered(s)
  <2>1. PicksPeer(data.peer_id)
    BY <1>4 DEF ConfirmDelete, DataIsAnswers
  <2>2. /\ work'[t].at = "posting" /\ work'[t].op = "delete" /\ work'[t].peer = data.peer_id
        /\ \A s \in Task : s # t => work'[s] = work[s]
    BY <1>t, <1>4 DEF ConfirmDelete, Load
  <2> QED BY <2>1, <2>2, OneSends DEF SendsAnswered, Sends
<1>5. CASE UNCHANGED work
  BY <1>5, SilentStep
<1>6. ASSUME NEW t \in Task,
             \/ Opened(t) \/ Previewed(t) \/ LgMenu(t) \/ Fails(t) \/ Done(t)
             \/ \E k \in Token : Tap(t, k) \/ LgNodes(t, k)
             \/ \E q \in Query : LgCommand(t, q)
             \/ \E w \in {"create", "edit", "delete"} : Enter(t, w)
      PROVE  \A s \in Task : SendsAnswered(s)
  <2> DEFINE Silent(s) == work'[s] = work[s] \/ work'[s].at \notin {"preview", "posting"}
  <2>1. CASE Opened(t) \/ Previewed(t) \/ Fails(t) \/ Done(t)
    <3>1. work' = [work EXCEPT ![t] = Idle]
      BY <2>1 DEF Opened, Previewed, Fails, Done, End
    <3>2. \A s \in Task : Silent(s)
      BY <1>t, <3>1
    <3> QED BY <3>2, SilentStep
  <2>2. CASE LgMenu(t)
    <3>1. work' = [work EXCEPT ![t].at = "lg_query"]
      BY <2>2 DEF LgMenu
    <3>2. \A s \in Task : Silent(s)
      BY <1>t, <3>1 DEF Load
    <3> QED BY <3>2, SilentStep
  <2>3. ASSUME NEW k \in Token, Tap(t, k) PROVE \A s \in Task : SendsAnswered(s)
    <3>1. work' = [work EXCEPT ![t] = [Idle EXCEPT !.at = "lg_query", !.lg = data.lg]]
      BY <2>3 DEF Tap
    <3>2. \A s \in Task : Silent(s)
      BY <1>t, <3>1 DEF Load
    <3> QED BY <3>2, SilentStep
  <2>4. ASSUME NEW k \in Token, LgNodes(t, k) PROVE \A s \in Task : SendsAnswered(s)
    <3> DEFINE m == [token |-> k, query |-> work[t].lg.query]
    <3>1. work' = [work EXCEPT ![t].at = "lg_menu", ![t].lg = m]
      BY <2>4 DEF LgNodes
    <3> HIDE DEF m
    <3>2. \A s \in Task : Silent(s)
      BY <1>t, <3>1 DEF Load
    <3> QED BY <3>2, SilentStep
  <2>5. ASSUME NEW q \in Query, LgCommand(t, q) PROVE \A s \in Task : SendsAnswered(s)
    <3> DEFINE m == [token |-> None, query |-> q]
    <3>1. work' = [work EXCEPT ![t] = [Idle EXCEPT !.at = "lg_nodes", !.lg = m]]
      BY <2>5 DEF LgCommand
    <3> HIDE DEF m
    <3>2. \A s \in Task : Silent(s)
      BY <1>t, <3>1 DEF Load
    <3> QED BY <3>2, SilentStep
  <2>6. ASSUME NEW w \in {"create", "edit", "delete"}, Enter(t, w)
        PROVE  \A s \in Task : SendsAnswered(s)
    <3>1. work' = [work EXCEPT ![t] = [Idle EXCEPT !.at = "opening", !.op = w]]
      BY <2>6 DEF Enter
    <3>2. \A s \in Task : Silent(s)
      BY <1>t, <3>1 DEF Load
    <3> QED BY <3>2, SilentStep
  <2> QED BY <1>6, <2>1, <2>2, <2>3, <2>4, <2>5, <2>6
<1>7. CASE Restart
  <2>1. \A s \in Task : work'[s].at = "idle"
    BY <1>t, <1>7 DEF Restart
  <2> QED BY <2>1, SilentStep
<1>8. CASE Cancel
  BY <1>5, <1>8 DEF Cancel
<1>9. ASSUME NEW n \in Node, ChooseNode(n) PROVE UNCHANGED work
  BY <1>9 DEF ChooseNode
<1>10. ASSUME NEW i \in DOMAIN data.peer_ids, ChoosePeer(i) PROVE UNCHANGED work
  BY <1>10 DEF ChoosePeer
<1>11. ASSUME NEW v \in Value, AnswerField(v) PROVE UNCHANGED work
  BY <1>11 DEF AnswerField
<1>12. ASSUME NEW k \in Token, ForgetMenu(k) PROVE UNCHANGED work
  BY <1>12 DEF ForgetMenu
<1>13. CASE UNCHANGED vars
  BY <1>5, <1>13 DEF vars
<1> QED BY <1>1, <1>2, <1>3, <1>4, <1>5, <1>6, <1>7, <1>8, <1>9, <1>10, <1>11, <1>12, <1>13
        DEF Next, Chat, Resumed

-----------------------------------------------------------------------------
(* The results.                                                            *)

Inv == TypeOK /\ DataIsAnswers /\ LgInv

\* The invariant of the conversation: what the storage, the tasks and the menus in the chat hold
\* fits together, in whatever order updates and replies are handled.
THEOREM Invariance == Spec => []Inv
<1>1. Init => Inv
  <2>1. Init => DataIsAnswers
    BY DEF Init, DataIsAnswers, Confirming
  <2> QED BY <2>1, TypeInit, LgInit DEF Inv
<1>2. Inv /\ [Next]_vars => Inv'
  BY TypeStep, AnswersStep, LgStep DEF Inv, LgInv
<1> QED BY <1>1, <1>2, PTL DEF Spec

\* Every variable of the conversation keeps its type.
THEOREM TypeCorrect == Spec => []TypeOK
BY Invariance, PTL DEF Inv

\* No handler finds a key missing or left over from another run of the wizard.
THEOREM Answered == Spec => []DataIsAnswers
BY Invariance, PTL DEF Inv

\* A tapped button runs the query of its own menu.
THEOREM OwnQuery == Spec => []TapRunsItsQuery
<1>1. Inv => TapRunsItsQuery
  BY DEF Inv, LgInv
<1> QED BY <1>1, Invariance, PTL

\* Previews, creates, edits and deletes carry what the user answered, and are sent once.
THEOREM SentOnce == Spec => SendsWhatWasAnswered
<1>1. Inv /\ [Next]_vars => [\A t \in Task : SendsAnswered(t)]_vars
  BY SendsStep DEF Inv
<1>2. Spec => [][\A t \in Task : SendsAnswered(t)]_vars
  BY <1>1, Invariance, PTL DEF Spec
<1> QED BY <1>2 DEF SendsWhatWasAnswered, SendsAnswered
=============================================================================
