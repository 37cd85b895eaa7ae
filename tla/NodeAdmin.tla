------------------------------ MODULE NodeAdmin ------------------------------
(***************************************************************************)
(* One row of the nodes table and everybody who writes it: the admin pages *)
(* (app/web/admin.py), which create, edit, refresh, reset and delete it in *)
(* threads of their own, and the hub (app/node_ws.py), whose connection    *)
(* handlers store what the node reports in other threads, throttled by     *)
(* what they remember to have stored.  Peers refer to the row, and no      *)
(* foreign key is enforced.                                                *)
(*                                                                         *)
(* A session writes the columns that it changed (Merge); an UPDATE of a    *)
(* row that is gone raises.  Of the columns, enabled and wg_public_key are *)
(* kept: each of the others has one writer.  A link is a websocket that    *)
(* works on both ends; frames sent before it broke may still be read.      *)
(*                                                                         *)
(* Bounds: MaxFaults breaks of the link, failed writes, backend restarts   *)
(* and restarts of the node with another key, taken together.              *)
(***************************************************************************)
EXTENDS Naturals

CONSTANTS
  Conn,      \* connection objects; one is used again when nothing refers to it
  Worker,    \* threads that serve admin requests
  Key,       \* WireGuard keys the node is configured with
  None, Gone,
  MaxFaults

ASSUME DistinctAssumption == None # Gone /\ None \notin Conn \union Key
ASSUME BoundsAssumption == MaxFaults \in Nat

VARIABLES
  row,      \* the row: None before it is created, Gone after it is deleted
  token,    \* whether the node is configured with the row's token
  nodeKey,  \* the key in the node's configuration
  link,     \* the node's connection, or None
  pc,       \* pc[c]: what the handler of connection c is doing
  report,   \* report[c]: the key the node process at the other end reports
  store,    \* store[c]: the status write the handler waits for
  current,  \* the hub's connection of the node, or None
  due,      \* the hub thinks that STATUS_PERSIST_INTERVAL_SECONDS have gone by
  stored,   \* persisted_public_key, the key the hub thinks the row has
  task,     \* task[w]: what worker w is doing
  adding,   \* a peer's creation has found the node and not inserted its row yet
  peer,     \* a peer's row refers to the node
  raced,    \* a deletion of the node and the creation of a peer on it overlapped (history)
  faults

nodeVars == <<token, nodeKey>>
linkVars == <<link, report>>
hubVars == <<current, due, stored>>
adminVars == <<task, adding, peer, raced>>
vars == <<row, nodeVars, linkVars, pc, store, hubVars, adminVars, faults>>

Row == [enabled : BOOLEAN, key : Key \union {None}]
Store == [key : Key \union {None}, seen : Row \union {None, Gone}]
Task == [op : {"update", "refresh", "delete"}, step : {"fetch", "commit"},
         seen : Row \union {None}, enabled : BOOLEAN, key : Key \union {None}]

ASSUME NoRecord == {None, Gone} \intersect (Row \union Store \union Task) = {}

Exists == row \in Row

\* The type of every variable; a handler waits for a write exactly while there is one.
TypeOK ==
  /\ row \in Row \union {None, Gone}
  /\ token \in BOOLEAN /\ nodeKey \in Key
  /\ link \in Conn \union {None}
  /\ report \in [Conn -> Key \union {None}]
  /\ pc \in [Conn -> {"free", "accepted", "registering", "reading", "persisting"}]
  /\ store \in [Conn -> Store \union {None}]
  /\ \A c \in Conn : store[c] # None <=> pc[c] \in {"registering", "persisting"}
  /\ current \in Conn \union {None}
  /\ due \in BOOLEAN /\ stored \in Key \union {None}
  /\ task \in [Worker -> Task \union {None}]
  /\ adding \in BOOLEAN /\ peer \in BOOLEAN /\ raced \in BOOLEAN
  /\ faults \in 0..MaxFaults

Init ==
  /\ row = None
  /\ token = FALSE /\ nodeKey \in Key
  /\ link = None
  /\ report = [c \in Conn |-> None]
  /\ pc = [c \in Conn |-> "free"]
  /\ store = [c \in Conn |-> None]
  /\ current = None
  /\ due = TRUE /\ stored = None
  /\ task = [w \in Worker |-> None]
  /\ adding = FALSE /\ peer = FALSE /\ raced = FALSE
  /\ faults = 0

Fault == faults < MaxFaults /\ faults' = faults + 1

-----------------------------------------------------------------------------
(* The node and its connection. *)

\* The operator gives the node its row's token.
Configure ==
  /\ Exists /\ ~token
  /\ token' = TRUE
  /\ UNCHANGED <<row, nodeKey, linkVars, pc, store, hubVars, adminVars, faults>>

\* The node service restarts with another key.
Reconfigure(k) ==
  /\ Fault
  /\ k # nodeKey /\ nodeKey' = k
  /\ link' = None
  /\ UNCHANGED <<row, token, report, pc, store, hubVars, adminVars>>

LinkDrops ==
  /\ Fault
  /\ link # None /\ link' = None
  /\ UNCHANGED <<row, nodeVars, report, pc, store, hubVars, adminVars>>

\* _authenticate_node looks the row up before the websocket is accepted and registered.
Dial(c) ==
  /\ link = None
  /\ pc[c] = "free" /\ current # c
  /\ Exists /\ row.enabled /\ token
  /\ link' = c
  /\ report' = [report EXCEPT ![c] = nodeKey]
  /\ pc' = [pc EXCEPT ![c] = "accepted"]
  /\ UNCHANGED <<row, nodeVars, store, hubVars, adminVars, faults>>

-----------------------------------------------------------------------------
(* The hub. *)

\* register: the connection becomes the current one and the previous one is closed, even
\* if that is the newer one; then a thread stores last_seen_at.
Register(c) ==
  /\ pc[c] = "accepted"
  /\ current' = c
  /\ link' = IF link = current THEN None ELSE link
  /\ pc' = [pc EXCEPT ![c] = "registering"]
  /\ store' = [store EXCEPT ![c] = [key |-> None, seen |-> None]]
  /\ UNCHANGED <<row, nodeVars, report, due, stored, adminVars, faults>>

\* Mutation: a key is stored when it changes, not again after the interval.
HeartbeatIfChanged(c) ==
  /\ pc[c] = "reading" /\ current = c
  /\ report[c] # stored
  /\ due' = FALSE
  /\ stored' = report[c]
  /\ pc' = [pc EXCEPT ![c] = "persisting"]
  /\ store' = [store EXCEPT ![c] = [key |-> report[c], seen |-> None]]
  /\ UNCHANGED <<row, nodeVars, linkVars, current, adminVars, faults>>

\* record_seen and _persist_seen_if_needed, for a hello or heartbeat with the node's key:
\* what is remembered as stored is set before the thread writes it.
Heartbeat(c) ==
  /\ pc[c] = "reading" /\ current = c
  /\ due \/ report[c] # stored
  /\ due' = FALSE
  /\ stored' = report[c]
  /\ pc' = [pc EXCEPT ![c] = "persisting"]
  /\ store' = [store EXCEPT ![c] = [key |-> report[c], seen |-> None]]
  /\ UNCHANGED <<row, nodeVars, linkVars, current, adminVars, faults>>

Tick ==
  /\ ~due /\ due' = TRUE
  /\ UNCHANGED <<row, nodeVars, linkVars, pc, store, current, stored, adminVars, faults>>

\* _store_node_status, the query.
Load(c) ==
  /\ store[c] # None /\ store[c].seen = None
  /\ store' = [store EXCEPT ![c].seen = IF Exists THEN row ELSE Gone]
  /\ UNCHANGED <<row, nodeVars, linkVars, pc, hubVars, adminVars, faults>>

\* Mutation: the whole row is written as it was loaded.
MergeWhole(loaded, wanted) == wanted

\* The columns a session flushes are those it changed.
Merge(loaded, wanted) ==
  [f \in {"enabled", "key"} |-> IF wanted[f] # loaded[f] THEN wanted[f] ELSE row[f]]

\* Mutation: the write of a handler that has ended is not given up.
HandlerEndsWriting(c) ==
  /\ pc' = [pc EXCEPT ![c] = "free"]
  /\ report' = [report EXCEPT ![c] = None]
  /\ link' = IF link = c THEN None ELSE link
  /\ current' = IF current = c /\ pc[c] # "registering" THEN None ELSE current
  /\ UNCHANGED store

\* The handler ends: unregister, unless register itself raised, which stands outside the try.
HandlerEnds(c) ==
  /\ pc' = [pc EXCEPT ![c] = "free"]
  /\ store' = [store EXCEPT ![c] = None]
  /\ report' = [report EXCEPT ![c] = None]
  /\ link' = IF link = c THEN None ELSE link
  /\ current' = IF current = c /\ pc[c] # "registering" THEN None ELSE current

\* _store_node_status, the commit, and the return to the handler.
Stored(c) ==
  LET s == store[c] IN
  /\ s # None /\ s.seen # None
  /\ s.seen \in Row => Exists
  /\ row' = IF s.seen \in Row /\ s.key # None
              THEN Merge(s.seen, [s.seen EXCEPT !.key = s.key]) ELSE row
  /\ pc' = [pc EXCEPT ![c] = "reading"]
  /\ store' = [store EXCEPT ![c] = None]
  /\ due' = (due /\ pc[c] # "registering")
  /\ UNCHANGED <<nodeVars, linkVars, current, stored, adminVars, faults>>

\* The row was deleted between the query and the UPDATE, or the database fails.
StoreFails(c) ==
  LET s == store[c] IN
  /\ s # None
  /\ \/ s.seen \in Row /\ ~Exists /\ UNCHANGED faults
     \/ Fault
  /\ HandlerEnds(c)
  /\ UNCHANGED <<row, nodeVars, due, stored, adminVars>>

\* The websocket is closed and the handler has read what was in it.
Ends(c) ==
  /\ pc[c] = "reading" /\ link # c
  /\ HandlerEnds(c)
  /\ UNCHANGED <<row, nodeVars, due, stored, adminVars, faults>>

-----------------------------------------------------------------------------
(* The admin pages. *)

CreateNode(enabled) ==
  /\ row = None
  /\ row' = [enabled |-> enabled, key |-> None]
  /\ UNCHANGED <<nodeVars, linkVars, pc, store, hubVars, adminVars, faults>>

Deleting == \E w \in Worker : task[w] # None /\ task[w].op = "delete"

\* An admin request finds the node; what it found matters if it saves it.
Begin(w, op, step, enabled) ==
  /\ task[w] = None /\ Exists
  /\ task' = [task EXCEPT ![w] = [op |-> op, step |-> step, enabled |-> enabled, key |-> None,
                                   seen |-> IF step = "fetch" THEN row ELSE None]]
  /\ raced' = (raced \/ (adding /\ op = "delete"))
  /\ UNCHANGED <<row, nodeVars, linkVars, pc, store, hubVars, adding, peer, faults>>

Update(w, enabled) == Begin(w, "update", "fetch", enabled)

Refresh(w) == Exists /\ Begin(w, "refresh", "fetch", row.enabled)

\* Mutation: a node is deleted whatever its peers.
DeleteUnchecked(w) == Begin(w, "delete", "commit", FALSE)

Delete(w) == ~peer /\ Begin(w, "delete", "commit", FALSE)

\* fetch_node_public_key: over the current connection, unless the node is (now) disabled,
\* offline or does not answer.  A refresh without a key ends there.
Fetch(w) ==
  LET t == task[w]
      answers == IF t.enabled /\ current # None /\ link = current /\ pc[current] = "reading"
                   THEN {report[current]} ELSE {}
  IN
  /\ t # None /\ t.step = "fetch"
  /\ \E key \in answers \union {None} :
       task' = [task EXCEPT ![w] = IF t.op = "refresh" /\ key = None THEN None
                                     ELSE [t EXCEPT !.step = "commit", !.key = key]]
  /\ UNCHANGED <<row, nodeVars, linkVars, pc, store, hubVars, adding, peer, raced, faults>>

Wanted(t) ==
  [enabled |-> IF t.op = "update" THEN t.enabled ELSE t.seen.enabled,
   key |-> IF t.key # None THEN t.key ELSE t.seen.key]

\* The commit of an update or a refresh; it raises when the row is gone.
Save(w) ==
  LET t == task[w] IN
  /\ t # None /\ t.step = "commit" /\ t.op \in {"update", "refresh"}
  /\ row' = IF Exists THEN Merge(t.seen, Wanted(t)) ELSE row
  /\ task' = [task EXCEPT ![w] = None]
  /\ UNCHANGED <<nodeVars, linkVars, pc, store, hubVars, adding, peer, raced, faults>>

\* The commit of a deletion, which no connection of the node hears of.
DeleteRow(w) ==
  /\ task[w] # None /\ task[w].op = "delete"
  /\ row' = Gone
  /\ task' = [task EXCEPT ![w] = None]
  /\ UNCHANGED <<nodeVars, linkVars, pc, store, hubVars, adding, peer, raced, faults>>

\* A peer is about to come to the node: create_peer has found it, or the admin's create or move
\* has, which do not ask whether it is enabled.
AddPeer ==
  /\ ~peer /\ ~adding
  /\ Exists
  /\ adding' = TRUE
  /\ raced' = Deleting
  /\ UNCHANGED <<row, nodeVars, linkVars, pc, store, hubVars, task, peer, faults>>

\* Its INSERT, for which the database asks nothing of the node.
InsertPeer ==
  /\ adding /\ adding' = FALSE
  /\ peer' = TRUE
  /\ UNCHANGED <<row, nodeVars, linkVars, pc, store, hubVars, task, raced, faults>>

RemovePeer ==
  /\ peer /\ peer' = FALSE
  /\ raced' = FALSE
  /\ UNCHANGED <<row, nodeVars, linkVars, pc, store, hubVars, task, adding, faults>>

\* The running connection stays.
ResetToken ==
  /\ Exists /\ token
  /\ token' = FALSE
  /\ UNCHANGED <<row, nodeKey, linkVars, pc, store, hubVars, adminVars, faults>>

-----------------------------------------------------------------------------
BackendRestart ==
  /\ Fault
  /\ link' = None
  /\ report' = [c \in Conn |-> None]
  /\ pc' = [c \in Conn |-> "free"]
  /\ store' = [c \in Conn |-> None]
  /\ current' = None
  /\ due' = TRUE /\ stored' = None
  /\ task' = [w \in Worker |-> None]
  /\ adding' = FALSE
  /\ UNCHANGED <<row, nodeVars, peer, raced>>

Threads(c) == Load(c) \/ Stored(c) \/ StoreFails(c)
Finish(w) == Fetch(w) \/ Save(w) \/ DeleteRow(w)

Next ==
  \/ Configure \/ LinkDrops \/ Tick \/ ResetToken \/ BackendRestart
  \/ AddPeer \/ InsertPeer \/ RemovePeer
  \/ \E k \in Key : Reconfigure(k)
  \/ \E c \in Conn : Dial(c) \/ Register(c) \/ Heartbeat(c) \/ Threads(c) \/ Ends(c)
  \/ \E enabled \in BOOLEAN : CreateNode(enabled)
  \/ \E w \in Worker :
       \/ \E enabled \in BOOLEAN : Update(w, enabled)
       \/ Refresh(w) \/ Delete(w) \/ Finish(w)

SafeSpec == Init /\ [][Next]_vars

(***************************************************************************)
(* Fairness: the node dials when it has no link and sends a heartbeat      *)
(* every 20 s; the event loop runs handlers that are ready and threads go  *)
(* on; time passes.  Nothing is assumed of the operators.                  *)
(***************************************************************************)
Fairness ==
  /\ WF_vars(Tick)
  /\ \A c \in Conn :
       /\ WF_vars(Dial(c)) /\ WF_vars(Register(c))
       /\ WF_vars(Heartbeat(c) \/ Ends(c)) /\ WF_vars(Threads(c))
  /\ \A w \in Worker : WF_vars(Finish(w))

Spec == SafeSpec /\ Fairness

-----------------------------------------------------------------------------
(* Properties. *)

\* A peer's row refers to a node that exists, unless its INSERT and the node's deletion
\* overlapped: admin_delete_node looks for peers in a step of its own.
NoOrphanPeer == peer /\ ~raced => Exists

EndsUpdate(w, enabled) ==
  /\ task[w] # None /\ task'[w] = None
  /\ task[w].op = "update" /\ task[w].enabled = enabled

\* Admin saves and status writes of the hub, which load the whole row and hold it while
\* they wait, undo nothing of each other: enabled changes to what an update asks for, and
\* the key to one the node reported to the writer; once known it is never blank again.
ColumnsHaveOneWriter ==
  [][ Exists /\ row' \in Row =>
       /\ row'.enabled # row.enabled => \E w \in Worker : EndsUpdate(w, row'.enabled)
       /\ row'.key # row.key =>
            \/ \E w \in Worker : task[w] # None /\ task'[w] = None /\ row'.key = task[w].key
            \/ \E c \in Conn : store[c] # None /\ store'[c] = None /\ row'.key = store[c].key
       /\ row.key # None => row'.key # None ]_vars

\* The key that peers are shown catches up with the node's, whatever writes failed or came
\* late and though the hub remembers a key as stored before it is: if in the end the node
\* is enabled and has its token, its row has its key.
KeyCatchesUp ==
  <>[](Exists /\ row.enabled /\ token) => <>[](Exists /\ row.key = nodeKey)
=============================================================================
