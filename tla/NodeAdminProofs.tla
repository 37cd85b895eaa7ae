---------------------------- MODULE NodeAdminProofs ----------------------------
(***************************************************************************)
(* Proofs about NodeAdmin, for any connections, workers and keys and any   *)
(* number of faults.  IInv says what an admin request holds at each step,  *)
(* and why the two look-ups that precede a deletion and a peer's INSERT    *)
(* leave no orphan when they do not overlap.                               *)
(***************************************************************************)
EXTENDS NodeAdmin, TLAPS

\* A save has the row that it loaded; a deletion waits for nothing.
TaskInv ==
  \A w \in Worker : task[w] # None =>
    IF task[w].op = "delete" THEN task[w].step = "commit" ELSE task[w].seen \in Row

\* While a peer is there or about to be inserted, nobody is deleting its node.
PeerInv ==
  /\ ~(adding /\ peer)
  /\ (adding \/ peer) /\ ~raced => Exists /\ ~Deleting

IInv == TypeOK /\ TaskInv /\ PeerInv

USE DistinctAssumption, BoundsAssumption, NoRecord
    DEF nodeVars, linkVars, hubVars, adminVars, vars

-----------------------------------------------------------------------------
(* What a session writes. *)
LEMMA MergeType ==
  ASSUME row \in Row, NEW loaded \in Row, NEW wanted \in Row
  PROVE  /\ Merge(loaded, wanted) \in Row
         /\ Merge(loaded, wanted).enabled =
              IF wanted.enabled # loaded.enabled THEN wanted.enabled ELSE row.enabled
         /\ Merge(loaded, wanted).key =
              IF wanted.key # loaded.key THEN wanted.key ELSE row.key
BY DEF Merge, Row

LEMMA WantedType ==
  ASSUME NEW t \in Task, t.seen \in Row
  PROVE  /\ Wanted(t) \in Row
         /\ Wanted(t).enabled = IF t.op = "update" THEN t.enabled ELSE t.seen.enabled
         /\ Wanted(t).key = IF t.key # None THEN t.key ELSE t.seen.key
BY DEF Wanted, Row, Task

LEMMA Records ==
  /\ \A r \in Row : r # None /\ r # Gone
  /\ \A s \in Store : s # None
  /\ \A t \in Task : t # None
OBVIOUS

-----------------------------------------------------------------------------
(* The types, in groups that an action touches or leaves alone. *)
ConnTypes ==
  /\ report \in [Conn -> Key \union {None}]
  /\ pc \in [Conn -> {"free", "accepted", "registering", "reading", "persisting"}]
  /\ store \in [Conn -> Store \union {None}]
  /\ \A c \in Conn : store[c] # None <=> pc[c] \in {"registering", "persisting"}
  /\ link \in Conn \union {None}
  /\ current \in Conn \union {None}

OtherTypes ==
  /\ row \in Row \union {None, Gone}
  /\ token \in BOOLEAN /\ nodeKey \in Key
  /\ due \in BOOLEAN /\ stored \in Key \union {None}
  /\ adding \in BOOLEAN /\ peer \in BOOLEAN /\ raced \in BOOLEAN
  /\ faults \in 0..MaxFaults

TaskTypes == task \in [Worker -> Task \union {None}]

LEMMA Types ==
  /\ TypeOK <=> ConnTypes /\ OtherTypes /\ TaskTypes
  /\ TypeOK' <=> ConnTypes' /\ OtherTypes' /\ TaskTypes'
BY DEF TypeOK, ConnTypes, OtherTypes, TaskTypes

\* A handler's turn to a step in which it waits for a write, or does not.
LEMMA Turn ==
  ASSUME ConnTypes, NEW c \in Conn, NEW step, NEW s \in Store \union {None},
         step \in {"free", "accepted", "registering", "reading", "persisting"},
         s # None <=> step \in {"registering", "persisting"},
         pc' = [pc EXCEPT ![c] = step], store' = [store EXCEPT ![c] = s],
         report' \in [Conn -> Key \union {None}],
         link' \in Conn \union {None}, current' \in Conn \union {None}
  PROVE  ConnTypes'
<1>1. \A d \in Conn : (store[d] # None)' <=> (pc[d] \in {"registering", "persisting"})'
  <2> TAKE d \in Conn
  <2>1. CASE d = c
    BY <2>1 DEF ConnTypes
  <2>2. CASE d # c
    BY <2>2 DEF ConnTypes
  <2> QED
    BY <2>1, <2>2
<1> QED
  BY <1>1 DEF ConnTypes

LEMMA InitIInv == Init => IInv
<1> SUFFICES ASSUME Init PROVE IInv
  OBVIOUS
<1>1. ConnTypes
  BY DEF Init, ConnTypes
<1>2. TaskTypes
  BY DEF Init, TaskTypes
<1>4. OtherTypes
  <2>1. token \in BOOLEAN /\ due \in BOOLEAN
        /\ adding \in BOOLEAN /\ peer \in BOOLEAN /\ raced \in BOOLEAN
    BY Zenon DEF Init
  <2>2. row \in Row \union {None, Gone} /\ nodeKey \in Key /\ stored \in Key \union {None}
    BY Zenon DEF Init
  <2>3. faults \in 0..MaxFaults
    BY DEF Init
  <2> QED
    BY <2>1, <2>2, <2>3, Zenon DEF OtherTypes
<1>3. TaskInv /\ PeerInv
  BY DEF Init, TaskInv, PeerInv
<1> QED
  BY <1>1, <1>2, <1>4, <1>3, Types DEF IInv

-----------------------------------------------------------------------------
(* The node and the hub: neither tasks nor peers change. *)

LEMMA HandlerEndsTypes ==
  ASSUME ConnTypes, NEW c \in Conn, HandlerEnds(c)
  PROVE  ConnTypes'
BY Turn, "free" \in {"free"} DEF HandlerEnds, ConnTypes

\* The row of a node that exists is written, never taken away.
LEMMA HubKeepsTasks ==
  ASSUME IInv, UNCHANGED adminVars, Exists => Exists'
  PROVE  TaskInv' /\ PeerInv' /\ TaskTypes'
BY DEF IInv, TaskInv, PeerInv, Deleting, TypeOK, TaskTypes

LEMMA HubStep ==
  ASSUME IInv, NEW c \in Conn,
         Dial(c) \/ Register(c) \/ Heartbeat(c) \/ Threads(c) \/ Ends(c)
  PROVE  IInv'
<1> USE DEF IInv
<1>0. ConnTypes /\ OtherTypes
  BY Types
<1>1. CASE Dial(c)
  <2>1. ConnTypes'
    <3>1. store' = [store EXCEPT ![c] = None]
      BY <1>0, <1>1 DEF Dial, ConnTypes
    <3> QED
      BY <1>0, <1>1, <3>1, Turn DEF Dial, ConnTypes, OtherTypes
  <2> QED
    BY <1>0, <1>1, <2>1, Types, HubKeepsTasks DEF Dial, OtherTypes, Exists
<1>2. CASE Register(c)
  <2>1. ConnTypes'
    <3>1. [key |-> None, seen |-> None] \in Store
      BY DEF Store
    <3> QED
      BY <1>0, <1>2, <3>1, Records, Turn DEF Register, ConnTypes
  <2> QED
    BY <1>0, <1>2, <2>1, Types, HubKeepsTasks DEF Register, OtherTypes, Exists
<1>3. CASE Heartbeat(c)
  <2>1. ConnTypes'
    <3>1. [key |-> report[c], seen |-> None] \in Store
      BY <1>0 DEF Store, ConnTypes
    <3> QED
      BY <1>0, <1>3, <3>1, Records, Turn DEF Heartbeat, ConnTypes
  <2>2. OtherTypes'
    BY <1>0, <1>3 DEF Heartbeat, OtherTypes, ConnTypes
  <2> QED
    BY <1>3, <2>1, <2>2, Types, HubKeepsTasks DEF Heartbeat, Exists
<1>4. CASE Load(c)
  <2>1. ConnTypes'
    <3> DEFINE s == [store[c] EXCEPT !.seen = IF Exists THEN row ELSE Gone]
    <3>1. s \in Store
      BY <1>0, <1>4 DEF Load, Store, ConnTypes, Exists
    <3>2. pc' = [pc EXCEPT ![c] = pc[c]] /\ store' = [store EXCEPT ![c] = s]
      BY <1>0, <1>4 DEF Load, ConnTypes
    <3>3. s # None /\ pc[c] \in {"registering", "persisting"}
      BY <1>0, <1>4, <3>1, Records DEF Load, ConnTypes
    <3> HIDE DEF s
    <3> QED
      BY <1>0, <1>4, <3>1, <3>2, <3>3, Turn DEF Load, ConnTypes
  <2> QED
    BY <1>0, <1>4, <2>1, Types, HubKeepsTasks DEF Load, OtherTypes, Exists
<1>5. CASE Stored(c)
  <2>1. ConnTypes'
    BY <1>0, <1>5, Turn DEF Stored, ConnTypes
  <2>2. row' \in Row \union {None, Gone} /\ (Exists => Exists')
    <3>1. CASE store[c].seen \in Row /\ store[c].key # None
      <4>1. [store[c].seen EXCEPT !.key = store[c].key] \in Row
        BY <1>0, <1>5, <3>1 DEF Stored, Store, Row, ConnTypes
      <4> QED
        BY <1>0, <1>5, <3>1, <4>1, MergeType DEF Stored, Exists
    <3>2. CASE ~(store[c].seen \in Row /\ store[c].key # None)
      BY <1>0, <1>5, <3>2 DEF Stored, OtherTypes, Exists
    <3> QED
      BY <3>1, <3>2
  <2>3. OtherTypes'
    BY <1>0, <1>5, <2>2 DEF Stored, OtherTypes
  <2> QED
    BY <1>5, <2>1, <2>2, <2>3, Types, HubKeepsTasks DEF Stored
<1>6. CASE StoreFails(c)
  <2>1. ConnTypes'
    BY <1>0, <1>6, HandlerEndsTypes DEF StoreFails
  <2>2. OtherTypes'
    BY <1>0, <1>6 DEF StoreFails, OtherTypes, Fault
  <2> QED
    BY <1>6, <2>1, <2>2, Types, HubKeepsTasks DEF StoreFails, Exists
<1>7. CASE Ends(c)
  <2>1. ConnTypes'
    BY <1>0, <1>7, HandlerEndsTypes DEF Ends
  <2> QED
    BY <1>0, <1>7, <2>1, Types, HubKeepsTasks DEF Ends, OtherTypes, Exists
<1> QED
  BY <1>1, <1>2, <1>3, <1>4, <1>5, <1>6, <1>7 DEF Threads
-----------------------------------------------------------------------------
(* The node's side, time, and a backend that starts again. *)

LEMMA OtherStep ==
  ASSUME IInv,
         \/ Configure \/ LinkDrops \/ Tick \/ ResetToken \/ BackendRestart
         \/ \E k \in Key : Reconfigure(k)
         \/ \E enabled \in BOOLEAN : CreateNode(enabled)
  PROVE  IInv'
<1> USE DEF IInv
<1>0. ConnTypes /\ OtherTypes
  BY Types
<1>1. CASE Configure \/ Tick \/ ResetToken
  BY <1>0, <1>1, Types, HubKeepsTasks
     DEF Configure, Tick, ResetToken, ConnTypes, OtherTypes, Exists
<1>2. CASE LinkDrops \/ \E k \in Key : Reconfigure(k)
  BY <1>0, <1>2, Types, HubKeepsTasks
     DEF LinkDrops, Reconfigure, Fault, ConnTypes, OtherTypes, Exists
<1>3. ASSUME NEW enabled \in BOOLEAN, CreateNode(enabled) PROVE IInv'
  <2>1. row' \in Row
    BY <1>3 DEF CreateNode, Row
  <2> QED
    BY <1>0, <1>3, <2>1, Types, HubKeepsTasks DEF CreateNode, ConnTypes, OtherTypes, Exists
<1>4. CASE BackendRestart
  <2>1. ConnTypes' /\ TaskTypes'
    BY <1>4 DEF BackendRestart, ConnTypes, TaskTypes
  <2>3. OtherTypes'
    <3>1. faults' \in 0..MaxFaults
      BY <1>0, <1>4 DEF BackendRestart, Fault, OtherTypes
    <3>2. due' \in BOOLEAN /\ adding' \in BOOLEAN /\ stored' \in Key \union {None}
      BY <1>4, Zenon DEF BackendRestart
    <3>3. UNCHANGED <<row, nodeVars, peer, raced>>
      BY <1>4 DEF BackendRestart
    <3> QED
      BY <1>0, <3>1, <3>2, <3>3, Zenon DEF OtherTypes
  <2>2. TaskInv' /\ PeerInv'
    BY <1>4 DEF BackendRestart, TaskInv, PeerInv, Exists, Deleting
  <2> QED
    BY <2>1, <2>2, <2>3, Types
<1> QED
  BY <1>1, <1>2, <1>3, <1>4

-----------------------------------------------------------------------------
(* The admin pages and the peers. *)

\* Connections know nothing of what admin requests do.
LEMMA AdminKeepsConns ==
  ASSUME ConnTypes, UNCHANGED <<linkVars, pc, store, current>>
  PROVE  ConnTypes'
BY DEF ConnTypes

LEMMA PeerStep ==
  ASSUME IInv, AddPeer \/ InsertPeer \/ RemovePeer
  PROVE  IInv'
<1> USE DEF IInv
<1>0. ConnTypes /\ OtherTypes /\ TaskTypes
  BY Types
<1>1. ConnTypes' /\ OtherTypes' /\ TaskTypes'
  BY <1>0, AdminKeepsConns
     DEF AddPeer, InsertPeer, RemovePeer, Deleting, OtherTypes, TaskTypes
<1>2. TaskInv' /\ (Deleting' <=> Deleting) /\ (Exists' <=> Exists)
  BY DEF AddPeer, InsertPeer, RemovePeer, Deleting, Exists, TaskInv
<1>3. PeerInv'
  <2>1. CASE AddPeer
    BY <1>2, <2>1 DEF AddPeer, PeerInv
  <2>2. CASE InsertPeer \/ RemovePeer
    BY <1>2, <2>2 DEF InsertPeer, RemovePeer, PeerInv
  <2> QED
    BY <2>1, <2>2
<1> QED
  BY <1>1, <1>2, <1>3, Types

LEMMA BeginStep ==
  ASSUME IInv, NEW w \in Worker,
         Delete(w) \/ Refresh(w) \/ \E enabled \in BOOLEAN : Update(w, enabled)
  PROVE  IInv'
<1> USE DEF IInv
<1>0. ConnTypes /\ OtherTypes /\ TaskTypes
  BY Types
<1>1. PICK op \in {"update", "refresh", "delete"}, step \in {"fetch", "commit"},
           enabled \in BOOLEAN :
        /\ Begin(w, op, step, enabled)
        /\ op = "delete" <=> step = "commit"
        /\ op = "delete" => ~peer
  BY DEF Delete, Refresh, Update, Exists, Row
<1> DEFINE t == [op |-> op, step |-> step, enabled |-> enabled, key |-> None,
                 seen |-> IF step = "fetch" THEN row ELSE None]
<1>2. t \in Task /\ task' = [task EXCEPT ![w] = t] /\ Exists
  BY <1>1 DEF Begin, Task, Exists
<1>3. TaskTypes' /\ ConnTypes' /\ OtherTypes'
  BY <1>0, <1>1, <1>2, AdminKeepsConns DEF Begin, TaskTypes, OtherTypes
<1>4. task'[w] = t /\ \A v \in Worker \ {w} : task'[v] = task[v]
  BY <1>0, <1>2 DEF TaskTypes
<1>5. t.op = op /\ t.step = step /\ (step = "fetch" => t.seen \in Row)
  BY <1>2 DEF Exists
<1> HIDE DEF t
<1>6. TaskInv'
  BY <1>1, <1>4, <1>5 DEF TaskInv
<1>7. PeerInv'
  BY <1>0, <1>1, <1>2, <1>4, <1>5 DEF Begin, PeerInv, Deleting, Exists, OtherTypes
<1> QED
  BY <1>3, <1>6, <1>7, Types

LEMMA FinishStep ==
  ASSUME IInv, NEW w \in Worker, Finish(w)
  PROVE  IInv'
<1> USE DEF IInv
<1>0. ConnTypes /\ OtherTypes /\ TaskTypes
  BY Types
<1>1. CASE Fetch(w)
  <2> DEFINE t == task[w]
  <2>1. t \in Task /\ t.step = "fetch" /\ t.op # "delete" /\ t.seen \in Row
    BY <1>0, <1>1 DEF Fetch, TaskTypes, TaskInv
  <2>6. current # None => report[current] \in Key \union {None}
    BY <1>0 DEF ConnTypes
  <2>2. PICK key \in Key \union {None} :
          task' = [task EXCEPT ![w] = IF t.op = "refresh" /\ key = None THEN None
                                        ELSE [t EXCEPT !.step = "commit", !.key = key]]
    BY <1>1, <2>6 DEF Fetch
  <2> DEFINE u == [t EXCEPT !.step = "commit", !.key = key]
  <2>3. u \in Task /\ u.op = t.op /\ u.seen = t.seen
    BY <2>1 DEF Task
  <2>4. task' = [task EXCEPT ![w] = None] \/ task' = [task EXCEPT ![w] = u]
    BY <2>2
  <2> HIDE DEF u
  <2>5. TaskTypes' /\ TaskInv'
    BY <1>0, <2>1, <2>3, <2>4 DEF TaskTypes, TaskInv
  <2>7. ConnTypes' /\ OtherTypes' /\ PeerInv'
    BY <1>0, <1>1, <2>1, <2>3, <2>4, AdminKeepsConns
       DEF Fetch, OtherTypes, TaskTypes, PeerInv, Deleting, Exists
  <2> QED
    BY <2>5, <2>7, Types
<1>2. CASE Save(w)
  <2>1. task[w] \in Task /\ task[w].seen \in Row
    BY <1>0, <1>2 DEF Save, TaskTypes, TaskInv
  <2>2. row' \in Row \union {None, Gone} /\ (Exists => Exists')
    BY <1>0, <1>2, <2>1, WantedType, MergeType DEF Save, OtherTypes, Exists
  <2>3. task' = [task EXCEPT ![w] = None]
    BY <1>2 DEF Save
  <2>4. TaskTypes' /\ TaskInv'
    BY <1>0, <2>3 DEF TaskTypes, TaskInv
  <2>5. ConnTypes' /\ OtherTypes' /\ PeerInv'
    BY <1>0, <1>2, <2>2, <2>3, AdminKeepsConns
       DEF Save, OtherTypes, TaskTypes, PeerInv, Deleting
  <2> QED
    BY <2>4, <2>5, Types
<1>3. CASE DeleteRow(w)
  <2>1. task' = [task EXCEPT ![w] = None] /\ Deleting
    BY <1>3 DEF DeleteRow, Deleting
  <2>2. TaskTypes' /\ TaskInv'
    BY <1>0, <2>1 DEF TaskTypes, TaskInv
  <2>3. ConnTypes' /\ OtherTypes' /\ PeerInv'
    BY <1>0, <1>3, <2>1, AdminKeepsConns DEF DeleteRow, OtherTypes, PeerInv
  <2> QED
    BY <2>2, <2>3, Types
<1> QED
  BY <1>1, <1>2, <1>3 DEF Finish

LEMMA NextIInv == IInv /\ [Next]_vars => IInv'
<1> SUFFICES ASSUME IInv, [Next]_vars PROVE IInv'
  OBVIOUS
<1>1. CASE UNCHANGED vars
  BY <1>1 DEF IInv, TypeOK, TaskInv, PeerInv, Deleting, Exists
<1>2. CASE Next
  BY <1>2, HubStep, OtherStep, PeerStep, BeginStep, FinishStep DEF Next
<1> QED
  BY <1>1, <1>2

LEMMA Inductive == SafeSpec => []IInv
BY InitIInv, NextIInv, PTL DEF SafeSpec

-----------------------------------------------------------------------------
\* Every variable keeps its type: a handler waits for a write of a node's status exactly
\* while one is under way.
THEOREM TypeCorrect == Spec => []TypeOK
<1>1. IInv => TypeOK
  BY DEF IInv
<1> QED
  BY <1>1, Inductive, PTL DEF Spec

\* No deletion leaves an orphan unless it overlapped a creation: admin_delete_node, create_peer.
THEOREM PeersHaveNodes == Spec => []NoOrphanPeer
<1>1. IInv => NoOrphanPeer
  BY DEF IInv, PeerInv, NoOrphanPeer
<1> QED
  BY <1>1, Inductive, PTL DEF Spec

LEMMA OneWriter ==
  ASSUME IInv, Next, Exists, row' \in Row
  PROVE  /\ row'.enabled # row.enabled => \E w \in Worker : EndsUpdate(w, row'.enabled)
         /\ row'.key # row.key =>
              \/ \E w \in Worker : task[w] # None /\ task'[w] = None /\ row'.key = task[w].key
              \/ \E c \in Conn : store[c] # None /\ store'[c] = None /\ row'.key = store[c].key
         /\ row.key # None => row'.key # None
<1>0. ConnTypes /\ TaskTypes /\ TaskInv
  BY Types DEF IInv
<1>1. ASSUME NEW c \in Conn, Stored(c), store[c].seen \in Row /\ store[c].key # None
      PROVE  /\ row'.enabled = row.enabled
             /\ row'.key # row.key => row'.key = store[c].key /\ row'.key # None
  <2> DEFINE seen == store[c].seen
             key == store[c].key
             wanted == [seen EXCEPT !.key = key]
  <2>1. seen \in Row /\ key \in Key /\ key # None
    BY <1>0, <1>1, Records DEF Stored, Store, ConnTypes
  <2>2. row \in Row /\ row' = Merge(seen, wanted)
    BY <1>1 DEF Stored, Exists
  <2> HIDE DEF seen, key
  <2>3. wanted \in Row /\ wanted.enabled = seen.enabled /\ wanted.key = key
    BY <2>1 DEF Row
  <2> HIDE DEF wanted
  <2>4. row'.enabled = row.enabled /\ row'.key = IF key # seen.key THEN key ELSE row.key
    BY <2>1, <2>2, <2>3, MergeType
  <2> QED
    BY <2>1, <2>4 DEF key
<1>2. ASSUME NEW w \in Worker, Save(w)
      PROVE  /\ row'.enabled # row.enabled =>
                  task[w].op = "update" /\ task[w].enabled = row'.enabled
             /\ row'.key # row.key => row'.key = task[w].key /\ row'.key # None
  <2>1. task[w] \in Task /\ task[w].seen \in Row
    BY <1>0, <1>2 DEF Save, TaskTypes, TaskInv
  <2>2. row \in Row /\ row' = Merge(task[w].seen, Wanted(task[w]))
    BY <1>2 DEF Save, Exists
  <2>3. Wanted(task[w]) \in Row
    BY <2>1, WantedType
  <2>4. CASE task[w].key = None
    BY <2>1, <2>2, <2>3, <2>4, MergeType, WantedType
  <2>5. CASE task[w].key # None
    BY <2>1, <2>2, <2>3, <2>5, MergeType, WantedType
  <2> QED
    BY <2>4, <2>5
<1>3. ASSUME NEW c \in Conn, Stored(c)
      PROVE  task' = task /\ store[c] # None /\ store'[c] = None
  BY <1>0, <1>3 DEF Stored, ConnTypes
<1>4. ASSUME NEW w \in Worker, Save(w) PROVE task[w] # None /\ task'[w] = None
  BY <1>0, <1>4 DEF Save, TaskTypes
<1>5. CASE \E c \in Conn : Stored(c)
  <2>1. PICK c \in Conn : Stored(c)
    BY <1>5
  <2>2. CASE store[c].seen \in Row /\ store[c].key # None
    BY <1>1, <1>3, <2>1, <2>2
  <2>3. CASE ~(store[c].seen \in Row /\ store[c].key # None)
    BY <2>1, <2>3 DEF Stored
  <2> QED
    BY <2>2, <2>3
<1>6. CASE \E w \in Worker : Save(w)
  BY <1>2, <1>4, <1>6 DEF EndsUpdate
<1>7. CASE \E w \in Worker : DeleteRow(w)
  BY <1>7 DEF DeleteRow
<1>8. CASE /\ ~\E c \in Conn : Stored(c)
           /\ ~\E w \in Worker : Save(w) \/ DeleteRow(w)
  <2>1. row' = row
    BY <1>8 DEF Next, Threads, Finish, Configure, LinkDrops, Tick, ResetToken, BackendRestart,
                AddPeer, InsertPeer, RemovePeer, Reconfigure, Dial, Register, Heartbeat, Load,
                StoreFails, Ends, CreateNode, Update, Refresh, Delete, Begin, Fetch, Exists
  <2> QED
    BY <2>1
<1> QED
  BY <1>5, <1>6, <1>7, <1>8

\* Saves of the admin pages and status writes of the hub overlap as they like, and each
\* column changes only to what its writer brings.
THEOREM WritersKeepToTheirColumns == Spec => ColumnsHaveOneWriter
<1>1. IInv /\ [Next]_vars =>
        [ Exists /\ row' \in Row =>
          /\ row'.enabled # row.enabled => \E w \in Worker : EndsUpdate(w, row'.enabled)
          /\ row'.key # row.key =>
               \/ \E w \in Worker : task[w] # None /\ task'[w] = None /\ row'.key = task[w].key
               \/ \E c \in Conn : store[c] # None /\ store'[c] = None /\ row'.key = store[c].key
          /\ row.key # None => row'.key # None ]_vars
  BY OneWriter
<1> QED
  BY <1>1, Inductive, PTL DEF Spec, SafeSpec, ColumnsHaveOneWriter
=============================================================================
