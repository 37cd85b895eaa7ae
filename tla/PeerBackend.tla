----------------------------- MODULE PeerBackend -----------------------------
(***************************************************************************)
(* The backend's side of the life of peers: app/peer/service.py, as the    *)
(* portal, the admin pages and the Telegram API call it.  Each HTTP        *)
(* request runs in a thread of the pool (a Worker) with a database session *)
(* of its own; no lock spans the node call in the middle of an operation,  *)
(* so the operations of several workers interleave between their           *)
(* transactions.                                                           *)
(*                                                                         *)
(* A transaction is short: SQLite holds its write lock from the flush to   *)
(* the commit, which is one step here.  The session writes only the        *)
(* columns that differ from what it loaded (Merge), and an UPDATE of a row *)
(* that is gone, or one the unique constraint forbids, raises.             *)
(*                                                                         *)
(* The actions here change the backend's state only.  PeerLifecycle adds   *)
(* what nodes promise, PeerSystem the node channel and the nodes           *)
(* themselves.                                                             *)
(*                                                                         *)
(* All peers here have one ASN: peers of different ASNs share no row, no   *)
(* constraint and no file.  Bounds: a Peer id is used again once nothing   *)
(* refers to it; MaxRestarts backend restarts.                             *)
(***************************************************************************)
EXTENDS FiniteSets, Naturals

CONSTANTS
  Worker, Peer, Node, Config, None, Mixed,
  Operations,   \* the operations the workers are asked for
  MaxRestarts

ASSUME DistinctAssumption == None # Mixed /\ {None, Mixed} \intersect (Node \union Config \union Peer) = {}
ASSUME OperationsAssumption == Operations \subseteq {"create", "edit", "save", "redeploy", "delete"}
ASSUME RestartsAssumption == MaxRestarts \in Nat

VARIABLES
  row,        \* row[p]: the peer_requests row, or None
  pc,         \* pc[w]: where worker w's operation stands
  subject,    \* subject[w]: the peer it is about
  intent,     \* intent[w]: what it asks of the node
  seen,       \* seen[w]: the row as its session loaded it (None: not needed)
  plan,       \* plan[w]: the row as it wants it (None: not needed)
  left,       \* left[w]: moved_from, the node an update takes the peer away from
  call,       \* call[w]: the node call it waits for
  result,     \* result[w]: how that call ended
  doubtful,   \* doubtful: <<p, n>>, if operations on p overlapped or a call to n did not end
              \* ok, and no operation that calls n has run alone since (history)
  unsaved,    \* peers whose row was saved without a deployment since (history)
  cut,        \* peers whose operation a backend restart ended (history)
  restarts

workerVars == <<pc, subject, intent, seen, plan, left, call, result>>
history == <<doubtful, unsaved, cut>>
backendVars == <<row, workerVars, history, restarts>>

Statuses == {"approved", "disabled"}
Deployments == {"deploying", "deployed", "failed", "removed"}
Row == [node : Node, config : Config, status : Statuses, deploy : Deployments]
Call == [peer : Peer, node : Node, goal : Config \union {None}]   \* goal None: peers.remove
Steps == {"idle", "flush", "saved", "calling", "answered", "write", "orphan", "delete"}

ASSUME NoneIsNoRecord == None \notin Row \union Call

\* The type of every variable of the backend.
BackendTypeOK ==
  /\ row \in [Peer -> Row \union {None}]
  /\ pc \in [Worker -> Steps]
  /\ subject \in [Worker -> Peer \union {None}]
  /\ intent \in [Worker -> {"none", "deploy", "remove", "delete"}]
  /\ seen \in [Worker -> Row \union {None}]
  /\ plan \in [Worker -> Row \union {None}]
  /\ left \in [Worker -> Node \union {None}]
  /\ call \in [Worker -> Call \union {None}]
  /\ result \in [Worker -> {"none", "ok", "failed"}]
  /\ doubtful \subseteq Peer \X Node /\ unsaved \subseteq Peer /\ cut \subseteq Peer
  /\ restarts \in 0..MaxRestarts

BackendInit ==
  /\ row = [p \in Peer |-> None]
  /\ pc = [w \in Worker |-> "idle"]
  /\ subject = [w \in Worker |-> None]
  /\ intent = [w \in Worker |-> "none"]
  /\ seen = [w \in Worker |-> None]
  /\ plan = [w \in Worker |-> None]
  /\ left = [w \in Worker |-> None]
  /\ call = [w \in Worker |-> None]
  /\ result = [w \in Worker |-> "none"]
  /\ doubtful = {} /\ unsaved = {} /\ cut = {}
  /\ restarts = 0

\* find_peer_on_node, leaving out p itself.
PeerOnNode(n, p) == \E q \in Peer \ {p} : row[q] # None /\ row[q].node = n

Busy(p) == \E w \in Worker : pc[w] # "idle" /\ subject[w] = p

\* The columns a session flushes are those it changed.
Merge(now, loaded, wanted) ==
  [f \in DOMAIN wanted |-> IF wanted[f] # loaded[f] THEN wanted[f] ELSE now[f]]

\* The operation ends, with an answer or an exception.
End(w) ==
  /\ pc' = [pc EXCEPT ![w] = "idle"]
  /\ subject' = [subject EXCEPT ![w] = None]
  /\ intent' = [intent EXCEPT ![w] = "none"]
  /\ seen' = [seen EXCEPT ![w] = None]
  /\ plan' = [plan EXCEPT ![w] = None]
  /\ left' = [left EXCEPT ![w] = None]
  /\ call' = [call EXCEPT ![w] = None]
  /\ result' = [result EXCEPT ![w] = "none"]

-----------------------------------------------------------------------------
(* Operations begin. *)

Start(w, p, wanted, what) ==
  /\ pc[w] = "idle"
  /\ pc' = [pc EXCEPT ![w] = "flush"]
  /\ subject' = [subject EXCEPT ![w] = p]
  /\ intent' = [intent EXCEPT ![w] = what]
  /\ seen' = [seen EXCEPT ![w] = row[p]]
  /\ plan' = [plan EXCEPT ![w] = wanted]
  /\ UNCHANGED <<row, call, result, restarts>>

\* All of p is in doubt if p is busy already; if not, the pairs in renewed are no longer.
Overlap(p, renewed) ==
  /\ doubtful' = IF Busy(p) THEN doubtful \union ({p} \X Node) ELSE doubtful \ renewed
  /\ UNCHANGED <<unsaved, cut>>

\* What an operation that calls p's node finds out; not if an older call may run there.
Renewed(p, running) == {<<p, row[p].node>>} \ running

\* create_peer, up to its INSERT: the check that the ASN has no peer on the node.
Create(w, p, n, c) ==
  /\ row[p] = None /\ ~Busy(p)
  /\ ~PeerOnNode(n, p)
  /\ doubtful' = doubtful \ ({p} \X Node) /\ unsaved' = unsaved \ {p} /\ cut' = cut \ {p}
  /\ Start(w, p, [node |-> n, config |-> c, status |-> "approved", deploy |-> "deploying"],
           "deploy")
  /\ UNCHANGED left

\* telegram_peer_edit: update_peer with the row's own node and status, redeploy=True.
Edit(w, p, c, running) ==
  /\ row[p] # None
  /\ IF row[p].status = "disabled"
       THEN Start(w, p, [row[p] EXCEPT !.config = c], "remove")
       ELSE Start(w, p, [row[p] EXCEPT !.config = c, !.deploy = "deploying"], "deploy")
  /\ Overlap(p, Renewed(p, running))
  /\ UNCHANGED left

\* admin_update_peer: update_peer with redeploy=False, perhaps to another node.
Save(w, p, n, c, s) ==
  /\ row[p] # None
  /\ ~PeerOnNode(n, p)
  /\ Start(w, p, [row[p] EXCEPT !.node = n, !.config = c, !.status = s],
           IF s = "disabled" THEN "remove" ELSE "none")
  /\ left' = [left EXCEPT ![w] = IF row[p].node # n THEN row[p].node ELSE None]
  /\ Overlap(p, {})

\* admin_redeploy_peer.
Redeploy(w, p, running) ==
  /\ row[p] # None
  /\ row[p].status = "approved"
  /\ Start(w, p, [row[p] EXCEPT !.deploy = "deploying"], "deploy")
  /\ Overlap(p, Renewed(p, running))
  /\ UNCHANGED left

\* Mutation: the row is deleted without a call to the node.
DeleteUncalled(w, p, running) ==
  /\ row[p] # None
  /\ pc[w] = "idle"
  /\ pc' = [pc EXCEPT ![w] = "delete"]
  /\ subject' = [subject EXCEPT ![w] = p]
  /\ intent' = [intent EXCEPT ![w] = "delete"]
  /\ Overlap(p, Renewed(p, running))
  /\ UNCHANGED <<row, seen, plan, left, call, result, restarts>>

\* delete_peer, up to its node call.
Delete(w, p, running) ==
  /\ row[p] # None
  /\ pc[w] = "idle"
  /\ pc' = [pc EXCEPT ![w] = "calling"]
  /\ subject' = [subject EXCEPT ![w] = p]
  /\ intent' = [intent EXCEPT ![w] = "delete"]
  /\ call' = [call EXCEPT ![w] = [peer |-> p, node |-> row[p].node, goal |-> None]]
  /\ Overlap(p, Renewed(p, running))
  /\ UNCHANGED <<row, seen, plan, left, result, restarts>>

-----------------------------------------------------------------------------
(* The first transaction, and what follows the last one. *)

\* Mutation: the old node of a moved peer is left alone.
OrphanIgnored(w) == End(w)

\* _teardown_orphan_on_old_node, if the update moved the peer; else the operation ends.
OrphanOrEnd(w) ==
  \/ left[w] = None /\ End(w)
  \/ /\ left[w] # None
     /\ pc' = [pc EXCEPT ![w] = "orphan"]
     /\ call' = [call EXCEPT ![w] = [peer |-> subject[w], node |-> left[w], goal |-> None]]
     /\ seen' = [seen EXCEPT ![w] = None]
     /\ plan' = [plan EXCEPT ![w] = None]
     /\ intent' = [intent EXCEPT ![w] = "none"]
     /\ left' = [left EXCEPT ![w] = None]
     /\ result' = [result EXCEPT ![w] = "none"]
     /\ UNCHANGED subject

\* What the flush makes of the row.
Flushed(w) ==
  IF seen[w] = None THEN plan[w] ELSE Merge(row[subject[w]], seen[w], plan[w])

\* Mutation: no unique constraint, only the checks before.
FlushUnconstrained(w) == seen[w] # None /\ row[subject[w]] = None

\* The database refuses: the row is gone, or uq_peer_node_asn is violated.
FlushRefused(w) ==
  LET gone == seen[w] # None /\ row[subject[w]] = None IN
  gone \/ (~gone /\ PeerOnNode(Flushed(w).node, subject[w]))

FlushFails(w) ==
  /\ pc[w] = "flush"
  /\ FlushRefused(w)
  /\ End(w)
  /\ UNCHANGED <<row, history, restarts>>

\* Flush and commit, with the node call's snapshot taken in between from the
\* session's own objects.
Flush(w) ==
  LET p == subject[w] IN
  /\ pc[w] = "flush"
  /\ ~FlushRefused(w)
  /\ row' = [row EXCEPT ![p] = Flushed(w)]
  /\ \/ /\ intent[w] = "none"
        /\ pc' = [pc EXCEPT ![w] = "saved"]
        /\ unsaved' = unsaved \union {p}
        /\ UNCHANGED call
     \/ /\ intent[w] # "none"
        /\ pc' = [pc EXCEPT ![w] = "calling"]
        /\ call' = [call EXCEPT ![w] =
             [peer |-> p, node |-> plan[w].node,
              goal |-> IF intent[w] = "deploy" THEN plan[w].config ELSE None]]
        /\ UNCHANGED unsaved
  /\ seen' = [seen EXCEPT ![w] = None]
  /\ plan' = [plan EXCEPT ![w] = None]
  /\ UNCHANGED <<subject, intent, left, result, doubtful, cut, restarts>>

-----------------------------------------------------------------------------
(* The node call, as its caller sees it. *)

\* The call ends; nobody looks at the verdict of a delete's or an orphan's teardown.
CallEnds(w, how) ==
  \/ /\ pc[w] = "calling"
     /\ call' = [call EXCEPT ![w] = None]
     /\ \/ /\ intent[w] = "delete"
           /\ pc' = [pc EXCEPT ![w] = "delete"]
           /\ UNCHANGED result
        \/ /\ intent[w] # "delete"
           /\ pc' = [pc EXCEPT ![w] = "answered"]
           /\ result' = [result EXCEPT ![w] = how]
     /\ UNCHANGED <<subject, intent, seen, plan, left>>
  \/ pc[w] = "orphan" /\ End(w)

\* request_node_sync returns what the node answered, or raises.
CallReturns(w, how) ==
  /\ call[w] # None
  /\ CallEnds(w, how)
  /\ doubtful' = IF how = "ok" THEN doubtful ELSE doubtful \union {<<subject[w], call[w].node>>}
  /\ UNCHANGED <<row, unsaved, cut, restarts>>

-----------------------------------------------------------------------------
(* The second transaction. *)

\* peer_with_node after the call, or after a save without one; a row that is gone
\* raises ValueError, which skips the orphan's teardown too.
Reread(w) ==
  /\ pc[w] \in {"saved", "answered"}
  /\ \/ /\ row[subject[w]] = None
        /\ End(w)
     \/ /\ row[subject[w]] # None
        /\ pc[w] = "saved"
        /\ OrphanOrEnd(w)
     \/ /\ row[subject[w]] # None
        /\ pc[w] = "answered"
        /\ seen' = [seen EXCEPT ![w] = row[subject[w]]]
        /\ pc' = [pc EXCEPT ![w] = "write"]
        /\ UNCHANGED <<subject, intent, plan, left, call, result>>
  /\ UNCHANGED <<row, history, restarts>>

\* Mutation: deploy_status is the result as it is.
VerdictRaw(w) == result[w]

\* apply_deploy_result, and its counterpart in teardown_peer_request.
Verdict(w) ==
  CASE result[w] # "ok" -> "failed"
    [] intent[w] = "deploy" -> "deployed"
    [] OTHER -> "removed"

\* Mutation: an exception of the node call leaves the operation.
WriteOnlyOk(w) ==
  LET p == subject[w] IN
  /\ pc[w] = "write"
  /\ row' = IF row[p] # None /\ result[w] = "ok"
              THEN [row EXCEPT ![p] = Merge(@, seen[w], [seen[w] EXCEPT !.deploy = Verdict(w)])]
              ELSE row
  /\ End(w)
  /\ UNCHANGED <<history, restarts>>

Write(w) ==
  LET p == subject[w] IN
  /\ pc[w] = "write"
  /\ \/ /\ row[p] = None
        /\ End(w)
        /\ UNCHANGED <<row, unsaved>>
     \/ /\ row[p] # None
        /\ row' = [row EXCEPT ![p] = Merge(@, seen[w], [seen[w] EXCEPT !.deploy = Verdict(w)])]
        /\ unsaved' = IF Verdict(w) = "deployed" THEN unsaved \ {p} ELSE unsaved
        /\ OrphanOrEnd(w)
  /\ UNCHANGED <<doubtful, cut, restarts>>

\* The end of delete_peer; deleting a row that is already gone is no error.
DeleteRow(w) ==
  /\ pc[w] = "delete"
  /\ row' = [row EXCEPT ![subject[w]] = None]
  /\ End(w)
  /\ UNCHANGED <<history, restarts>>

\* The backend stops and starts again: its workers are gone.
BackendRestarts ==
  LET peers == {subject[w] : w \in {v \in Worker : pc[v] # "idle"}} IN
  /\ restarts < MaxRestarts
  /\ restarts' = restarts + 1
  /\ doubtful' = doubtful \union (peers \X Node)
  /\ cut' = cut \union peers
  /\ pc' = [w \in Worker |-> "idle"]
  /\ subject' = [w \in Worker |-> None]
  /\ intent' = [w \in Worker |-> "none"]
  /\ seen' = [w \in Worker |-> None]
  /\ plan' = [w \in Worker |-> None]
  /\ left' = [w \in Worker |-> None]
  /\ call' = [w \in Worker |-> None]
  /\ result' = [w \in Worker |-> "none"]
  /\ UNCHANGED <<row, unsaved>>

-----------------------------------------------------------------------------
\* unused: the ids that nothing outside the backend refers to; one of them is as good as new.
\* running: the pairs <<p, n>> of which n may still run a call whose caller has gone.
Begin(w, unused, running) == \E p \in Peer :
  \/ "redeploy" \in Operations /\ Redeploy(w, p, running)
  \/ "delete" \in Operations /\ Delete(w, p, running)
  \/ \E c \in Config :
       \/ "edit" \in Operations /\ Edit(w, p, c, running)
       \/ \E n \in Node :
            \/ "create" \in Operations /\ p \in unused /\ Create(w, p, n, c)
            \/ "save" \in Operations /\ \E s \in Statuses : Save(w, p, n, c, s)

Continue(w) == FlushFails(w) \/ Flush(w) \/ Reread(w) \/ Write(w) \/ DeleteRow(w)

-----------------------------------------------------------------------------
(* Properties. *)

\* README.md: one peer per ASN per node, though create_peer and update_peer check
\* and write in different steps.
OnePeerPerNode ==
  \A p, q \in Peer : p # q /\ row[p] # None /\ row[q] # None => row[p].node # row[q].node

\* A row that says "deploying" has a deployment in progress that will overwrite it,
\* whatever other operations wrote in between; only a restart can leave one behind.
DeployingIsInProgress ==
  \A p \in Peer \ cut : row[p] # None /\ row[p].deploy = "deploying" =>
    \E w \in Worker :
      subject[w] = p /\ intent[w] = "deploy" /\ pc[w] \in {"calling", "answered", "write"}
=============================================================================
