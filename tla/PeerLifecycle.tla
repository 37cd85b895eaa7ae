---------------------------- MODULE PeerLifecycle ----------------------------
(***************************************************************************)
(* The life of peers: the backend (PeerBackend) and what the nodes hold.   *)
(*                                                                         *)
(* The node call keeps NodeRPC's promise and the node that of PeerStore: a *)
(* node that runs a call may pass through anything before it ends, a call  *)
(* that fails may leave anything, and a peer left Mixed may move when BIRD *)
(* reloads for another one.  A caller learns the node's verdict later or   *)
(* not at all; a call without one may still run, or run on, when its       *)
(* caller has gone.  PeerSystem shows that the channel and the nodes do no *)
(* more than that.                                                         *)
(*                                                                         *)
(* Bounds: MaxLate calls whose caller has gone may wait.                   *)
(***************************************************************************)
EXTENDS PeerBackend

CONSTANT MaxLate

ASSUME LateAssumption == MaxLate \in Nat

VARIABLES
  installed,  \* installed[n][p]: what node n has of peer p
  late,       \* calls whose caller has gone and which the node may still run
  verdict     \* verdict[w]: what the node has made of the call w waits for

nodeVars == <<installed, late, verdict>>
vars == <<backendVars, nodeVars>>

Content == Config \union {None, Mixed}

\* The type of every variable.
TypeOK ==
  /\ BackendTypeOK
  /\ installed \in [Node -> [Peer -> Content]]
  /\ late \subseteq Call
  /\ verdict \in [Worker -> {"none", "ok", "failed"}]

Init ==
  /\ BackendInit
  /\ installed = [n \in Node |-> [p \in Peer |-> None]]
  /\ late = {}
  /\ verdict = [w \in Worker |-> "none"]

-----------------------------------------------------------------------------
(* The nodes. *)

\* The peers that no node has and no late call is about.
Unused == {p \in Peer :
  (\A n \in Node : installed[n][p] = None) /\ \A k \in late : k.peer # p}

\* The pairs <<p, n>> of which n may still run a call whose caller has gone.
Running == {<<k.peer, k.node>> : k \in late}

\* The calls the nodes may be working on.
Outstanding == late \union ({call[w] : w \in {v \in Worker : verdict[v] = "none"}} \ {None})

\* k's node makes x of k's peer; its other peers stay, but for those that are Mixed.
Change(k, x) ==
  \E content \in [Peer -> Content] :
    /\ content[k.peer] = x
    /\ \A q \in Peer \ {k.peer} :
         installed[k.node][q] # Mixed => content[q] = installed[k.node][q]
    /\ installed' = [installed EXCEPT ![k.node] = content]

ChangeSome(k) == \E x \in Content : Change(k, x)

NodeWorks(k) ==
  /\ ChangeSome(k)
  /\ UNCHANGED <<backendVars, late, verdict>>

\* Mutation: a node answers "ok" although its last step failed.
NodeEndsUnchecked(w) ==
  /\ call[w] # None
  /\ verdict[w] = "none"
  /\ ChangeSome(call[w])
  /\ verdict' = [verdict EXCEPT ![w] = "ok"]
  /\ UNCHANGED <<backendVars, late>>

\* The node ends the command of w's call.
NodeEnds(w) ==
  /\ call[w] # None
  /\ verdict[w] = "none"
  /\ \/ Change(call[w], call[w].goal) /\ verdict' = [verdict EXCEPT ![w] = "ok"]
     \/ ChangeSome(call[w]) /\ verdict' = [verdict EXCEPT ![w] = "failed"]
  /\ UNCHANGED <<backendVars, late>>

\* The node's answer arrives.
NodeAnswers(w) ==
  /\ verdict[w] # "none"
  /\ CallReturns(w, verdict[w])
  /\ verdict' = [verdict EXCEPT ![w] = "none"]
  /\ UNCHANGED <<installed, late>>

\* The call ends without the node's answer: it was never sent, its answer is late or
\* lost, or it may yet run.
GiveUp(w) ==
  /\ CallReturns(w, "failed")
  /\ \/ UNCHANGED late
     \/ /\ verdict[w] = "none"
        /\ Cardinality(late \union {call[w]}) <= MaxLate
        /\ late' = late \union {call[w]}
  /\ verdict' = [verdict EXCEPT ![w] = "none"]
  /\ UNCHANGED installed

\* A call whose caller has gone ends.
LateEnds(k) ==
  /\ late' = late \ {k}
  /\ ChangeSome(k)
  /\ UNCHANGED <<backendVars, verdict>>

\* Calls whose caller has gone will not run, or not run on: their node stops.
LateLost ==
  /\ \E lost \in SUBSET late : late' = late \ lost
  /\ UNCHANGED <<backendVars, installed, verdict>>

\* The backend stops and starts again; the calls of its workers may still run.
Restart ==
  /\ BackendRestarts
  /\ \E some \in SUBSET Outstanding :
       Cardinality(late \union some) <= MaxLate /\ late' = late \union some
  /\ verdict' = [w \in Worker |-> "none"]
  /\ UNCHANGED installed

-----------------------------------------------------------------------------
Proceed(w) == Continue(w) /\ UNCHANGED nodeVars

Next ==
  \/ \E w \in Worker :
       \/ Begin(w, Unused, Running) /\ UNCHANGED nodeVars
       \/ Proceed(w) \/ NodeEnds(w) \/ NodeAnswers(w) \/ GiveUp(w)
  \/ \E k \in Outstanding : NodeWorks(k)
  \/ \E k \in late : LateEnds(k)
  \/ LateLost
  \/ Restart

SafeSpec == Init /\ [][Next]_vars

(***************************************************************************)
(* Fairness: a thread goes on, and a node call ends, answered or not       *)
(* (NodeRPC, and the timeout of request_node_sync).  Nothing is assumed of *)
(* the nodes.                                                              *)
(***************************************************************************)
Fairness == \A w \in Worker : WF_vars(Proceed(w) \/ NodeAnswers(w) \/ GiveUp(w))

Spec == SafeSpec /\ Fairness

-----------------------------------------------------------------------------
(* Properties. *)

\* What a row says of a node is true if the peer's operations did not overlap and its calls
\* to the node ended ok, since it was created or since an operation that calls the node ran
\* alone: what the node has is what the row was last deployed with, and a peer that is
\* removed, deleted or moved away has left nothing behind.  So a redeploy that ends ok,
\* undisturbed, repairs whatever overlaps, timeouts and restarts have left on its node.
QuietRowIsTrue ==
  \A p \in Peer, n \in Node : <<p, n>> \notin doubtful /\ ~Busy(p) =>
    IF row[p] # None /\ row[p].node = n /\ row[p].deploy = "deployed"
      THEN p \in unsaved \/ installed[n][p] = row[p].config
      ELSE installed[n][p] = None

\* A deployment that has been marked ends, and the row shows it.
DeployingEnds ==
  \A p \in Peer :
    row[p] # None /\ row[p].deploy = "deploying"
      ~> row[p] = None \/ row[p].deploy # "deploying" \/ p \in cut

\* app/peer/service.py:112: when the old node of a moved peer is cleared, the peer has
\* been deployed, or torn down, on its new node.
MovedIsDeployed ==
  \A w \in Worker : pc[w] = "orphan" /\ doubtful = {} =>
    LET r == row[subject[w]] IN
    r.status = "disabled" \/ installed[r.node][subject[w]] = r.config
=============================================================================
