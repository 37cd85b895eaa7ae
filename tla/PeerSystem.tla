------------------------------ MODULE PeerSystem ------------------------------
(***************************************************************************)
(* The whole way of a peer: the backend (PeerBackend), the channel that    *)
(* carries its calls (NodeRPC, which NodeHub implements) and the nodes     *)
(* that run them (one PeerStore each, which NodeService implements).       *)
(* deploy_peer and remove_peer_from_node of app/peer/deploy.py send one    *)
(* request for a call; the node runs it in a goroutine of its own; its     *)
(* result travels back through the channel.  The parts stop independently: *)
(* a request may be run after its caller was told of a timeout or has      *)
(* gone, and a node that stops forgets what it was asked.                  *)
(*                                                                         *)
(* Bounds: each Request is used once; those of PeerBackend.                *)
(***************************************************************************)
EXTENDS PeerBackend

CONSTANT Request

ASSUME RequestAssumption == IsFiniteSet(Request) /\ None \notin Request

VARIABLES
  waits,                         \* waits[w]: the request worker w waits for, or None
  asked,                         \* asked[r]: the call request r was sent for, or None
  says,                          \* says[r]: what the node's result for r says
  phase, outcome, ran, served,   \* the channel, as in NodeRPC
  busy, goal, installed, unsure  \* the nodes: busy[n] ... as in PeerStore

channelVars == <<phase, outcome, ran, served>>
storeVars == <<busy, goal, installed, unsure>>
vars == <<backendVars, waits, asked, says, channelVars, storeVars>>

Content == Config \union {None, Mixed}
Change == [name : Peer, config : Config \union {None}]

ASSUME NoneIsNoChange == None \notin Change

RPC == INSTANCE NodeRPC
Store(n) == INSTANCE PeerStore WITH
  Job <- Request, Name <- Peer,
  busy <- busy[n], goal <- goal[n], installed <- installed[n], unsure <- unsure[n]

\* The type of every variable.
TypeOK ==
  /\ BackendTypeOK
  /\ waits \in [Worker -> Request \union {None}]
  /\ asked \in [Request -> Call \union {None}]
  /\ says \in [Request -> {"none", "ok", "failed"}]
  /\ RPC!TypeOK
  /\ busy \in [Node -> Request \union {None}]
  /\ goal \in [Node -> [Request -> Change \union {None}]]
  /\ installed \in [Node -> [Peer -> Content]]
  /\ unsure \in [Node -> SUBSET Peer]

Init ==
  /\ BackendInit
  /\ waits = [w \in Worker |-> None]
  /\ asked = [r \in Request |-> None]
  /\ says = [r \in Request |-> "none"]
  /\ RPC!Init
  /\ busy = [n \in Node |-> None]
  /\ goal = [n \in Node |-> [r \in Request |-> None]]
  /\ installed = [n \in Node |-> [p \in Peer |-> None]]
  /\ unsure = [n \in Node |-> {}]

-----------------------------------------------------------------------------
(* The backend's ends of the channel. *)

\* A request that was sent and whose command has not been run, or is being run.
MayRun(r) ==
  asked[r] # None /\ (r \in ran => goal[asked[r].node][r] # None)

\* The peers that no node has and no request is about.
Unused == {p \in Peer :
  /\ \A n \in Node : installed[n][p] = None
  /\ \A r \in Request : MayRun(r) => asked[r].peer # p}

\* The requests that nobody waits for and a node may still run, their calls, and whose they are.
Abandoned == {r \in Request : MayRun(r) /\ \A w \in Worker : waits[w] # r}
Late == {asked[r] : r \in Abandoned}
Running == {<<k.peer, k.node>> : k \in Late}

\* Whatever a worker does between its calls.
Backend(w) ==
  /\ Begin(w, Unused, Running) \/ Continue(w)
  /\ UNCHANGED <<waits, asked, says, channelVars, storeVars>>

\* request_node_sync, where the hub accepts the request.
Send(w, r) ==
  /\ call[w] # None
  /\ waits[w] = None
  /\ RPC!Open(r)
  /\ waits' = [waits EXCEPT ![w] = r]
  /\ asked' = [asked EXCEPT ![r] = call[w]]
  /\ UNCHANGED <<backendVars, says, storeVars>>

\* request_node_sync, where the hub raises at once.
Refused(w, r) ==
  /\ waits[w] = None
  /\ RPC!Refuse(r)
  /\ CallReturns(w, "failed")
  /\ UNCHANGED <<waits, asked, says, storeVars>>

\* Mutation: the caller takes the envelope's "ok" for the result's.
AnsweredByEnvelope(w) ==
  /\ waits[w] # None
  /\ RPC!Answer(waits[w])
  /\ CallReturns(w, served[waits[w]])
  /\ waits' = [waits EXCEPT ![w] = None]
  /\ UNCHANGED <<asked, says, storeVars>>

\* The caller reads the result: the row depends on its "ok", not on that of the envelope.
Answered(w) ==
  /\ waits[w] # None
  /\ RPC!Answer(waits[w])
  /\ CallReturns(w, says[waits[w]])
  /\ waits' = [waits EXCEPT ![w] = None]
  /\ UNCHANGED <<asked, says, storeVars>>

\* Mutation: a caller that times out takes the request for done.
TimesOutOk(w) ==
  /\ waits[w] # None
  /\ RPC!GiveUp(waits[w])
  /\ CallReturns(w, "ok")
  /\ waits' = [waits EXCEPT ![w] = None]
  /\ UNCHANGED <<asked, says, storeVars>>

\* The caller is told of a timeout, or that the node is gone.
TimesOut(w) ==
  /\ waits[w] # None
  /\ RPC!GiveUp(waits[w])
  /\ CallReturns(w, "failed")
  /\ waits' = [waits EXCEPT ![w] = None]
  /\ UNCHANGED <<asked, says, storeVars>>

\* The backend stops and starts again; the nodes and what was sent to them go on.
Restart ==
  /\ BackendRestarts
  /\ waits' = [w \in Worker |-> None]
  /\ UNCHANGED <<asked, says, channelVars, storeVars>>

-----------------------------------------------------------------------------
(* The nodes. *)

\* The change that a call asks a node for.
Wanted(k) == [name |-> k.peer, config |-> k.goal]

\* handleRequest starts a goroutine for the command.
Receive(n, r) ==
  /\ asked[r] # None /\ asked[r].node = n
  /\ RPC!Run(r)
  /\ goal' = [goal EXCEPT ![n][r] = Wanted(asked[r])]
  /\ UNCHANGED <<backendVars, waits, asked, says, busy, installed, unsure>>
  /\ Store(n)!Ask(r, Wanted(asked[r]))

\* The goroutine gets deployMu.
Lock(n, r) ==
  /\ busy' = [busy EXCEPT ![n] = r]
  /\ UNCHANGED <<backendVars, waits, asked, says, channelVars, goal, installed, unsure>>
  /\ Store(n)!Begin(r)

Work(n, r) ==
  /\ busy[n] = r
  /\ \E content \in [Peer -> Content] : installed' = [installed EXCEPT ![n] = content]
  /\ unsure' = [unsure EXCEPT ![n] = @ \union {goal[n][r].name}]
  /\ UNCHANGED <<backendVars, waits, asked, says, channelVars, busy, goal>>
  /\ Store(n)!Work(r)

\* The goroutine returns, with an envelope (served) and a result in it.
Returns(n, r, answer) ==
  /\ busy[n] = r
  /\ busy' = [busy EXCEPT ![n] = None]
  /\ goal' = [goal EXCEPT ![n][r] = None]
  /\ \E content \in [Peer -> Content] : installed' = [installed EXCEPT ![n] = content]
  /\ says' = [says EXCEPT ![r] = answer]
  /\ RPC!Serve(r)
  /\ UNCHANGED <<backendVars, waits, asked>>

Succeed(n, r) ==
  /\ Returns(n, r, "ok")
  /\ served'[r] = "ok"
  /\ unsure' = [unsure EXCEPT ![n] = @ \ {goal[n][r].name}]
  /\ Store(n)!Succeed(r)

Fail(n, r) ==
  /\ Returns(n, r, "failed")
  /\ UNCHANGED unsure
  /\ Store(n)!Fail(r)

\* The node service stops and starts again.
NodeStops(n) ==
  /\ busy' = [busy EXCEPT ![n] = None]
  /\ goal' = [goal EXCEPT ![n] = [r \in Request |-> None]]
  /\ UNCHANGED <<backendVars, waits, asked, says, channelVars, installed, unsure>>
  /\ Store(n)!Stop

-----------------------------------------------------------------------------
NodeStep(n, r) == Receive(n, r) \/ Lock(n, r) \/ Work(n, r) \/ Succeed(n, r) \/ Fail(n, r)

Next ==
  \/ \E w \in Worker :
       \/ Backend(w) \/ Answered(w) \/ TimesOut(w)
       \/ \E r \in Request : Send(w, r) \/ Refused(w, r)
  \/ \E n \in Node : NodeStops(n) \/ \E r \in Request : NodeStep(n, r)
  \/ Restart

SafeSpec == Init /\ [][Next]_vars

-----------------------------------------------------------------------------
(* Properties. *)

\* The mapping: what is late, and what the node has made of the requests that a worker waits for.
Verdicts == [w \in Worker |-> IF waits[w] = None THEN "none" ELSE says[waits[w]]]

Lifecycle == INSTANCE PeerLifecycle WITH
  MaxLate <- Cardinality(Request), late <- Late, verdict <- Verdicts

\* Backend, channel and nodes together do what PeerLifecycle says of the life of peers.
ImplementsLifecycle == Lifecycle!SafeSpec

\* From end to end: a quiet row tells what the nodes really have of the peer.
QuietRowIsTrue == Lifecycle!QuietRowIsTrue
=============================================================================
