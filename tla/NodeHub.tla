------------------------------- MODULE NodeHub -------------------------------
(***************************************************************************)
(* The control channel between the backend and its router nodes: the hub   *)
(* of app/node_ws.py at the backend's end, the websocket client of         *)
(* internal/backend/client.go at the node's end, and the link between.     *)
(*                                                                         *)
(* The backend is one asyncio event loop, so the code between two awaits   *)
(* is one step.  A step of a connection's handler is an action of its      *)
(* Conn; a step of a request() coroutine is an action of its Request.  The *)
(* node runs each request in a goroutine of its own.                       *)
(*                                                                         *)
(* A link has two ends, closed one at a time: an end that is closed is     *)
(* noticed by the other end later, or not for a long time (a half-open     *)
(* link).  Bounds: Conn is the number of connection objects that exist at  *)
(* once (they are reused after garbage collection), MaxFaults the number   *)
(* of link, node and database faults.                                      *)
(***************************************************************************)
EXTENDS Naturals

CONSTANTS Node, Conn, Request, MaxFaults, None

ASSUME NoneAssumption == None \notin Conn \union Node
ASSUME FaultsAssumption == MaxFaults \in Nat

VARIABLES
  client,      \* client[n]: the link node n's runOnce uses, None while it waits to redial
  clientOpen,  \* the links whose node end is open
  serverOpen,  \* the links whose backend end is open
  linkNode,    \* linkNode[c]: NodeConnection.node
  handler,     \* handler[c]: where the node_websocket coroutine of c stands
  replaced,    \* replaced[c]: the local `previous` of c's register call
  current,     \* current[n]: hub._connections.get(n)
  online,      \* the nodes n whose hub._runtime[n].online is set
  pending,     \* pending[c]: the ids in NodeConnection.pending
  rpc,         \* rpc[r]: where the request() coroutine stands
  via,         \* via[r]: its local `connection`
  future,      \* future[r]: its future
  outcome,     \* outcome[r]: what request() returned or raised
  toNode,      \* toNode[c]: request frames on their way to the node
  toBackend,   \* toBackend[c]: response frames on their way to the backend
  beat,        \* the links with a hello or heartbeat on its way to the backend
  running,     \* running[c]: handleRequest goroutines that answer on c
  runs,        \* runs[r]: how often the node has started the command (history)
  served,      \* served[r]: the verdict of the last run (history)
  faults       \* faults so far

linkVars == <<client, clientOpen, serverOpen, linkNode>>
hubVars  == <<handler, replaced, current, online, pending>>
rpcVars  == <<rpc, via, future, outcome>>
wireVars == <<toNode, toBackend, beat>>
nodeVars == <<running, runs, served>>
vars == <<linkVars, hubVars, rpcVars, wireVars, nodeVars, faults>>

HandlerStates == {"free", "accepted", "swapped", "storing", "reading", "persisting",
                  "leaked", "done"}
RpcStates == {"idle", "sending", "flushing", "waiting", "done"}
FutureStates == {"none", "pending", "ok", "error", "failed", "cancelled"}
Outcomes == {"none", "ok", "error", "timeout", "offline", "disabled"}
Verdicts == {"ok", "error"}
Response == [id : Request, verdict : Verdicts]

\* The type of every variable.
TypeOK ==
  /\ client \in [Node -> Conn \union {None}]
  /\ clientOpen \subseteq Conn
  /\ serverOpen \subseteq Conn
  /\ linkNode \in [Conn -> Node \union {None}]
  /\ handler \in [Conn -> HandlerStates]
  /\ replaced \in [Conn -> Conn \union {None}]
  /\ current \in [Node -> Conn \union {None}]
  /\ online \subseteq Node
  /\ pending \in [Conn -> SUBSET Request]
  /\ rpc \in [Request -> RpcStates]
  /\ via \in [Request -> Conn \union {None}]
  /\ future \in [Request -> FutureStates]
  /\ outcome \in [Request -> Outcomes]
  /\ toNode \in [Conn -> SUBSET Request]
  /\ toBackend \in [Conn -> SUBSET Response]
  /\ beat \subseteq Conn
  /\ running \in [Conn -> SUBSET Request]
  /\ runs \in [Request -> Nat]
  /\ served \in [Request -> Verdicts \union {"none"}]
  /\ faults \in 0..MaxFaults

Init ==
  /\ client = [n \in Node |-> None]
  /\ clientOpen = {}
  /\ serverOpen = {}
  /\ linkNode = [c \in Conn |-> None]
  /\ handler = [c \in Conn |-> "free"]
  /\ replaced = [c \in Conn |-> None]
  /\ current = [n \in Node |-> None]
  /\ online = {}
  /\ pending = [c \in Conn |-> {}]
  /\ rpc = [r \in Request |-> "idle"]
  /\ via = [r \in Request |-> None]
  /\ future = [r \in Request |-> "none"]
  /\ outcome = [r \in Request |-> "none"]
  /\ toNode = [c \in Conn |-> {}]
  /\ toBackend = [c \in Conn |-> {}]
  /\ beat = {}
  /\ running = [c \in Conn |-> {}]
  /\ runs = [r \in Request |-> 0]
  /\ served = [r \in Request |-> "none"]
  /\ faults = 0

Fault == faults < MaxFaults /\ faults' = faults + 1

-----------------------------------------------------------------------------
(* The link and the node's client (runOnce). *)

\* runOnce dials, the endpoint authenticates and accepts, and the client sends
\* its hello.  A dial the endpoint rejects changes nothing.
Dial(n, c) ==
  /\ client[n] = None
  /\ handler[c] = "free"
  /\ client' = [client EXCEPT ![n] = c]
  /\ clientOpen' = clientOpen \union {c}
  /\ serverOpen' = serverOpen \union {c}
  /\ linkNode' = [linkNode EXCEPT ![c] = n]
  /\ handler' = [handler EXCEPT ![c] = "accepted"]
  /\ beat' = beat \union {c}
  /\ UNCHANGED <<replaced, current, online, pending, rpcVars, toNode, toBackend,
                 nodeVars, faults>>

\* heartbeatLoop writes one more heartbeat.
Heartbeat(c) ==
  /\ c \in clientOpen /\ c \in serverOpen
  /\ c \notin beat
  /\ beat' = beat \union {c}
  /\ UNCHANGED <<linkVars, hubVars, rpcVars, toNode, toBackend, nodeVars, faults>>

\* The node's end closes and runOnce returns; frames it has not read are lost.
CloseClient(c) ==
  /\ c \in clientOpen
  /\ clientOpen' = clientOpen \ {c}
  /\ client' = [client EXCEPT ![linkNode[c]] = None]
  /\ toNode' = [toNode EXCEPT ![c] = {}]
  /\ UNCHANGED <<serverOpen, linkNode, hubVars, rpcVars, toBackend, beat>>

\* Mutation: heartbeatLoop ignores its write errors.
ClientNeverNotices(c) == FALSE

\* A read or a heartbeat write of the client fails because the backend's end is closed.
ClientNotices(c) ==
  /\ c \notin serverOpen
  /\ CloseClient(c)
  /\ UNCHANGED <<nodeVars, faults>>

\* The client's end of a healthy link fails.
ClientDrops(c) ==
  /\ c \in serverOpen
  /\ Fault
  /\ CloseClient(c)
  /\ UNCHANGED nodeVars

\* The node service stops: its sockets close and its goroutines end with it,
\* whatever link they answer on.
NodeStops(n) ==
  /\ Fault
  /\ client' = [client EXCEPT ![n] = None]
  /\ clientOpen' = {c \in clientOpen : linkNode[c] # n}
  /\ toNode' = [c \in Conn |-> IF linkNode[c] = n THEN {} ELSE toNode[c]]
  /\ running' = [c \in Conn |-> IF linkNode[c] = n THEN {} ELSE running[c]]
  /\ UNCHANGED <<serverOpen, linkNode, hubVars, rpcVars, toBackend, beat, runs, served>>

\* The backend's end sees that the link is gone.
CloseServer(c) ==
  /\ c \in serverOpen
  /\ serverOpen' = serverOpen \ {c}
  /\ UNCHANGED <<client, clientOpen, linkNode, hubVars, rpcVars, wireVars, nodeVars>>

ServerNotices(c) ==
  /\ c \notin clientOpen
  /\ CloseServer(c)
  /\ UNCHANGED faults

ServerDrops(c) ==
  /\ c \in clientOpen
  /\ Fault
  /\ CloseServer(c)

-----------------------------------------------------------------------------
(* The connection's handler: node_websocket, NodeHub.register and unregister. *)

\* fail_pending: every undone future of c gets NodeOfflineError.
FailPending(c) ==
  future' = [r \in Request |-> IF r \in pending[c] /\ future[r] = "pending"
                                 THEN "failed" ELSE future[r]]

\* Mutation: register forgets the connection it replaces.
RegisterForgettingPrevious(c) ==
  /\ handler[c] = "accepted"
  /\ current' = [current EXCEPT ![linkNode[c]] = c]
  /\ online' = online \union {linkNode[c]}
  /\ handler' = [handler EXCEPT ![c] = "storing"]
  /\ UNCHANGED <<linkVars, replaced, pending, rpcVars, wireVars, nodeVars, faults>>

\* register, up to its first await: c takes its node's place in the hub, and the
\* requests that waited on the connection it replaces fail.
Register(c) ==
  LET n == linkNode[c]
      previous == current[n]
  IN
  /\ handler[c] = "accepted"
  /\ current' = [current EXCEPT ![n] = c]
  /\ online' = online \union {n}
  /\ \/ /\ previous = None
        /\ handler' = [handler EXCEPT ![c] = "storing"]
        /\ UNCHANGED <<replaced, pending, future>>
     \/ /\ previous # None
        /\ handler' = [handler EXCEPT ![c] = "swapped"]
        /\ replaced' = [replaced EXCEPT ![c] = previous]
        /\ pending' = [pending EXCEPT ![previous] = {}]
        /\ FailPending(previous)
  /\ UNCHANGED <<linkVars, rpc, via, outcome, wireVars, nodeVars, faults>>

\* Mutation: the replaced connection is left open.
ClosePreviousNot(c) ==
  /\ handler[c] = "swapped"
  /\ handler' = [handler EXCEPT ![c] = "storing"]
  /\ UNCHANGED <<linkVars, replaced, current, online, pending, rpcVars, wireVars,
                 nodeVars, faults>>

\* `await previous.close(...)` returns.
ClosePrevious(c) ==
  /\ handler[c] = "swapped"
  /\ handler' = [handler EXCEPT ![c] = "storing"]
  /\ serverOpen' = serverOpen \ {replaced[c]}
  /\ UNCHANGED <<client, clientOpen, linkNode, replaced, current, online, pending,
                 rpcVars, wireVars, nodeVars, faults>>

\* The thread that stores the node's status returns, and the receive loop starts.
Stored(c) ==
  /\ handler[c] \in {"storing", "persisting"}
  /\ handler' = [handler EXCEPT ![c] = "reading"]
  /\ UNCHANGED <<linkVars, replaced, current, online, pending, rpcVars, wireVars,
                 nodeVars, faults>>

\* register raises: the close of the replaced socket fails with anything but RuntimeError, or
\* the database write does.  The call stands before the try, so no unregister runs; the server
\* closes the socket of the failed handler.
RegisterFails(c) ==
  /\ handler[c] \in {"swapped", "storing"}
  /\ Fault
  /\ handler' = [handler EXCEPT ![c] = "leaked"]
  /\ serverOpen' = serverOpen \ ({c} \union (IF handler[c] = "swapped" THEN {replaced[c]} ELSE {}))
  /\ UNCHANGED <<client, clientOpen, linkNode, replaced, current, online, pending,
                 rpcVars, wireVars, nodeVars>>

\* Mutation: unregister without its `current is not connection` check.
UnregisterUnchecked(c) ==
  /\ handler' = [handler EXCEPT ![c] = "done"]
  /\ serverOpen' = serverOpen \ {c}
  /\ current' = [current EXCEPT ![linkNode[c]] = None]
  /\ online' = online \ {linkNode[c]}
  /\ pending' = [pending EXCEPT ![c] = {}]
  /\ FailPending(c)
  /\ UNCHANGED <<client, clientOpen, linkNode, replaced, rpc, via, outcome, wireVars,
                 nodeVars>>

\* Mutation: unregister without fail_pending.
UnregisterKeepingPending(c) ==
  /\ handler' = [handler EXCEPT ![c] = "done"]
  /\ serverOpen' = serverOpen \ {c}
  /\ \/ /\ current[linkNode[c]] = c
        /\ current' = [current EXCEPT ![linkNode[c]] = None]
        /\ online' = online \ {linkNode[c]}
     \/ /\ current[linkNode[c]] # c
        /\ UNCHANGED <<current, online>>
  /\ UNCHANGED <<client, clientOpen, linkNode, replaced, pending, rpcVars, wireVars,
                 nodeVars>>

\* unregister, in the finally clause: nothing, unless c is still its node's connection.
Unregister(c) ==
  /\ handler' = [handler EXCEPT ![c] = "done"]
  /\ serverOpen' = serverOpen \ {c}
  /\ \/ /\ current[linkNode[c]] = c
        /\ current' = [current EXCEPT ![linkNode[c]] = None]
        /\ online' = online \ {linkNode[c]}
        /\ pending' = [pending EXCEPT ![c] = {}]
        /\ FailPending(c)
     \/ /\ current[linkNode[c]] # c
        /\ UNCHANGED <<current, online, pending, future>>
  /\ UNCHANGED <<client, clientOpen, linkNode, replaced, rpc, via, outcome, wireVars,
                 nodeVars>>

\* receive_json raises WebSocketDisconnect.
ReadFails(c) ==
  /\ handler[c] = "reading"
  /\ c \notin serverOpen
  /\ Unregister(c)
  /\ UNCHANGED faults

\* The database write of a heartbeat raises out of the receive loop.
PersistFails(c) ==
  /\ handler[c] = "persisting"
  /\ Fault
  /\ Unregister(c)

\* Mutation: any answer counts as a success.
HandleResponseAsOk(c, m) ==
  /\ handler[c] = "reading"
  /\ m \in toBackend[c]
  /\ toBackend' = [toBackend EXCEPT ![c] = @ \ {m}]
  /\ future' = IF m.id \in pending[c] /\ future[m.id] = "pending"
                 THEN [future EXCEPT ![m.id] = "ok"] ELSE future
  /\ UNCHANGED <<linkVars, hubVars, rpc, via, outcome, toNode, beat, nodeVars, faults>>

\* handle_message, response: resolve the future that waits under this id on this
\* connection; an answer nobody waits for is dropped.
HandleResponse(c, m) ==
  /\ handler[c] = "reading"
  /\ m \in toBackend[c]
  /\ toBackend' = [toBackend EXCEPT ![c] = @ \ {m}]
  /\ future' = IF m.id \in pending[c] /\ future[m.id] = "pending"
                 THEN [future EXCEPT ![m.id] = m.verdict] ELSE future
  /\ UNCHANGED <<linkVars, hubVars, rpc, via, outcome, toNode, beat, nodeVars, faults>>

\* Mutation: _mark_online without its check that c is still registered.
MarkOnlineUnchecked(c) == online' = online \union {linkNode[c]}

\* _mark_online: refresh the node's liveness, unless c has been replaced or removed.
MarkOnline(c) ==
  online' = IF current[linkNode[c]] = c
              THEN online \union {linkNode[c]} ELSE online

\* handle_message, hello and heartbeat: now and then the status goes to the database.
HandleHeartbeat(c) ==
  /\ handler[c] = "reading"
  /\ c \in beat
  /\ beat' = beat \ {c}
  /\ MarkOnline(c)
  /\ \/ UNCHANGED handler
     \/ /\ current[linkNode[c]] = c
        /\ handler' = [handler EXCEPT ![c] = "persisting"]
  /\ UNCHANGED <<linkVars, replaced, current, pending, rpcVars, toNode, toBackend,
                 nodeVars, faults>>

-----------------------------------------------------------------------------
(* NodeHub.request. *)

\* request, up to its first await: find the node's connection, register a future.
Request_(r, n) ==
  /\ rpc[r] = "idle"
  /\ current[n] # None
  /\ rpc' = [rpc EXCEPT ![r] = "sending"]
  /\ via' = [via EXCEPT ![r] = current[n]]
  /\ future' = [future EXCEPT ![r] = "pending"]
  /\ pending' = [pending EXCEPT ![current[n]] = @ \union {r}]
  /\ UNCHANGED <<linkVars, handler, replaced, current, online, outcome, wireVars,
                 nodeVars, faults>>

\* request raises before it has sent anything: the node row it was given is
\* disabled, or the node has no connection.
Refuse(r, n, why) ==
  /\ rpc[r] = "idle"
  /\ why = "offline" => current[n] = None
  /\ rpc' = [rpc EXCEPT ![r] = "done"]
  /\ outcome' = [outcome EXCEPT ![r] = why]
  /\ UNCHANGED <<linkVars, hubVars, via, future, wireVars, nodeVars, faults>>

\* send_json holds send_lock from the frame's first byte until the socket has drained.
SendLocked(c) == \E r \in Request : rpc[r] = "flushing" /\ via[r] = c

Transmit(r) ==
  /\ rpc[r] = "sending"
  /\ ~SendLocked(via[r])
  /\ via[r] \in serverOpen
  /\ rpc' = [rpc EXCEPT ![r] = "flushing"]
  /\ toNode' = IF via[r] \in clientOpen
                 THEN [toNode EXCEPT ![via[r]] = @ \union {r}] ELSE toNode
  /\ UNCHANGED <<linkVars, hubVars, via, future, outcome, toBackend, beat, nodeVars, faults>>

SendReturns(r) ==
  /\ rpc[r] = "flushing"
  /\ rpc' = [rpc EXCEPT ![r] = "waiting"]
  /\ UNCHANGED <<linkVars, hubVars, via, future, outcome, wireVars, nodeVars, faults>>

\* Mutation: request waits without a timeout.
TimerNever(r) == FALSE

\* wait_for's timer cancels the future.  One that is already resolved may still be
\* lost to the timer, if request has not been resumed yet.
TimerFires(r) ==
  /\ rpc[r] = "waiting"
  /\ future[r] # "cancelled"
  /\ future' = [future EXCEPT ![r] = "cancelled"]
  /\ UNCHANGED <<linkVars, hubVars, rpc, via, outcome, wireVars, nodeVars, faults>>

\* Mutation: request lets the exceptions of its future through as they are.
OutcomeUntranslated(f) == f

\* What request makes of its future: the answer, NodeRequestError or NodeOfflineError.
OutcomeOf(f) ==
  CASE f \in Verdicts -> f
    [] f = "cancelled" -> "timeout"
    [] OTHER -> "offline"

\* The finally clause of request, and what follows it.
Finish(r, o) ==
  /\ rpc' = [rpc EXCEPT ![r] = "done"]
  /\ outcome' = [outcome EXCEPT ![r] = o]
  /\ pending' = [pending EXCEPT ![via[r]] = @ \ {r}]
  /\ IF o = "ok" THEN MarkOnline(via[r]) ELSE UNCHANGED online
  /\ UNCHANGED <<linkVars, handler, replaced, current, via, future, wireVars, nodeVars,
                 faults>>

\* send_json raises: the backend's end is closed.
SendFails(r) ==
  /\ \/ rpc[r] = "flushing"
     \/ rpc[r] = "sending" /\ ~SendLocked(via[r])
  /\ via[r] \notin serverOpen
  /\ Finish(r, "offline")

\* The coroutine resumes with its future resolved.
Resume(r) ==
  /\ rpc[r] = "waiting"
  /\ future[r] # "pending"
  /\ Finish(r, OutcomeOf(future[r]))

-----------------------------------------------------------------------------
(* The node's request handling. *)

\* The read loop takes a request and starts its goroutine.
StartCommand(c, r) ==
  /\ c \in clientOpen
  /\ r \in toNode[c]
  /\ toNode' = [toNode EXCEPT ![c] = @ \ {r}]
  /\ running' = [running EXCEPT ![c] = @ \union {r}]
  /\ runs' = [runs EXCEPT ![r] = @ + 1]
  /\ UNCHANGED <<linkVars, hubVars, rpcVars, toBackend, beat, served, faults>>

\* handleRequest: the command ends, and its answer goes out on the link the request
\* came in on, if that is still there.
Answer(c, r, v) ==
  /\ r \in running[c]
  /\ running' = [running EXCEPT ![c] = @ \ {r}]
  /\ served' = [served EXCEPT ![r] = v]
  /\ toBackend' = IF c \in clientOpen /\ c \in serverOpen
                    THEN [toBackend EXCEPT ![c] = @ \union {[id |-> r, verdict |-> v]}]
                    ELSE toBackend
  /\ UNCHANGED <<linkVars, hubVars, rpcVars, toNode, beat, runs, faults>>

\* Nothing refers to the connection any more.
Collect(c) ==
  /\ handler[c] \in {"done", "leaked"}
  /\ c \notin clientOpen /\ c \notin serverOpen /\ running[c] = {}
  /\ current[linkNode[c]] # c
  /\ \A d \in Conn : handler[d] = "swapped" => replaced[d] # c
  /\ \A r \in Request : via[r] = c => rpc[r] = "done"
  /\ handler' = [handler EXCEPT ![c] = "free"]
  /\ linkNode' = [linkNode EXCEPT ![c] = None]
  /\ replaced' = [replaced EXCEPT ![c] = None]
  /\ toBackend' = [toBackend EXCEPT ![c] = {}]
  /\ beat' = beat \ {c}
  /\ UNCHANGED <<client, clientOpen, serverOpen, current, online, pending, rpcVars,
                 toNode, nodeVars, faults>>

-----------------------------------------------------------------------------
LinkNext ==
  \/ \E n \in Node : NodeStops(n) \/ \E c \in Conn : Dial(n, c)
  \/ \E c \in Conn : Heartbeat(c) \/ ClientNotices(c) \/ ClientDrops(c)
                     \/ ServerNotices(c) \/ ServerDrops(c)

HandlerNext == \E c \in Conn :
  \/ Register(c) \/ ClosePrevious(c) \/ Stored(c) \/ RegisterFails(c)
  \/ ReadFails(c) \/ PersistFails(c) \/ HandleHeartbeat(c) \/ Collect(c)
  \/ \E m \in toBackend[c] : HandleResponse(c, m)

RequestNext == \E r \in Request :
  \/ \E n \in Node : Request_(r, n) \/ \E why \in {"offline", "disabled"} : Refuse(r, n, why)
  \/ Transmit(r) \/ SendReturns(r) \/ SendFails(r) \/ TimerFires(r) \/ Resume(r)

NodeNext == \E c \in Conn, r \in Request :
  StartCommand(c, r) \/ \E v \in Verdicts : Answer(c, r, v)

Next == LinkNext \/ HandlerNext \/ RequestNext \/ NodeNext

SafeSpec == Init /\ [][Next]_vars

(***************************************************************************)
(* Fairness: the event loop runs every step that is ready; a closed link   *)
(* is noticed by its other end (websocket keep-alive at the backend, the   *)
(* 20 s heartbeat write at the node); a socket write drains or fails; the  *)
(* client redials after five seconds.  Nothing is assumed of the node's    *)
(* commands, nor that anyone makes a request.                              *)
(***************************************************************************)
Fairness ==
  /\ \A c \in Conn :
       /\ WF_vars(ClientNotices(c)) /\ WF_vars(ServerNotices(c))
       /\ WF_vars(Register(c)) /\ WF_vars(ClosePrevious(c)) /\ WF_vars(Stored(c))
       /\ WF_vars(ReadFails(c)) /\ WF_vars(Collect(c))
  /\ \A n \in Node : WF_vars(\E c \in Conn : Dial(n, c))
  /\ \A r \in Request :
       /\ SF_vars(Transmit(r)) /\ WF_vars(SendReturns(r)) /\ SF_vars(SendFails(r))
       /\ WF_vars(TimerFires(r)) /\ WF_vars(Resume(r))

Spec == SafeSpec /\ Fairness

-----------------------------------------------------------------------------
(* Properties. *)

\* Only the connection a node is registered with holds requests that wait: the swap
\* in register and the removal in unregister both empty the one that leaves.
PendingOnlyOnCurrent ==
  \A c \in Conn : pending[c] # {} => current[linkNode[c]] = c

\* No caller waits on a connection that can no longer answer it or fail it: an
\* unresolved future is listed on its connection, and that is the registered one.
NoStrandedRequest ==
  \A r \in Request : rpc[r] # "done" /\ future[r] = "pending" =>
    /\ via[r] # None
    /\ r \in pending[via[r]]
    /\ current[linkNode[via[r]]] = via[r]

\* A node shows as online exactly while it has a registered connection, whatever
\* late answers and heartbeats of older connections are still being processed.
OnlineIffRegistered ==
  \A n \in Node : n \in online <=> current[n] # None

\* Once a new connection's register call has moved on, the one it replaced is closed:
\* a node never has two open connections the backend reads from.
SupersededIsClosed ==
  \A c \in Conn :
    handler[c] \in {"reading", "persisting"} /\ c \in serverOpen /\ current[linkNode[c]] # c
      => \E d \in Conn : handler[d] = "swapped" /\ replaced[d] = c

\* A node goes offline only when the handler of its registered connection ends: the
\* late exit of a replaced connection's handler takes nothing away.
OnlyOwnHandlerTakesOffline ==
  [][\A n \in Node : current[n] # None /\ current'[n] = None
       => handler'[current[n]] = "done"]_vars

\* Every request() call ends.
RequestsFinish ==
  \A r \in Request : rpc[r] # "idle" ~> rpc[r] = "done"

\* When faults stop, every node is in the end registered with a connection that is
\* being read, however the old and the new connections' steps interleaved.
EventuallyServed ==
  \A n \in Node : <>[](current[n] # None /\ handler[current[n]] \in {"reading", "persisting"})

\* What docs/node-api.md says of online state: it is that of the active connection,
\* so an online node's connection has a handler that will read it or take it offline.
OnlineMeansActive ==
  \A n \in online : handler[current[n]] # "leaked"

\* The contract of request: NodeRPC, with the coroutine's position as its phase.
Phase(r) ==
  CASE rpc[r] = "idle" -> "idle"
    [] rpc[r] = "done" -> IF via[r] = None THEN "refused" ELSE "closed"
    [] OTHER -> "open"

RPC == INSTANCE NodeRPC WITH
  phase <- [r \in Request |-> Phase(r)],
  ran <- {r \in Request : runs[r] > 0}

\* Every behaviour of the hub and its nodes is one NodeRPC allows.
ImplementsRPC == RPC!SafeSpec
=============================================================================
