--------------------------- MODULE NodeHubProofs ---------------------------
(***************************************************************************)
(* Proofs about NodeHub, for any sets of nodes, connections and requests   *)
(* and any number of faults.  IInv is the inductive invariant: the type    *)
(* invariant, the bookkeeping that ties a connection to its node and a     *)
(* request to its connection, and where the frames of a request can be.    *)
(***************************************************************************)
EXTENDS NodeHub, TLAPS

Active == {"sending", "flushing", "waiting"}

\* A connection that exists belongs to a node; a registered one is past register's
\* swap and has not left.
ConnInv ==
  /\ \A c \in Conn : handler[c] # "free" => linkNode[c] \in Node
  /\ \A c \in clientOpen : handler[c] # "free"
  /\ \A c \in Conn : handler[c] = "swapped" => replaced[c] \in Conn
  /\ \A n \in Node : client[n] # None =>
       client[n] \in clientOpen /\ linkNode[client[n]] = n
  /\ \A n \in Node : current[n] # None =>
       /\ linkNode[current[n]] = n
       /\ handler[current[n]] \notin {"free", "accepted", "done"}

\* A request that has not ended is on a connection that exists, and a listed id
\* belongs to such a request.
RequestInv ==
  /\ \A r \in Request : rpc[r] = "idle" => via[r] = None /\ future[r] = "none"
  /\ \A r \in Request : rpc[r] \in Active => via[r] \in Conn /\ handler[via[r]] # "free"
  /\ \A c \in Conn : \A r \in pending[c] : via[r] = c /\ rpc[r] \in Active
  /\ \A c \in Conn : pending[c] # {} =>
       linkNode[c] \in Node /\ current[linkNode[c]] = c
  /\ \A r \in Request : rpc[r] \in Active /\ future[r] = "pending" => r \in pending[via[r]]

\* A request's frame is in one place at a time, and what comes back is the verdict
\* of its run.
WireInv ==
  /\ \A c \in Conn : \A r \in toNode[c] :
       via[r] = c /\ runs[r] = 0 /\ rpc[r] \in {"flushing", "waiting", "done"}
  /\ \A r \in Request : rpc[r] \in {"idle", "sending"} => runs[r] = 0
  /\ \A c \in Conn : \A r \in running[c] : via[r] = c /\ runs[r] = 1 /\ served[r] = "none"
  /\ \A r \in Request : served[r] # "none" => runs[r] = 1
  /\ \A c \in Conn : \A m \in toBackend[c] : served[m.id] = m.verdict
  /\ \A r \in Request : future[r] \in Verdicts => served[r] = future[r]

IInv == TypeOK /\ ConnInv /\ RequestInv /\ WireInv /\ OnlineIffRegistered

USE NoneAssumption, FaultsAssumption
    DEF linkVars, hubVars, rpcVars, wireVars, nodeVars,
        HandlerStates, RpcStates, FutureStates, Outcomes, Verdicts, Response

-----------------------------------------------------------------------------
(* The types of what the end of a handler changes. *)
LEMMA UnregisterTypes ==
  ASSUME TypeOK, NEW c \in Conn, Unregister(c)
  PROVE  /\ handler' \in [Conn -> HandlerStates] /\ serverOpen' \subseteq Conn
         /\ current' \in [Node -> Conn \union {None}] /\ online' \subseteq Node
         /\ pending' \in [Conn -> SUBSET Request] /\ future' \in [Request -> FutureStates]
<1>1. handler' \in [Conn -> HandlerStates] /\ serverOpen' \subseteq Conn
  BY DEF Unregister, TypeOK
<1>2. current' \in [Node -> Conn \union {None}] /\ online' \subseteq Node
  BY DEF Unregister, TypeOK
<1>3. pending' \in [Conn -> SUBSET Request]
  BY DEF Unregister, TypeOK
<1>4. future' \in [Request -> FutureStates]
  BY DEF Unregister, FailPending, TypeOK
<1> QED
  BY <1>1, <1>2, <1>3, <1>4

(* Every step preserves the type invariant. *)
LEMMA TypeStep == TypeOK /\ ConnInv /\ RequestInv /\ [Next]_vars => TypeOK'
<1> SUFFICES ASSUME TypeOK, ConnInv, RequestInv, [Next]_vars PROVE TypeOK'
  OBVIOUS
<1>1. ASSUME NEW n \in Node, NodeStops(n)
      PROVE  TypeOK'
  BY <1>1 DEF NodeStops, Fault, TypeOK
<1>2. ASSUME NEW n \in Node, NEW c \in Conn, Dial(n, c)
      PROVE  TypeOK'
  BY <1>2 DEF Dial, TypeOK
<1>3. ASSUME NEW c \in Conn, Heartbeat(c)
      PROVE  TypeOK'
  BY <1>3 DEF Heartbeat, TypeOK
<1>4. ASSUME NEW c \in Conn, ClientNotices(c)
      PROVE  TypeOK'
  BY <1>4 DEF ClientNotices, CloseClient, TypeOK
<1>5. ASSUME NEW c \in Conn, ClientDrops(c)
      PROVE  TypeOK'
  <2>1. faults' \in 0..MaxFaults
    BY <1>5 DEF ClientDrops, Fault, TypeOK
  <2> QED
    BY <1>5, <2>1 DEF ClientDrops, CloseClient, TypeOK
<1>6. ASSUME NEW c \in Conn, ServerNotices(c)
      PROVE  TypeOK'
  BY <1>6 DEF ServerNotices, CloseServer, TypeOK
<1>7. ASSUME NEW c \in Conn, ServerDrops(c)
      PROVE  TypeOK'
  BY <1>7 DEF ServerDrops, CloseServer, Fault, TypeOK
<1>8. ASSUME NEW c \in Conn, Register(c)
      PROVE  TypeOK'
  <2> DEFINE n == linkNode[c]
             p == current[n]
  <2>1. n \in Node /\ p \in Conn \union {None}
    BY <1>8 DEF Register, ConnInv, TypeOK
  <2>2. CASE p = None
    BY <1>8, <2>1, <2>2 DEF Register, TypeOK
  <2>3. CASE p # None
    <3>1. handler' = [handler EXCEPT ![c] = "swapped"] /\ replaced' = [replaced EXCEPT ![c] = p]
          /\ current' = [current EXCEPT ![n] = c] /\ online' = online \union {n}
      BY <1>8, <2>3 DEF Register
    <3>2. pending' \in [Conn -> SUBSET Request] /\ future' \in [Request -> FutureStates]
      <4>1. pending' = [pending EXCEPT ![p] = {}] /\ FailPending(p)
        BY <1>8, <2>3 DEF Register
      <4> QED
        BY <2>1, <2>3, <4>1 DEF FailPending, TypeOK
    <3>3. handler' \in [Conn -> HandlerStates] /\ replaced' \in [Conn -> Conn \union {None}]
          /\ current' \in [Node -> Conn \union {None}] /\ online' \subseteq Node
      BY <2>1, <2>3, <3>1 DEF TypeOK
    <3> QED
      BY <1>8, <3>3, <3>2 DEF Register, TypeOK
  <2> QED
    BY <2>2, <2>3
<1>9. ASSUME NEW c \in Conn, ClosePrevious(c)
      PROVE  TypeOK'
  BY <1>9 DEF ClosePrevious, TypeOK
<1>10. ASSUME NEW c \in Conn, Stored(c)
      PROVE  TypeOK'
  BY <1>10 DEF Stored, TypeOK
<1>11. ASSUME NEW c \in Conn, RegisterFails(c)
      PROVE  TypeOK'
  BY <1>11 DEF RegisterFails, Fault, TypeOK
<1>12. ASSUME NEW c \in Conn, ReadFails(c)
      PROVE  TypeOK'
  BY <1>12, UnregisterTypes DEF ReadFails, Unregister, TypeOK
<1>13. ASSUME NEW c \in Conn, PersistFails(c)
      PROVE  TypeOK'
  <2>1. faults' \in 0..MaxFaults
    BY <1>13 DEF PersistFails, Fault, TypeOK
  <2> QED
    BY <1>13, <2>1, UnregisterTypes DEF PersistFails, Unregister, TypeOK
<1>14. ASSUME NEW c \in Conn, HandleHeartbeat(c)
      PROVE  TypeOK'
  BY <1>14 DEF HandleHeartbeat, MarkOnline, TypeOK, ConnInv
<1>15. ASSUME NEW c \in Conn, Collect(c)
      PROVE  TypeOK'
  BY <1>15 DEF Collect, TypeOK
<1>16. ASSUME NEW c \in Conn, NEW m \in toBackend[c], HandleResponse(c, m)
      PROVE  TypeOK'
  BY <1>16 DEF HandleResponse, TypeOK
<1>17. ASSUME NEW r \in Request, NEW n \in Node, Request_(r, n)
      PROVE  TypeOK'
  BY <1>17 DEF Request_, TypeOK
<1>18. ASSUME NEW r \in Request, NEW n \in Node, NEW why \in {"offline", "disabled"}, Refuse(r, n, why)
      PROVE  TypeOK'
  BY <1>18 DEF Refuse, TypeOK
<1>19. ASSUME NEW r \in Request, Transmit(r)
      PROVE  TypeOK'
  BY <1>19 DEF Transmit, SendLocked, TypeOK
<1>20. ASSUME NEW r \in Request, SendReturns(r)
      PROVE  TypeOK'
  BY <1>20 DEF SendReturns, TypeOK
<1>21. ASSUME NEW r \in Request, SendFails(r)
      PROVE  TypeOK'
  BY <1>21 DEF SendFails, Finish, MarkOnline, TypeOK
<1>22. ASSUME NEW r \in Request, TimerFires(r)
      PROVE  TypeOK'
  BY <1>22 DEF TimerFires, TypeOK
<1>23. ASSUME NEW r \in Request, Resume(r)
      PROVE  TypeOK'
  BY <1>23 DEF Resume, Finish, MarkOnline, OutcomeOf, TypeOK, ConnInv, RequestInv, Active
<1>24. ASSUME NEW c \in Conn, NEW r \in Request, StartCommand(c, r)
      PROVE  TypeOK'
  BY <1>24 DEF StartCommand, TypeOK
<1>25. ASSUME NEW c \in Conn, NEW r \in Request, NEW v \in Verdicts, Answer(c, r, v)
      PROVE  TypeOK'
  BY <1>25 DEF Answer, TypeOK
<1>26. CASE UNCHANGED vars
  BY <1>26 DEF vars, TypeOK
<1> QED
  BY <1>1, <1>2, <1>3, <1>4, <1>5, <1>6, <1>7, <1>8, <1>9, <1>10, <1>11, <1>12, <1>13,
     <1>14, <1>15, <1>16, <1>17, <1>18, <1>19, <1>20, <1>21, <1>22, <1>23, <1>24, <1>25, <1>26
     DEF Next, LinkNext, HandlerNext, RequestNext, NodeNext

(* A registered connection stays its node's and is not collected. *)
LEMMA ConnStep == TypeOK /\ ConnInv /\ RequestInv /\ [Next]_vars => ConnInv'
<1> SUFFICES ASSUME TypeOK, ConnInv, RequestInv, [Next]_vars PROVE ConnInv'
  OBVIOUS
<1>1. ASSUME NEW n \in Node, NodeStops(n)
      PROVE  ConnInv'
  BY <1>1 DEF NodeStops, Fault, TypeOK, ConnInv
<1>2. ASSUME NEW n \in Node, NEW c \in Conn, Dial(n, c)
      PROVE  ConnInv'
  <2>1. \A m \in Node : client[m] # c /\ current[m] # c
    BY <1>2 DEF Dial, TypeOK, ConnInv
  <2> QED
    BY <1>2, <2>1 DEF Dial, TypeOK, ConnInv
<1>3. ASSUME NEW c \in Conn, Heartbeat(c)
      PROVE  ConnInv'
  BY <1>3 DEF Heartbeat, TypeOK, ConnInv
<1>4. ASSUME NEW c \in Conn, ClientNotices(c)
      PROVE  ConnInv'
  BY <1>4 DEF ClientNotices, CloseClient, TypeOK, ConnInv
<1>5. ASSUME NEW c \in Conn, ClientDrops(c)
      PROVE  ConnInv'
  BY <1>5 DEF ClientDrops, CloseClient, Fault, TypeOK, ConnInv
<1>6. ASSUME NEW c \in Conn, ServerNotices(c)
      PROVE  ConnInv'
  BY <1>6 DEF ServerNotices, CloseServer, TypeOK, ConnInv
<1>7. ASSUME NEW c \in Conn, ServerDrops(c)
      PROVE  ConnInv'
  BY <1>7 DEF ServerDrops, CloseServer, Fault, TypeOK, ConnInv
<1>8. ASSUME NEW c \in Conn, Register(c)
      PROVE  ConnInv'
  <2> DEFINE n == linkNode[c]
  <2>1. n \in Node /\ \A m \in Node : current[m] # c
    BY <1>8 DEF Register, TypeOK, ConnInv
  <2>2. handler[c] = "accepted" /\ handler'[c] \in {"storing", "swapped"}
        /\ \A d \in Conn \ {c} : handler'[d] = handler[d] /\ replaced'[d] = replaced[d]
    BY <1>8 DEF Register, TypeOK
  <2>3. handler'[c] = "swapped" => replaced'[c] \in Conn
    BY <1>8, <2>1 DEF Register, TypeOK
  <2>4. current' = [current EXCEPT ![n] = c] /\ UNCHANGED linkVars
    BY <1>8 DEF Register
  <2> QED
    BY <2>1, <2>2, <2>3, <2>4 DEF TypeOK, ConnInv
<1>9. ASSUME NEW c \in Conn, ClosePrevious(c)
      PROVE  ConnInv'
  BY <1>9 DEF ClosePrevious, TypeOK, ConnInv
<1>10. ASSUME NEW c \in Conn, Stored(c)
      PROVE  ConnInv'
  BY <1>10 DEF Stored, TypeOK, ConnInv
<1>11. ASSUME NEW c \in Conn, RegisterFails(c)
      PROVE  ConnInv'
  BY <1>11 DEF RegisterFails, Fault, TypeOK, ConnInv
<1>12. ASSUME NEW c \in Conn, ReadFails(c)
      PROVE  ConnInv'
  BY <1>12 DEF ReadFails, Unregister, FailPending, TypeOK, ConnInv
<1>13. ASSUME NEW c \in Conn, PersistFails(c)
      PROVE  ConnInv'
  BY <1>13 DEF PersistFails, Unregister, FailPending, Fault, TypeOK, ConnInv
<1>14. ASSUME NEW c \in Conn, HandleHeartbeat(c)
      PROVE  ConnInv'
  BY <1>14 DEF HandleHeartbeat, MarkOnline, TypeOK, ConnInv
<1>15. ASSUME NEW c \in Conn, Collect(c)
      PROVE  ConnInv'
  <2>1. \A m \in Node : client[m] # c /\ current[m] # c
    BY <1>15 DEF Collect, TypeOK, ConnInv
  <2> QED
    BY <1>15, <2>1 DEF Collect, TypeOK, ConnInv
<1>16. ASSUME NEW c \in Conn, NEW m \in toBackend[c], HandleResponse(c, m)
      PROVE  ConnInv'
  BY <1>16 DEF HandleResponse, TypeOK, ConnInv
<1>17. ASSUME NEW r \in Request, NEW n \in Node, Request_(r, n)
      PROVE  ConnInv'
  BY <1>17 DEF Request_, TypeOK, ConnInv
<1>18. ASSUME NEW r \in Request, NEW n \in Node, NEW why \in {"offline", "disabled"}, Refuse(r, n, why)
      PROVE  ConnInv'
  BY <1>18 DEF Refuse, TypeOK, ConnInv
<1>19. ASSUME NEW r \in Request, Transmit(r)
      PROVE  ConnInv'
  BY <1>19 DEF Transmit, SendLocked, TypeOK, ConnInv
<1>20. ASSUME NEW r \in Request, SendReturns(r)
      PROVE  ConnInv'
  BY <1>20 DEF SendReturns, TypeOK, ConnInv
<1>21. ASSUME NEW r \in Request, SendFails(r)
      PROVE  ConnInv'
  BY <1>21 DEF SendFails, Finish, MarkOnline, TypeOK, ConnInv
<1>22. ASSUME NEW r \in Request, TimerFires(r)
      PROVE  ConnInv'
  BY <1>22 DEF TimerFires, TypeOK, ConnInv
<1>23. ASSUME NEW r \in Request, Resume(r)
      PROVE  ConnInv'
  BY <1>23 DEF Resume, Finish, MarkOnline, OutcomeOf, TypeOK, ConnInv
<1>24. ASSUME NEW c \in Conn, NEW r \in Request, StartCommand(c, r)
      PROVE  ConnInv'
  BY <1>24 DEF StartCommand, TypeOK, ConnInv
<1>25. ASSUME NEW c \in Conn, NEW r \in Request, NEW v \in Verdicts, Answer(c, r, v)
      PROVE  ConnInv'
  BY <1>25 DEF Answer, TypeOK, ConnInv
<1>26. CASE UNCHANGED vars
  BY <1>26 DEF vars, TypeOK, ConnInv
<1> QED
  BY <1>1, <1>2, <1>3, <1>4, <1>5, <1>6, <1>7, <1>8, <1>9, <1>10, <1>11, <1>12, <1>13,
     <1>14, <1>15, <1>16, <1>17, <1>18, <1>19, <1>20, <1>21, <1>22, <1>23, <1>24, <1>25, <1>26
     DEF Next, LinkNext, HandlerNext, RequestNext, NodeNext

(* The end of a handler: its connection's requests fail, and nobody else's. *)
LEMMA UnregisterRequests ==
  ASSUME TypeOK, ConnInv, RequestInv, NEW c \in Conn, Unregister(c), handler[c] # "free"
  PROVE  RequestInv'
<1> DEFINE n == linkNode[c]
<1>1. n \in Node /\ UNCHANGED <<linkNode, rpc, via>>
      /\ \A d \in Conn : handler'[d] = "free" <=> handler[d] = "free"
  BY DEF Unregister, TypeOK, ConnInv
<1>2. CASE current[n] = c
  <2>1. current' = [current EXCEPT ![n] = None] /\ pending' = [pending EXCEPT ![c] = {}]
        /\ FailPending(c)
    BY <1>2 DEF Unregister
  <2>2. \A r \in Request :
          /\ future'[r] = "pending" => future[r] = "pending" /\ r \notin pending[c]
          /\ future[r] = "none" /\ r \notin pending[c] => future'[r] = "none"
    BY <2>1 DEF FailPending, TypeOK
  <2>3. \A d \in Conn : pending'[d] # {} =>
          d # c /\ linkNode[d] \in Node /\ linkNode[d] # n /\ current[linkNode[d]] = d
    BY <1>2, <2>1 DEF TypeOK, RequestInv
  <2>4. \A r \in Request : rpc[r] = "idle" => r \notin pending[c]
    BY DEF RequestInv, Active
  <2> QED
    BY <1>1, <2>1, <2>2, <2>3, <2>4 DEF TypeOK, RequestInv, Active
<1>3. CASE current[n] # c
  <2>1. UNCHANGED <<current, pending, future>>
    BY <1>3 DEF Unregister
  <2> QED
    BY <1>1, <2>1 DEF TypeOK, RequestInv, Active
<1> QED
  BY <1>2, <1>3

(* A waiting request stays listed on its node's registered connection. *)
LEMMA RequestStep == TypeOK /\ ConnInv /\ RequestInv /\ [Next]_vars => RequestInv'
<1> SUFFICES ASSUME TypeOK, ConnInv, RequestInv, [Next]_vars PROVE RequestInv'
  OBVIOUS
<1>1. ASSUME NEW n \in Node, NodeStops(n)
      PROVE  RequestInv'
  BY <1>1 DEF NodeStops, Fault, TypeOK, ConnInv, RequestInv, Active
<1>2. ASSUME NEW n \in Node, NEW c \in Conn, Dial(n, c)
      PROVE  RequestInv'
  BY <1>2 DEF Dial, TypeOK, ConnInv, RequestInv, Active
<1>3. ASSUME NEW c \in Conn, Heartbeat(c)
      PROVE  RequestInv'
  BY <1>3 DEF Heartbeat, TypeOK, ConnInv, RequestInv, Active
<1>4. ASSUME NEW c \in Conn, ClientNotices(c)
      PROVE  RequestInv'
  BY <1>4 DEF ClientNotices, CloseClient, TypeOK, ConnInv, RequestInv, Active
<1>5. ASSUME NEW c \in Conn, ClientDrops(c)
      PROVE  RequestInv'
  BY <1>5 DEF ClientDrops, CloseClient, Fault, TypeOK, ConnInv, RequestInv, Active
<1>6. ASSUME NEW c \in Conn, ServerNotices(c)
      PROVE  RequestInv'
  BY <1>6 DEF ServerNotices, CloseServer, TypeOK, ConnInv, RequestInv, Active
<1>7. ASSUME NEW c \in Conn, ServerDrops(c)
      PROVE  RequestInv'
  BY <1>7 DEF ServerDrops, CloseServer, Fault, TypeOK, ConnInv, RequestInv, Active
<1>8. ASSUME NEW c \in Conn, Register(c)
      PROVE  RequestInv'
  <2> DEFINE n == linkNode[c]
             p == current[n]
  <2>1. n \in Node /\ p # c /\ p \in Conn \union {None} /\ pending[c] = {}
    BY <1>8 DEF Register, TypeOK, ConnInv, RequestInv
  <2>2. current' = [current EXCEPT ![n] = c] /\ UNCHANGED <<linkVars, rpc, via>>
        /\ \A d \in Conn : handler'[d] = "free" <=> handler[d] = "free"
    BY <1>8 DEF Register, TypeOK
  <2>3. CASE p = None
    BY <1>8, <2>1, <2>2, <2>3 DEF Register, TypeOK, ConnInv, RequestInv, Active
  <2>4. CASE p # None
    <3>1. pending' = [pending EXCEPT ![p] = {}]
          /\ \A r \in Request : future'[r] = "pending" => future[r] = "pending" /\ r \notin pending[p]
      BY <1>8, <2>1, <2>4 DEF Register, FailPending, TypeOK
    <3>2. \A d \in Conn : pending'[d] # {} =>
            d # p /\ linkNode[d] \in Node /\ linkNode[d] # n /\ current[linkNode[d]] = d
      BY <2>1, <2>4, <3>1 DEF TypeOK, ConnInv, RequestInv
    <3>3. \A r \in Request : rpc[r] = "idle" => future'[r] = "none"
      BY <1>8, <2>4 DEF Register, FailPending, TypeOK, RequestInv
    <3> QED
      BY <2>1, <2>2, <2>4, <3>1, <3>2, <3>3 DEF TypeOK, RequestInv, Active
  <2> QED
    BY <2>3, <2>4
<1>9. ASSUME NEW c \in Conn, ClosePrevious(c)
      PROVE  RequestInv'
  BY <1>9 DEF ClosePrevious, TypeOK, ConnInv, RequestInv, Active
<1>10. ASSUME NEW c \in Conn, Stored(c)
      PROVE  RequestInv'
  BY <1>10 DEF Stored, TypeOK, ConnInv, RequestInv, Active
<1>11. ASSUME NEW c \in Conn, RegisterFails(c)
      PROVE  RequestInv'
  BY <1>11 DEF RegisterFails, Fault, TypeOK, ConnInv, RequestInv, Active
<1>12. ASSUME NEW c \in Conn, ReadFails(c)
      PROVE  RequestInv'
  BY <1>12, UnregisterRequests DEF ReadFails
<1>13. ASSUME NEW c \in Conn, PersistFails(c)
      PROVE  RequestInv'
  BY <1>13, UnregisterRequests DEF PersistFails
<1>14. ASSUME NEW c \in Conn, HandleHeartbeat(c)
      PROVE  RequestInv'
  BY <1>14 DEF HandleHeartbeat, MarkOnline, TypeOK, ConnInv, RequestInv, Active
<1>15. ASSUME NEW c \in Conn, Collect(c)
      PROVE  RequestInv'
  BY <1>15 DEF Collect, TypeOK, ConnInv, RequestInv, Active
<1>16. ASSUME NEW c \in Conn, NEW m \in toBackend[c], HandleResponse(c, m)
      PROVE  RequestInv'
  BY <1>16 DEF HandleResponse, TypeOK, ConnInv, RequestInv, Active
<1>17. ASSUME NEW r \in Request, NEW n \in Node, Request_(r, n)
      PROVE  RequestInv'
  BY <1>17 DEF Request_, TypeOK, ConnInv, RequestInv, Active
<1>18. ASSUME NEW r \in Request, NEW n \in Node, NEW why \in {"offline", "disabled"}, Refuse(r, n, why)
      PROVE  RequestInv'
  BY <1>18 DEF Refuse, TypeOK, ConnInv, RequestInv, Active
<1>19. ASSUME NEW r \in Request, Transmit(r)
      PROVE  RequestInv'
  BY <1>19 DEF Transmit, SendLocked, TypeOK, ConnInv, RequestInv, Active
<1>20. ASSUME NEW r \in Request, SendReturns(r)
      PROVE  RequestInv'
  BY <1>20 DEF SendReturns, TypeOK, ConnInv, RequestInv, Active
<1>21. ASSUME NEW r \in Request, SendFails(r)
      PROVE  RequestInv'
  BY <1>21 DEF SendFails, Finish, MarkOnline, TypeOK, ConnInv, RequestInv, Active
<1>22. ASSUME NEW r \in Request, TimerFires(r)
      PROVE  RequestInv'
  BY <1>22 DEF TimerFires, TypeOK, ConnInv, RequestInv, Active
<1>23. ASSUME NEW r \in Request, Resume(r)
      PROVE  RequestInv'
  BY <1>23 DEF Resume, Finish, MarkOnline, OutcomeOf, TypeOK, ConnInv, RequestInv, Active
<1>24. ASSUME NEW c \in Conn, NEW r \in Request, StartCommand(c, r)
      PROVE  RequestInv'
  BY <1>24 DEF StartCommand, TypeOK, ConnInv, RequestInv, Active
<1>25. ASSUME NEW c \in Conn, NEW r \in Request, NEW v \in Verdicts, Answer(c, r, v)
      PROVE  RequestInv'
  BY <1>25 DEF Answer, TypeOK, ConnInv, RequestInv, Active
<1>26. CASE UNCHANGED vars
  BY <1>26 DEF vars, TypeOK, ConnInv, RequestInv, Active
<1> QED
  BY <1>1, <1>2, <1>3, <1>4, <1>5, <1>6, <1>7, <1>8, <1>9, <1>10, <1>11, <1>12, <1>13,
     <1>14, <1>15, <1>16, <1>17, <1>18, <1>19, <1>20, <1>21, <1>22, <1>23, <1>24, <1>25, <1>26
     DEF Next, LinkNext, HandlerNext, RequestNext, NodeNext

(* The end of a handler touches no frame, and resolves futures with no verdict. *)
LEMMA UnregisterWire ==
  ASSUME TypeOK, WireInv, NEW c \in Conn, Unregister(c)
  PROVE  WireInv'
<1>1. UNCHANGED <<toNode, toBackend, running, runs, served, rpc, via>>
  BY DEF Unregister
<1>2. \A r \in Request : future'[r] \in {future[r], "failed"}
  BY DEF Unregister, FailPending, TypeOK
<1> QED
  BY <1>1, <1>2 DEF WireInv

(* A request's frame is in one place, and its answer is that of its run. *)
LEMMA WireStep == TypeOK /\ ConnInv /\ RequestInv /\ WireInv /\ [Next]_vars => WireInv'
<1> SUFFICES ASSUME TypeOK, ConnInv, RequestInv, WireInv, [Next]_vars PROVE WireInv'
  OBVIOUS
<1>1. ASSUME NEW n \in Node, NodeStops(n)
      PROVE  WireInv'
  BY <1>1 DEF NodeStops, Fault, TypeOK, RequestInv, WireInv, Active
<1>2. ASSUME NEW n \in Node, NEW c \in Conn, Dial(n, c)
      PROVE  WireInv'
  BY <1>2 DEF Dial, TypeOK, RequestInv, WireInv, Active
<1>3. ASSUME NEW c \in Conn, Heartbeat(c)
      PROVE  WireInv'
  BY <1>3 DEF Heartbeat, TypeOK, RequestInv, WireInv, Active
<1>4. ASSUME NEW c \in Conn, ClientNotices(c)
      PROVE  WireInv'
  BY <1>4 DEF ClientNotices, CloseClient, TypeOK, RequestInv, WireInv, Active
<1>5. ASSUME NEW c \in Conn, ClientDrops(c)
      PROVE  WireInv'
  BY <1>5 DEF ClientDrops, CloseClient, Fault, TypeOK, RequestInv, WireInv, Active
<1>6. ASSUME NEW c \in Conn, ServerNotices(c)
      PROVE  WireInv'
  BY <1>6 DEF ServerNotices, CloseServer, TypeOK, RequestInv, WireInv, Active
<1>7. ASSUME NEW c \in Conn, ServerDrops(c)
      PROVE  WireInv'
  BY <1>7 DEF ServerDrops, CloseServer, Fault, TypeOK, RequestInv, WireInv, Active
<1>8. ASSUME NEW c \in Conn, Register(c)
      PROVE  WireInv'
  BY <1>8 DEF Register, FailPending, TypeOK, RequestInv, WireInv, Active
<1>9. ASSUME NEW c \in Conn, ClosePrevious(c)
      PROVE  WireInv'
  BY <1>9 DEF ClosePrevious, TypeOK, RequestInv, WireInv, Active
<1>10. ASSUME NEW c \in Conn, Stored(c)
      PROVE  WireInv'
  BY <1>10 DEF Stored, TypeOK, RequestInv, WireInv, Active
<1>11. ASSUME NEW c \in Conn, RegisterFails(c)
      PROVE  WireInv'
  BY <1>11 DEF RegisterFails, Fault, TypeOK, RequestInv, WireInv, Active
<1>12. ASSUME NEW c \in Conn, ReadFails(c)
      PROVE  WireInv'
  BY <1>12, UnregisterWire DEF ReadFails
<1>13. ASSUME NEW c \in Conn, PersistFails(c)
      PROVE  WireInv'
  BY <1>13, UnregisterWire DEF PersistFails
<1>14. ASSUME NEW c \in Conn, HandleHeartbeat(c)
      PROVE  WireInv'
  BY <1>14 DEF HandleHeartbeat, MarkOnline, TypeOK, RequestInv, WireInv, Active
<1>15. ASSUME NEW c \in Conn, Collect(c)
      PROVE  WireInv'
  BY <1>15 DEF Collect, TypeOK, RequestInv, WireInv, Active
<1>16. ASSUME NEW c \in Conn, NEW m \in toBackend[c], HandleResponse(c, m)
      PROVE  WireInv'
  BY <1>16 DEF HandleResponse, TypeOK, RequestInv, WireInv, Active
<1>17. ASSUME NEW r \in Request, NEW n \in Node, Request_(r, n)
      PROVE  WireInv'
  BY <1>17 DEF Request_, TypeOK, RequestInv, WireInv, Active
<1>18. ASSUME NEW r \in Request, NEW n \in Node, NEW why \in {"offline", "disabled"}, Refuse(r, n, why)
      PROVE  WireInv'
  BY <1>18 DEF Refuse, TypeOK, RequestInv, WireInv, Active
<1>19. ASSUME NEW r \in Request, Transmit(r)
      PROVE  WireInv'
  BY <1>19 DEF Transmit, SendLocked, TypeOK, RequestInv, WireInv, Active
<1>20. ASSUME NEW r \in Request, SendReturns(r)
      PROVE  WireInv'
  BY <1>20 DEF SendReturns, TypeOK, RequestInv, WireInv, Active
<1>21. ASSUME NEW r \in Request, SendFails(r)
      PROVE  WireInv'
  BY <1>21 DEF SendFails, Finish, MarkOnline, TypeOK, RequestInv, WireInv, Active
<1>22. ASSUME NEW r \in Request, TimerFires(r)
      PROVE  WireInv'
  BY <1>22 DEF TimerFires, TypeOK, RequestInv, WireInv, Active
<1>23. ASSUME NEW r \in Request, Resume(r)
      PROVE  WireInv'
  BY <1>23 DEF Resume, Finish, MarkOnline, OutcomeOf, TypeOK, RequestInv, WireInv, Active
<1>24. ASSUME NEW c \in Conn, NEW r \in Request, StartCommand(c, r)
      PROVE  WireInv'
  <2>1. /\ r \in toNode[c] /\ toNode' = [toNode EXCEPT ![c] = @ \ {r}]
        /\ running' = [running EXCEPT ![c] = @ \union {r}] /\ runs' = [runs EXCEPT ![r] = @ + 1]
        /\ UNCHANGED <<via, rpc, future, toBackend, served>>
    BY <1>24 DEF StartCommand
  <2>2. via[r] = c /\ runs[r] = 0 /\ rpc[r] \in {"flushing", "waiting", "done"} /\ served[r] = "none"
    BY <2>1 DEF WireInv, TypeOK
  <2>3. \A d \in Conn : \A q \in toNode'[d] : q # r /\ q \in toNode[d]
    BY <2>1, <2>2 DEF WireInv, TypeOK
  <2>4. runs'[r] = 1 /\ \A q \in Request \ {r} : runs'[q] = runs[q]
    BY <2>1, <2>2 DEF TypeOK
  <2>5. \A d \in Conn : \A q \in running'[d] : q \in running[d] \/ (q = r /\ d = c)
    BY <2>1 DEF TypeOK
  <2> QED
    BY <2>1, <2>2, <2>3, <2>4, <2>5 DEF TypeOK, WireInv
<1>25. ASSUME NEW c \in Conn, NEW r \in Request, NEW v \in Verdicts, Answer(c, r, v)
      PROVE  WireInv'
  BY <1>25 DEF Answer, TypeOK, RequestInv, WireInv, Active
<1>26. CASE UNCHANGED vars
  BY <1>26 DEF vars, TypeOK, RequestInv, WireInv, Active
<1> QED
  BY <1>1, <1>2, <1>3, <1>4, <1>5, <1>6, <1>7, <1>8, <1>9, <1>10, <1>11, <1>12, <1>13,
     <1>14, <1>15, <1>16, <1>17, <1>18, <1>19, <1>20, <1>21, <1>22, <1>23, <1>24, <1>25, <1>26
     DEF Next, LinkNext, HandlerNext, RequestNext, NodeNext

(* Online state follows the registered connection. *)
LEMMA OnlineStep == TypeOK /\ ConnInv /\ RequestInv /\ OnlineIffRegistered /\ [Next]_vars => OnlineIffRegistered'
<1> SUFFICES ASSUME TypeOK, ConnInv, RequestInv, OnlineIffRegistered, [Next]_vars PROVE OnlineIffRegistered'
  OBVIOUS
<1>1. ASSUME NEW n \in Node, NodeStops(n)
      PROVE  OnlineIffRegistered'
  BY <1>1 DEF NodeStops, Fault, TypeOK, ConnInv, OnlineIffRegistered
<1>2. ASSUME NEW n \in Node, NEW c \in Conn, Dial(n, c)
      PROVE  OnlineIffRegistered'
  BY <1>2 DEF Dial, TypeOK, ConnInv, OnlineIffRegistered
<1>3. ASSUME NEW c \in Conn, Heartbeat(c)
      PROVE  OnlineIffRegistered'
  BY <1>3 DEF Heartbeat, TypeOK, ConnInv, OnlineIffRegistered
<1>4. ASSUME NEW c \in Conn, ClientNotices(c)
      PROVE  OnlineIffRegistered'
  BY <1>4 DEF ClientNotices, CloseClient, TypeOK, ConnInv, OnlineIffRegistered
<1>5. ASSUME NEW c \in Conn, ClientDrops(c)
      PROVE  OnlineIffRegistered'
  BY <1>5 DEF ClientDrops, CloseClient, Fault, TypeOK, ConnInv, OnlineIffRegistered
<1>6. ASSUME NEW c \in Conn, ServerNotices(c)
      PROVE  OnlineIffRegistered'
  BY <1>6 DEF ServerNotices, CloseServer, TypeOK, ConnInv, OnlineIffRegistered
<1>7. ASSUME NEW c \in Conn, ServerDrops(c)
      PROVE  OnlineIffRegistered'
  BY <1>7 DEF ServerDrops, CloseServer, Fault, TypeOK, ConnInv, OnlineIffRegistered
<1>8. ASSUME NEW c \in Conn, Register(c)
      PROVE  OnlineIffRegistered'
  BY <1>8 DEF Register, FailPending, TypeOK, ConnInv, OnlineIffRegistered
<1>9. ASSUME NEW c \in Conn, ClosePrevious(c)
      PROVE  OnlineIffRegistered'
  BY <1>9 DEF ClosePrevious, TypeOK, ConnInv, OnlineIffRegistered
<1>10. ASSUME NEW c \in Conn, Stored(c)
      PROVE  OnlineIffRegistered'
  BY <1>10 DEF Stored, TypeOK, ConnInv, OnlineIffRegistered
<1>11. ASSUME NEW c \in Conn, RegisterFails(c)
      PROVE  OnlineIffRegistered'
  BY <1>11 DEF RegisterFails, Fault, TypeOK, ConnInv, OnlineIffRegistered
<1>12. ASSUME NEW c \in Conn, ReadFails(c)
      PROVE  OnlineIffRegistered'
  BY <1>12 DEF ReadFails, Unregister, FailPending, TypeOK, ConnInv, OnlineIffRegistered
<1>13. ASSUME NEW c \in Conn, PersistFails(c)
      PROVE  OnlineIffRegistered'
  BY <1>13 DEF PersistFails, Unregister, FailPending, Fault, TypeOK, ConnInv,
         OnlineIffRegistered
<1>14. ASSUME NEW c \in Conn, HandleHeartbeat(c)
      PROVE  OnlineIffRegistered'
  BY <1>14 DEF HandleHeartbeat, MarkOnline, TypeOK, ConnInv, OnlineIffRegistered
<1>15. ASSUME NEW c \in Conn, Collect(c)
      PROVE  OnlineIffRegistered'
  BY <1>15 DEF Collect, TypeOK, ConnInv, OnlineIffRegistered
<1>16. ASSUME NEW c \in Conn, NEW m \in toBackend[c], HandleResponse(c, m)
      PROVE  OnlineIffRegistered'
  BY <1>16 DEF HandleResponse, TypeOK, ConnInv, OnlineIffRegistered
<1>17. ASSUME NEW r \in Request, NEW n \in Node, Request_(r, n)
      PROVE  OnlineIffRegistered'
  BY <1>17 DEF Request_, TypeOK, ConnInv, OnlineIffRegistered
<1>18. ASSUME NEW r \in Request, NEW n \in Node, NEW why \in {"offline", "disabled"}, Refuse(r, n, why)
      PROVE  OnlineIffRegistered'
  BY <1>18 DEF Refuse, TypeOK, ConnInv, OnlineIffRegistered
<1>19. ASSUME NEW r \in Request, Transmit(r)
      PROVE  OnlineIffRegistered'
  BY <1>19 DEF Transmit, SendLocked, TypeOK, ConnInv, OnlineIffRegistered
<1>20. ASSUME NEW r \in Request, SendReturns(r)
      PROVE  OnlineIffRegistered'
  BY <1>20 DEF SendReturns, TypeOK, ConnInv, OnlineIffRegistered
<1>21. ASSUME NEW r \in Request, SendFails(r)
      PROVE  OnlineIffRegistered'
  BY <1>21 DEF SendFails, Finish, MarkOnline, TypeOK, ConnInv, OnlineIffRegistered
<1>22. ASSUME NEW r \in Request, TimerFires(r)
      PROVE  OnlineIffRegistered'
  BY <1>22 DEF TimerFires, TypeOK, ConnInv, OnlineIffRegistered
<1>23. ASSUME NEW r \in Request, Resume(r)
      PROVE  OnlineIffRegistered'
  <2>1. linkNode[via[r]] \in Node /\ current' = current
    BY <1>23 DEF Resume, Finish, ConnInv, RequestInv, Active
  <2>2. online' = online \/ (current[linkNode[via[r]]] = via[r]
                            /\ online' = online \union {linkNode[via[r]]})
    BY <1>23 DEF Resume, Finish, MarkOnline
  <2>3. via[r] # None
    BY <1>23 DEF Resume, RequestInv, Active
  <2> QED
    BY <2>1, <2>2, <2>3 DEF OnlineIffRegistered
<1>24. ASSUME NEW c \in Conn, NEW r \in Request, StartCommand(c, r)
      PROVE  OnlineIffRegistered'
  BY <1>24 DEF StartCommand, TypeOK, ConnInv, OnlineIffRegistered
<1>25. ASSUME NEW c \in Conn, NEW r \in Request, NEW v \in Verdicts, Answer(c, r, v)
      PROVE  OnlineIffRegistered'
  BY <1>25 DEF Answer, TypeOK, ConnInv, OnlineIffRegistered
<1>26. CASE UNCHANGED vars
  BY <1>26 DEF vars, TypeOK, ConnInv, OnlineIffRegistered
<1> QED
  BY <1>1, <1>2, <1>3, <1>4, <1>5, <1>6, <1>7, <1>8, <1>9, <1>10, <1>11, <1>12, <1>13,
     <1>14, <1>15, <1>16, <1>17, <1>18, <1>19, <1>20, <1>21, <1>22, <1>23, <1>24, <1>25, <1>26
     DEF Next, LinkNext, HandlerNext, RequestNext, NodeNext

-----------------------------------------------------------------------------
(* The inductive invariant holds of every reachable state. *)
THEOREM Invariance == SafeSpec => []IInv
<1>1. Init => IInv
  BY DEF Init, IInv, TypeOK, ConnInv, RequestInv, WireInv, OnlineIffRegistered, Active
<1>2. IInv /\ [Next]_vars => IInv'
  BY TypeStep, ConnStep, RequestStep, WireStep, OnlineStep DEF IInv
<1> QED
  BY <1>1, <1>2, PTL DEF SafeSpec

\* Every variable keeps its type.
THEOREM TypeCorrect == SafeSpec => []TypeOK
<1>1. IInv => TypeOK
  BY DEF IInv
<1> QED
  BY <1>1, Invariance, PTL

\* Requests wait only on a connection its node is registered with (register and
\* unregister of app/node_ws.py leave no listed request behind).
THEOREM PendingIsCurrent == SafeSpec => []PendingOnlyOnCurrent
<1>1. IInv => PendingOnlyOnCurrent
  BY DEF IInv, RequestInv, PendingOnlyOnCurrent
<1> QED
  BY <1>1, Invariance, PTL

\* No request() waits on a future that no handler can resolve or fail any more.
THEOREM NoneStranded == SafeSpec => []NoStrandedRequest
<1>1. IInv => NoStrandedRequest
  <2> SUFFICES ASSUME IInv, NEW r \in Request, rpc[r] # "done", future[r] = "pending"
               PROVE  /\ via[r] # None
                      /\ r \in pending[via[r]]
                      /\ current[linkNode[via[r]]] = via[r]
    BY DEF NoStrandedRequest
  <2>1. rpc[r] \in Active
    BY DEF IInv, TypeOK, RequestInv, Active
  <2>2. via[r] \in Conn /\ r \in pending[via[r]]
    BY <2>1 DEF IInv, RequestInv
  <2> QED
    BY <2>2 DEF IInv, RequestInv
<1> QED
  BY <1>1, Invariance, PTL

\* Online state is that of the hub's table, through every late step of old connections.
THEOREM OnlineIsRegistered == SafeSpec => []OnlineIffRegistered
<1>1. IInv => OnlineIffRegistered
  BY DEF IInv
<1> QED
  BY <1>1, Invariance, PTL

\* A node goes offline only by the exit of its registered connection's own handler.
THEOREM OfflineIsOwn == SafeSpec => OnlyOwnHandlerTakesOffline
<1>1. IInv /\ [Next]_vars => [\A n \in Node : current[n] # None /\ current'[n] = None
                               => handler'[current[n]] = "done"]_vars
  <2> SUFFICES ASSUME IInv, Next, NEW n \in Node, current[n] # None, current'[n] = None
               PROVE  handler'[current[n]] = "done"
    OBVIOUS
  <2>1. \A c \in Conn : Register(c) => current'[n] # None
    BY DEF Register, IInv, TypeOK
  <2>2. ASSUME NEW c \in Conn, Unregister(c)
        PROVE  c = current[n] /\ handler'[c] = "done"
    BY <2>2 DEF Unregister, IInv, TypeOK, ConnInv
  <2>3. \E c \in Conn : Register(c) \/ Unregister(c)
    <3>1. current' # current
      OBVIOUS
    <3>2. CASE LinkNext
      BY <3>1, <3>2 DEF LinkNext, NodeStops, Dial, Heartbeat, ClientNotices, ClientDrops,
           CloseClient, ServerNotices, ServerDrops, CloseServer
    <3>3. CASE HandlerNext
      BY <3>1, <3>3 DEF HandlerNext, ClosePrevious, Stored, RegisterFails, ReadFails,
           PersistFails, HandleHeartbeat, Collect, HandleResponse
    <3>4. CASE RequestNext
      BY <3>1, <3>4 DEF RequestNext, Request_, Refuse, Transmit, SendReturns, SendFails,
           TimerFires, Resume, Finish
    <3>5. CASE NodeNext
      BY <3>1, <3>5 DEF NodeNext, StartCommand, Answer
    <3> QED
      BY <3>2, <3>3, <3>4, <3>5 DEF Next
  <2> QED
    BY <2>1, <2>2, <2>3
<1> QED
  BY <1>1, Invariance, PTL DEF SafeSpec, OnlyOwnHandlerTakesOffline

-----------------------------------------------------------------------------
(* A connection that was replaced is closed by the register call that replaced it. *)

Registered == {"swapped", "storing", "reading", "persisting"}

Superseded(c) == handler[c] \in Registered /\ c \in serverOpen /\ current[linkNode[c]] # c

\* From register's swap on, even while the connection's own register call goes on.
ClosingInv == \A c \in Conn : Superseded(c) => \E d \in Conn : handler[d] = "swapped" /\ replaced[d] = c

\* The steps that know nothing of registrations; a socket may close.
LEMMA ClosingQuiet ==
  ASSUME ClosingInv, UNCHANGED <<handler, replaced, current, linkNode>>, serverOpen' \subseteq serverOpen
  PROVE  ClosingInv'
BY DEF ClosingInv, Superseded

\* Steps of c's handler that replace nobody: whom it was about to close is closed.
LEMMA ClosingHandler ==
  ASSUME IInv, ClosingInv, NEW c \in Conn, UNCHANGED <<replaced, linkNode>>,
         \A d \in Conn \ {c} : handler'[d] = handler[d],
         handler'[c] \in Registered => handler[c] \in Registered,
         serverOpen' \subseteq serverOpen,
         handler[c] = "swapped" => handler'[c] = "swapped" \/ replaced[c] \notin serverOpen',
         \/ current' = current
         \/ /\ c \notin serverOpen' /\ current[linkNode[c]] = c
            /\ current' = [current EXCEPT ![linkNode[c]] = None]
  PROVE  ClosingInv'
<1> SUFFICES ASSUME NEW x \in Conn, Superseded(x)'
             PROVE  \E d \in Conn : handler'[d] = "swapped" /\ replaced[d] = x
  BY DEF ClosingInv
<1>1. handler[x] \in Registered /\ x \in serverOpen /\ x \in serverOpen'
  BY DEF Superseded
<1>2. linkNode[x] \in Node
  BY <1>1 DEF IInv, ConnInv, Registered
<1>3. current[linkNode[x]] # x
  BY <1>2 DEF Superseded, IInv, TypeOK
<1>4. PICK d \in Conn : handler[d] = "swapped" /\ replaced[d] = x
  BY <1>1, <1>3 DEF ClosingInv, Superseded
<1> QED
  BY <1>1, <1>4

LEMMA ClosingStep == IInv /\ ClosingInv /\ [Next]_vars => ClosingInv'
<1> SUFFICES ASSUME IInv, ClosingInv, [Next]_vars PROVE ClosingInv'
  OBVIOUS
<1>1. ASSUME NEW n \in Node, NEW c \in Conn, Dial(n, c)
      PROVE  ClosingInv'
  <2> SUFFICES ASSUME NEW x \in Conn, Superseded(x)'
               PROVE  \E d \in Conn : handler'[d] = "swapped" /\ replaced'[d] = x
    BY DEF ClosingInv
  <2>1. /\ handler[c] = "free" /\ handler'[c] = "accepted" /\ UNCHANGED <<replaced, current>>
        /\ \A d \in Conn \ {c} : handler'[d] = handler[d] /\ linkNode'[d] = linkNode[d]
        /\ serverOpen' = serverOpen \union {c}
    BY <1>1 DEF Dial, IInv, TypeOK
  <2>2. x # c
    BY <2>1 DEF Superseded, Registered
  <2>3. Superseded(x)
    BY <2>1, <2>2 DEF Superseded
  <2>4. PICK d \in Conn : handler[d] = "swapped" /\ replaced[d] = x
    BY <2>3 DEF ClosingInv
  <2> QED
    BY <2>1, <2>4
<1>2. ASSUME NEW c \in Conn, Register(c)
      PROVE  ClosingInv'
  <2> SUFFICES ASSUME NEW x \in Conn, Superseded(x)'
               PROVE  \E d \in Conn : handler'[d] = "swapped" /\ replaced'[d] = x
    BY DEF ClosingInv
  <2> DEFINE n == linkNode[c]
  <2>1. /\ handler[c] = "accepted" /\ n \in Node /\ current' = [current EXCEPT ![n] = c]
        /\ UNCHANGED <<linkNode, serverOpen>>
    BY <1>2 DEF Register, IInv, ConnInv
  <2>2. \A d \in Conn \ {c} : handler'[d] = handler[d] /\ replaced'[d] = replaced[d]
    BY <1>2 DEF Register, IInv, TypeOK
  <2>3. x # c
    BY <2>1 DEF Superseded, IInv, TypeOK
  <2>4. handler[x] \in Registered /\ x \in serverOpen
    BY <2>1, <2>2, <2>3 DEF Superseded
  <2>5. CASE current[linkNode[x]] = x
    <3>1. linkNode[x] \in Node
      BY <2>4 DEF IInv, ConnInv, Registered
    <3>2. linkNode[x] = n
      BY <2>1, <2>5, <3>1 DEF Superseded, IInv, TypeOK
    <3>3. handler'[c] = "swapped" /\ replaced'[c] = x
      BY <1>2, <2>5, <3>2 DEF Register, IInv, TypeOK
    <3> QED
      BY <3>3
  <2>6. CASE current[linkNode[x]] # x
    <3>1. PICK d \in Conn : handler[d] = "swapped" /\ replaced[d] = x
      BY <2>4, <2>6 DEF ClosingInv, Superseded
    <3> QED
      BY <2>1, <2>2, <3>1
  <2> QED
    BY <2>5, <2>6
<1>3. ASSUME NEW c \in Conn,
             \/ ClosePrevious(c) \/ Stored(c) \/ RegisterFails(c) \/ HandleHeartbeat(c)
             \/ ReadFails(c) \/ PersistFails(c)
      PROVE  ClosingInv'
  <2>1. /\ UNCHANGED <<replaced, linkNode>> /\ serverOpen' \subseteq serverOpen
        /\ \A d \in Conn \ {c} : handler'[d] = handler[d]
        /\ handler'[c] \in Registered => handler[c] \in Registered
        /\ handler[c] = "swapped" => replaced[c] \notin serverOpen'
    BY <1>3 DEF ClosePrevious, Stored, RegisterFails, HandleHeartbeat, ReadFails, PersistFails,
                Unregister, IInv, TypeOK, Registered
  <2>2. \/ current' = current
        \/ /\ c \notin serverOpen' /\ current[linkNode[c]] = c
           /\ current' = [current EXCEPT ![linkNode[c]] = None]
    BY <1>3 DEF ClosePrevious, Stored, RegisterFails, HandleHeartbeat, ReadFails, PersistFails,
                Unregister
  <2> QED
    BY <2>1, <2>2, ClosingHandler
<1>4. ASSUME NEW c \in Conn, Collect(c)
      PROVE  ClosingInv'
  <2> SUFFICES ASSUME NEW x \in Conn, Superseded(x)'
               PROVE  \E d \in Conn : handler'[d] = "swapped" /\ replaced'[d] = x
    BY DEF ClosingInv
  <2>1. /\ handler[c] \in {"done", "leaked"} /\ handler'[c] = "free"
        /\ \A d \in Conn \ {c} : /\ handler'[d] = handler[d] /\ linkNode'[d] = linkNode[d]
                                 /\ replaced'[d] = replaced[d]
        /\ UNCHANGED <<current, serverOpen>>
    BY <1>4 DEF Collect, IInv, TypeOK
  <2>2. x # c
    BY <2>1 DEF Superseded, Registered
  <2>3. Superseded(x)
    BY <2>1, <2>2 DEF Superseded
  <2>4. PICK d \in Conn : handler[d] = "swapped" /\ replaced[d] = x
    BY <2>3 DEF ClosingInv
  <2> QED
    BY <2>1, <2>4
<1>5. CASE \/ \E n \in Node : NodeStops(n)
           \/ \E c \in Conn : Heartbeat(c) \/ ClientNotices(c) \/ ClientDrops(c)
                              \/ ServerNotices(c) \/ ServerDrops(c)
  BY <1>5, ClosingQuiet DEF NodeStops, Heartbeat, ClientNotices, ClientDrops, CloseClient,
     ServerNotices, ServerDrops, CloseServer
<1>6. CASE \/ RequestNext \/ NodeNext
           \/ \E c \in Conn : \E m \in toBackend[c] : HandleResponse(c, m)
  BY <1>6, ClosingQuiet DEF RequestNext, Request_, Refuse, Transmit, SendReturns, SendFails,
     TimerFires, Resume, Finish, NodeNext, StartCommand, Answer, HandleResponse
<1>7. CASE UNCHANGED vars
  BY <1>7, ClosingQuiet DEF vars
<1> QED
  BY <1>1, <1>2, <1>3, <1>4, <1>5, <1>6, <1>7 DEF Next, LinkNext, HandlerNext

\* The backend reads from at most one open connection of a node once register has closed the
\* one it replaced, however the handlers of both go on.
THEOREM SupersededAreClosed == SafeSpec => []SupersededIsClosed
<1>1. Init => ClosingInv
  BY DEF Init, ClosingInv, Superseded, Registered
<1>2. ClosingInv => SupersededIsClosed
  BY DEF ClosingInv, Superseded, Registered, SupersededIsClosed
<1> QED
  BY <1>1, <1>2, ClosingStep, Invariance, PTL DEF SafeSpec

-----------------------------------------------------------------------------
(* The hub implements NodeRPC. *)

rpcState == <<rpc, via, outcome, runs, served>>

\* A step that leaves the requests' state alone is a stuttering step of NodeRPC.
LEMMA RPCStutter == UNCHANGED rpcState => UNCHANGED RPC!vars
  BY DEF rpcState, RPC!vars, Phase

\* The link's and the handlers' steps do not touch it.
LEMMA QuietSteps == LinkNext \/ HandlerNext => UNCHANGED rpcState
<1>1. LinkNext => UNCHANGED rpcState
  BY DEF LinkNext, NodeStops, Dial, Heartbeat, ClientNotices, ClientDrops, CloseClient,
         ServerNotices, ServerDrops, CloseServer, rpcState
<1>2. HandlerNext => UNCHANGED rpcState
  BY DEF HandlerNext, Register, FailPending, ClosePrevious, Stored, RegisterFails, ReadFails,
         PersistFails, Unregister, HandleHeartbeat, Collect, HandleResponse, rpcState
<1> QED
  BY <1>1, <1>2

\* The finally clause of request closes it.
LEMMA FinishCloses ==
  ASSUME TypeOK, RequestInv, NEW r \in Request, NEW o, rpc[r] \in Active, Finish(r, o)
  PROVE  /\ Phase(r) = "open"
         /\ [x \in Request |-> Phase(x)]' = [[x \in Request |-> Phase(x)] EXCEPT ![r] = "closed"]
         /\ outcome' = [outcome EXCEPT ![r] = o]
         /\ UNCHANGED <<future, runs, served>>
<1>1. rpc' = [rpc EXCEPT ![r] = "done"] /\ via' = via /\ UNCHANGED <<future, runs, served>>
      /\ outcome' = [outcome EXCEPT ![r] = o]
  BY DEF Finish
<1>2. via[r] # None
  BY DEF RequestInv
<1>3. \A x \in Request : Phase(x)' = IF x = r THEN "closed" ELSE Phase(x)
  BY <1>1, <1>2 DEF Phase, TypeOK
<1>4. Phase(r) = "open"
  BY DEF Phase, Active
<1> QED
  BY <1>1, <1>3, <1>4

LEMMA RequestSteps == IInv /\ RequestNext => RPC!Next \/ UNCHANGED RPC!vars
<1> SUFFICES ASSUME IInv, RequestNext
             PROVE  RPC!Next \/ UNCHANGED RPC!vars
  OBVIOUS
<1> PICK r \in Request :
      \/ \E n \in Node : Request_(r, n) \/ \E why \in {"offline", "disabled"} : Refuse(r, n, why)
      \/ Transmit(r) \/ SendReturns(r) \/ SendFails(r) \/ TimerFires(r) \/ Resume(r)
  BY DEF RequestNext
<1>1. ASSUME NEW n \in Node, Request_(r, n)
      PROVE  RPC!Open(r)
  BY <1>1 DEF Request_, RPC!Open, Phase, IInv, TypeOK
<1>2. ASSUME NEW n \in Node, NEW why \in {"offline", "disabled"}, Refuse(r, n, why)
      PROVE  RPC!Refuse(r)
  <2>1. rpc[r] = "idle" /\ via[r] = None /\ rpc' = [rpc EXCEPT ![r] = "done"]
        /\ outcome' = [outcome EXCEPT ![r] = why] /\ UNCHANGED <<via, runs, served>>
    BY <1>2 DEF Refuse, IInv, RequestInv
  <2>2. \A x \in Request : Phase(x)' = IF x = r THEN "refused" ELSE Phase(x)
    BY <2>1 DEF Phase, IInv, TypeOK
  <2>3. Phase(r) = "idle"
    BY <2>1 DEF Phase
  <2> QED
    BY <2>1, <2>2, <2>3 DEF RPC!Refuse
<1>3. ASSUME Transmit(r) \/ SendReturns(r)
      PROVE  UNCHANGED RPC!vars
  BY <1>3 DEF Transmit, SendReturns, RPC!vars, Phase, IInv, TypeOK
<1>4. ASSUME SendFails(r)
      PROVE  RPC!GiveUp(r)
  <2>1. rpc[r] \in Active /\ Finish(r, "offline")
    BY <1>4 DEF SendFails, Active
  <2> QED
    BY <2>1, FinishCloses DEF RPC!GiveUp, IInv
<1>5. ASSUME TimerFires(r)
      PROVE  UNCHANGED RPC!vars
  BY <1>5, RPCStutter DEF TimerFires, rpcState
<1>6. ASSUME Resume(r)
      PROVE  RPC!Answer(r) \/ RPC!GiveUp(r)
  <2>1. rpc[r] \in Active /\ future[r] # "pending" /\ Finish(r, OutcomeOf(future[r]))
    BY <1>6 DEF Resume, Active
  <2>2. CASE future[r] \in Verdicts
    <3>1. OutcomeOf(future[r]) = served[r] /\ served[r] # "none"
      BY <2>2 DEF OutcomeOf, IInv, WireInv
    <3> QED
      BY <2>1, <3>1, FinishCloses DEF RPC!Answer, IInv
  <2>3. CASE future[r] \notin Verdicts
    <3>1. OutcomeOf(future[r]) \in {"timeout", "offline"}
      BY <2>3 DEF OutcomeOf
    <3> QED
      BY <2>1, <3>1, FinishCloses DEF RPC!GiveUp, IInv
  <2> QED
    BY <2>2, <2>3
<1> QED
  BY <1>1, <1>2, <1>3, <1>4, <1>5, <1>6 DEF RPC!Next

LEMMA NodeSteps == IInv /\ NodeNext => RPC!Next
<1> SUFFICES ASSUME IInv, NEW c \in Conn, NEW r \in Request,
                    StartCommand(c, r) \/ \E v \in Verdicts : Answer(c, r, v)
             PROVE  RPC!Next
  BY DEF NodeNext
<1>1. CASE StartCommand(c, r)
  <2>1. via[r] # None /\ runs[r] = 0 /\ rpc[r] \in {"flushing", "waiting", "done"}
    BY <1>1 DEF StartCommand, IInv, WireInv
  <2> QED
    BY <1>1, <2>1 DEF StartCommand, RPC!Next, RPC!Run, Phase, IInv, TypeOK
<1>2. ASSUME NEW v \in Verdicts, Answer(c, r, v)
      PROVE  RPC!Serve(r)
  <2>1. runs[r] = 1 /\ served[r] = "none" /\ served' = [served EXCEPT ![r] = v]
        /\ UNCHANGED <<rpc, via, outcome, runs>>
    BY <1>2 DEF Answer, IInv, TypeOK, WireInv
  <2>2. \A x \in Request : Phase(x)' = Phase(x)
    BY <2>1 DEF Phase
  <2>3. r \in {x \in Request : runs[x] > 0}
    BY <2>1
  <2>4. {x \in Request : runs[x] > 0}' = {x \in Request : runs[x] > 0}
        /\ [x \in Request |-> Phase(x)]' = [x \in Request |-> Phase(x)]
    BY <2>1, <2>2
  <2> QED
    BY <2>1, <2>3, <2>4 DEF RPC!Serve
<1> QED
  BY <1>1, <1>2 DEF RPC!Next

\* request() keeps its promise: every behaviour of the hub, the links and the nodes is
\* one of NodeRPC under the refinement mapping of NodeHub.
THEOREM Refinement == SafeSpec => ImplementsRPC
<1>1. Init => RPC!Init
  BY DEF Init, RPC!Init, Phase
<1>2. IInv /\ [Next]_vars => [RPC!Next]_(RPC!vars)
  <2>1. CASE UNCHANGED vars
    BY <2>1, RPCStutter DEF vars, rpcState
  <2>2. CASE IInv /\ Next
    BY <2>2, QuietSteps, RPCStutter, RequestSteps, NodeSteps DEF Next
  <2> QED
    BY <2>1, <2>2
<1> QED
  BY <1>1, <1>2, Invariance, PTL DEF SafeSpec, ImplementsRPC, RPC!SafeSpec
=============================================================================
