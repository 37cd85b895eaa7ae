--------------------------- MODULE PeerSystemProofs ---------------------------
(***************************************************************************)
(* Proofs about PeerSystem, for any workers, peers, nodes, configurations  *)
(* and requests: it does what PeerLifecycle describes, so that what is     *)
(* proved of PeerLifecycle holds of backend, channel and nodes together.   *)
(* The calls that PeerLifecycle calls late are those whose request nobody  *)
(* waits for and may still be run; a verdict is what a worker's request    *)
(* has come to.  IInv ties requests, jobs and callers to each other.       *)
(***************************************************************************)
EXTENDS PeerSystem, FiniteSetTheorems, TLAPS

P == INSTANCE PeerLifecycleProofs WITH
  MaxLate <- Cardinality(Request), late <- Late, verdict <- Verdicts

\* The channel carries what was asked, and a result when the command has ended.
ChannelInv == \A r \in Request :
  /\ asked[r] = None <=> phase[r] \in {"idle", "refused"}
  /\ r \in ran => asked[r] # None
  /\ served[r] # "none" => r \in ran
  /\ says[r] = "none" <=> served[r] = "none"

\* A node's job is the request it was started for, and has not ended.
GoalInv == \A n \in Node, r \in Request : goal[n][r] # None =>
  /\ asked[r] # None /\ asked[r].node = n /\ goal[n][r] = Wanted(asked[r])
  /\ r \in ran /\ served[r] = "none"

BusyInv == \A n \in Node : busy[n] # None => goal[n][busy[n]] # None

\* A worker waits for the request of its own call, and nobody else for that one.
WaitInv == \A w \in Worker : waits[w] # None =>
  /\ call[w] # None /\ asked[waits[w]] = call[w] /\ phase[waits[w]] = "open"
  /\ \A v \in Worker \ {w} : waits[v] # waits[w]

IInv == TypeOK /\ P!WorkInv /\ ChannelInv /\ GoalInv /\ BusyInv /\ WaitInv

USE DistinctAssumption, OperationsAssumption, RestartsAssumption, NoneIsNoRecord, RequestAssumption

(* There are no more late calls than requests. *)
LEMMA MaxLateType == Cardinality(Request) \in Nat
BY FS_CardinalityType

(* The steps of the backend are those of PeerLifecycle. *)
LEMMA SameSteps ==
  ASSUME NEW w \in Worker, NEW unused, NEW running, NEW how
  PROVE  /\ P!Begin(w, unused, running) <=> Begin(w, unused, running)
         /\ P!Continue(w) <=> Continue(w)
         /\ P!CallReturns(w, how) <=> CallReturns(w, how)
<1>1. P!Begin(w, unused, running) <=> Begin(w, unused, running)
  BY DEF P!Begin, Begin, P!Create, Create, P!Edit, Edit, P!Save, Save, P!Redeploy, Redeploy,
     P!Delete, Delete, P!Start, Start, P!Overlap, Overlap, P!Renewed, Renewed, P!Busy, Busy,
     P!PeerOnNode, PeerOnNode, P!Statuses, Statuses
<1>2. P!Continue(w) <=> Continue(w)
  BY DEF P!Continue, Continue, P!FlushFails, FlushFails, P!Flush, Flush, P!Reread, Reread,
     P!Write, Write, P!DeleteRow, DeleteRow, P!FlushRefused, FlushRefused, P!Flushed, Flushed,
     P!Merge, Merge, P!PeerOnNode, PeerOnNode, P!OrphanOrEnd, OrphanOrEnd, P!End, End, P!Verdict,
     Verdict, P!history, history
<1>3. P!CallReturns(w, how) <=> CallReturns(w, how)
  BY DEF P!CallReturns, CallReturns, P!CallEnds, CallEnds, P!End, End
<1> QED
  BY <1>1, <1>2, <1>3

LEMMA SameRestart == P!BackendRestarts <=> BackendRestarts
BY DEF P!BackendRestarts, BackendRestarts

(* So are their types. *)
LEMMA SameTypes ==
  /\ P!BackendTypeOK <=> BackendTypeOK
  /\ P!BackendTypeOK' <=> BackendTypeOK'
BY DEF P!BackendTypeOK, BackendTypeOK, P!Row, Row, P!Call, Call, P!Steps, Steps, P!Statuses, Statuses,
    P!Deployments, Deployments

(* What PeerLifecycle assumes of its constants. *)
LEMMA Constants == Cardinality(Request) \in Nat /\ None \notin P!Row \union P!Call
BY MaxLateType DEF P!Row, P!Call, Row, Call, P!Statuses, Statuses, P!Deployments, Deployments

-----------------------------------------------------------------------------
(* The types of the channel's ends, and of the nodes. *)
CallTypes ==
  /\ waits \in [Worker -> Request \union {None}]
  /\ asked \in [Request -> Call \union {None}]
  /\ says \in [Request -> {"none", "ok", "failed"}]
  /\ phase \in [Request -> {"idle", "open", "refused", "closed"}]
  /\ outcome \in [Request -> {"none", "ok", "error", "timeout", "offline", "disabled"}]
  /\ ran \subseteq Request
  /\ served \in [Request -> {"none", "ok", "error"}]

StoreTypes ==
  /\ busy \in [Node -> Request \union {None}]
  /\ goal \in [Node -> [Request -> Change \union {None}]]
  /\ installed \in [Node -> [Peer -> Content]]
  /\ unsure \in [Node -> SUBSET Peer]

LEMMA Types ==
  /\ TypeOK <=> BackendTypeOK /\ CallTypes /\ StoreTypes
  /\ TypeOK' <=> BackendTypeOK' /\ CallTypes' /\ StoreTypes'
BY DEF TypeOK, CallTypes, StoreTypes, RPC!TypeOK, RPC!Outcomes

LEMMA WantedType ==
  \A k \in Call : /\ Wanted(k) \in Change /\ Wanted(k) # None
                  /\ Wanted(k).name = k.peer /\ Wanted(k).config = k.goal
BY NoneIsNoChange DEF Wanted, Change, Call

(* The backend's state, and what depends on it alone, is left alone. *)
LEMMA BackendStays ==
  ASSUME BackendTypeOK, P!WorkInv, UNCHANGED backendVars
  PROVE  BackendTypeOK' /\ P!WorkInv'
<1>1. BackendTypeOK'
  BY DEF BackendTypeOK, backendVars, workerVars, history
<1>2. P!WorkInv'
  BY DEF P!WorkInv, backendVars, workerVars, history
<1> QED
  BY <1>1, <1>2

(* A worker between its calls waits for no request. *)
LEMMA BackendKeeps ==
  ASSUME IInv, NEW w \in Worker, Backend(w)
  PROVE  IInv'
<1>1. /\ Begin(w, Unused, Running) \/ Continue(w)
      /\ UNCHANGED <<waits, asked, says, phase, outcome, ran, served, busy, goal, installed, unsure>>
  BY DEF Backend, channelVars, storeVars
<1>2. P!BackendTypeOK /\ P!WorkInv /\ (P!Begin(w, Unused, Running) \/ P!Continue(w))
  BY <1>1, SameTypes, SameSteps, Types DEF IInv
<1>3. BackendTypeOK' /\ P!WorkInv'
  BY <1>2, P!BeginKeeps, P!ContinueKeeps, Constants, SameTypes
<1>4. call[w] = None /\ \A v \in Worker \ {w} : call'[v] = call[v]
  BY <1>2, P!CallsKept, Constants
<1>5. CallTypes' /\ StoreTypes' /\ ChannelInv' /\ GoalInv' /\ BusyInv'
  BY <1>1, Types DEF IInv, CallTypes, StoreTypes, ChannelInv, GoalInv, BusyInv, Wanted
<1>6. WaitInv'
  BY <1>1, <1>4 DEF IInv, WaitInv
<1> QED
  BY <1>3, <1>5, <1>6, Types DEF IInv

LEMMA SendKeeps ==
  ASSUME IInv, NEW w \in Worker, NEW r \in Request, Send(w, r)
  PROVE  IInv'
<1>1. /\ call[w] # None /\ waits[w] = None /\ phase[r] = "idle"
      /\ waits' = [waits EXCEPT ![w] = r] /\ asked' = [asked EXCEPT ![r] = call[w]]
      /\ phase' = [phase EXCEPT ![r] = "open"]
      /\ UNCHANGED <<says, outcome, ran, served, busy, goal, installed, unsure, call>>
      /\ UNCHANGED backendVars
  BY DEF Send, RPC!Open, storeVars, backendVars, workerVars
<1>2. CallTypes /\ StoreTypes /\ BackendTypeOK /\ call[w] \in Call /\ asked[r] = None
  BY <1>1, Types DEF IInv, ChannelInv, BackendTypeOK
<1>3. BackendTypeOK' /\ P!WorkInv'
  BY <1>1, <1>2, BackendStays DEF IInv
<1>4. CallTypes' /\ StoreTypes'
  BY <1>1, <1>2 DEF CallTypes, StoreTypes
<1>5. ChannelInv'
  BY <1>1, <1>2 DEF IInv, ChannelInv, CallTypes
<1>6. GoalInv' /\ BusyInv'
  <2>1. \A q \in Request \ {r} : asked'[q] = asked[q]
    BY <1>1, <1>2 DEF CallTypes
  <2>2. \A n \in Node : goal[n][r] = None
    BY <1>2 DEF IInv, GoalInv
  <2>3. GoalInv'
    BY <1>1, <2>1, <2>2 DEF IInv, GoalInv, Wanted
  <2>4. BusyInv'
    BY <1>1 DEF IInv, BusyInv
  <2> QED
    BY <2>3, <2>4
<1>7. WaitInv'
  BY <1>1, <1>2 DEF IInv, WaitInv, CallTypes
<1> QED
  BY <1>3, <1>4, <1>5, <1>6, <1>7, Types DEF IInv

(* A call ends with its request refused, answered or given up. *)
LEMMA CallerKeeps ==
  ASSUME IInv, NEW w \in Worker,
         Answered(w) \/ TimesOut(w) \/ \E r \in Request : Refused(w, r)
  PROVE  IInv'
<1>1. CallTypes /\ StoreTypes /\ BackendTypeOK
  BY Types DEF IInv
<1>2. PICK how \in {"ok", "failed"} : CallReturns(w, how)
  BY <1>1 DEF Answered, TimesOut, Refused, RPC!Answer, IInv, ChannelInv, CallTypes
<1>3. BackendTypeOK' /\ P!WorkInv' /\ call'[w] = None /\ \A v \in Worker \ {w} : call'[v] = call[v]
  BY <1>1, <1>2, SameTypes, SameSteps, P!CallKeeps, P!CallEnded, Constants DEF IInv
<1>4. PICK r \in Request :
        /\ \/ waits[w] = r /\ phase[r] = "open" /\ phase' = [phase EXCEPT ![r] = "closed"]
           \/ waits[w] = None /\ phase[r] = "idle" /\ phase' = [phase EXCEPT ![r] = "refused"]
        /\ waits' = [waits EXCEPT ![w] = None]
        /\ outcome' \in [Request -> {"none", "ok", "error", "timeout", "offline", "disabled"}]
        /\ UNCHANGED <<asked, says, ran, served, busy, goal, installed, unsure>>
  <2>1. ASSUME Answered(w) \/ TimesOut(w)
        PROVE  /\ waits[w] \in Request /\ phase[waits[w]] = "open"
               /\ phase' = [phase EXCEPT ![waits[w]] = "closed"]
               /\ waits' = [waits EXCEPT ![w] = None]
               /\ outcome' \in [Request -> {"none", "ok", "error", "timeout", "offline", "disabled"}]
               /\ UNCHANGED <<asked, says, ran, served, busy, goal, installed, unsure>>
    BY <1>1, <2>1 DEF Answered, TimesOut, RPC!Answer, RPC!GiveUp, CallTypes, storeVars
  <2>2. ASSUME NEW r \in Request, Refused(w, r)
        PROVE  /\ waits[w] = None /\ phase[r] = "idle" /\ phase' = [phase EXCEPT ![r] = "refused"]
               /\ waits' = [waits EXCEPT ![w] = None]
               /\ outcome' \in [Request -> {"none", "ok", "error", "timeout", "offline", "disabled"}]
               /\ UNCHANGED <<asked, says, ran, served, busy, goal, installed, unsure>>
    BY <1>1, <2>2 DEF Refused, RPC!Refuse, CallTypes, storeVars
  <2> QED
    BY <2>1, <2>2
<1>5. CallTypes' /\ StoreTypes'
  BY <1>1, <1>4 DEF CallTypes, StoreTypes
<1>6. ChannelInv'
  BY <1>1, <1>4 DEF IInv, ChannelInv, CallTypes
<1>7. GoalInv' /\ BusyInv'
  BY <1>4 DEF IInv, GoalInv, BusyInv, Wanted
<1>8. WaitInv'
  BY <1>1, <1>3, <1>4 DEF IInv, WaitInv, CallTypes
<1> QED
  BY <1>3, <1>5, <1>6, <1>7, <1>8, Types DEF IInv

LEMMA RestartKeeps ==
  ASSUME IInv, Restart
  PROVE  IInv'
<1>1. /\ BackendRestarts /\ waits' = [w \in Worker |-> None]
      /\ UNCHANGED <<asked, says, phase, outcome, ran, served, busy, goal, installed, unsure>>
  BY DEF Restart, channelVars, storeVars
<1>2. BackendTypeOK' /\ P!WorkInv'
  BY <1>1, SameTypes, SameRestart, P!RestartKeeps, Constants, Types DEF IInv
<1>3. CallTypes' /\ StoreTypes' /\ ChannelInv' /\ GoalInv' /\ BusyInv' /\ WaitInv'
  BY <1>1, Types DEF IInv, CallTypes, StoreTypes, ChannelInv, GoalInv, BusyInv, WaitInv, Wanted
<1> QED
  BY <1>2, <1>3, Types DEF IInv

-----------------------------------------------------------------------------
(* The nodes leave the backend, and who waits for what, alone. *)
LEMMA NodesLeaveBackend ==
  ASSUME IInv, UNCHANGED <<backendVars, waits, asked, phase, outcome>>
  PROVE  BackendTypeOK' /\ P!WorkInv' /\ WaitInv'
<1>1. BackendTypeOK' /\ P!WorkInv'
  BY BackendStays, Types DEF IInv
<1>2. WaitInv'
  BY DEF IInv, WaitInv, backendVars, workerVars
<1> QED
  BY <1>1, <1>2

LEMMA ReceiveKeeps ==
  ASSUME IInv, NEW n \in Node, NEW r \in Request, Receive(n, r)
  PROVE  IInv'
<1>1. /\ asked[r] # None /\ asked[r].node = n /\ r \notin ran /\ ran' = ran \union {r}
      /\ goal' = [goal EXCEPT ![n][r] = Wanted(asked[r])]
      /\ UNCHANGED <<backendVars, waits, asked, says, phase, outcome, served, busy, installed, unsure>>
  BY DEF Receive, RPC!Run
<1>2. CallTypes /\ StoreTypes /\ Wanted(asked[r]) \in Change
  BY <1>1, Types, WantedType DEF IInv, CallTypes
<1>3. CallTypes' /\ StoreTypes'
  BY <1>1, <1>2 DEF CallTypes, StoreTypes
<1>4. ChannelInv'
  BY <1>1 DEF IInv, ChannelInv
<1>5. GoalInv'
  BY <1>1, <1>2 DEF IInv, GoalInv, ChannelInv, StoreTypes, Wanted
<1>6. BusyInv'
  BY <1>1, <1>2, WantedType DEF IInv, BusyInv, CallTypes, StoreTypes
<1> QED
  BY <1>1, <1>3, <1>4, <1>5, <1>6, NodesLeaveBackend, Types DEF IInv

LEMMA LockKeeps ==
  ASSUME IInv, NEW n \in Node, NEW r \in Request, Lock(n, r)
  PROVE  IInv'
<1>1. /\ goal[n][r] # None /\ busy' = [busy EXCEPT ![n] = r]
      /\ UNCHANGED <<backendVars, waits, asked, says, phase, outcome, ran, served, goal,
                     installed, unsure>>
  BY DEF Lock, Store!Begin, channelVars
<1>2. CallTypes' /\ StoreTypes' /\ ChannelInv' /\ GoalInv' /\ BusyInv'
  BY <1>1, Types DEF IInv, CallTypes, StoreTypes, ChannelInv, GoalInv, BusyInv, Wanted
<1> QED
  BY <1>1, <1>2, NodesLeaveBackend, Types DEF IInv

LEMMA WorkKeeps ==
  ASSUME IInv, NEW n \in Node, NEW r \in Request, Work(n, r)
  PROVE  IInv'
<1>1. /\ busy[n] = r /\ unsure' = [unsure EXCEPT ![n] = @ \union {goal[n][r].name}]
      /\ \E content \in [Peer -> Content] : installed' = [installed EXCEPT ![n] = content]
      /\ UNCHANGED <<backendVars, waits, asked, says, phase, outcome, ran, served, busy, goal>>
  BY DEF Work, channelVars
<1>2. StoreTypes /\ goal[n][r] # None /\ goal[n][r] \in Change
  BY <1>1, Types DEF IInv, BusyInv, StoreTypes
<1>3. goal[n][r].name \in Peer
  BY <1>2 DEF Change
<1>4. StoreTypes'
  BY <1>1, <1>2, <1>3 DEF StoreTypes
<1>5. CallTypes' /\ ChannelInv' /\ GoalInv' /\ BusyInv'
  BY <1>1, Types DEF IInv, CallTypes, ChannelInv, GoalInv, BusyInv, Wanted
<1> QED
  BY <1>1, <1>4, <1>5, NodesLeaveBackend, Types DEF IInv

LEMMA ReturnsKeeps ==
  ASSUME IInv, NEW n \in Node, NEW r \in Request, Succeed(n, r) \/ Fail(n, r)
  PROVE  IInv'
<1>1. PICK answer \in {"ok", "failed"} : Returns(n, r, answer)
  BY DEF Succeed, Fail
<1>2. /\ busy[n] = r /\ busy' = [busy EXCEPT ![n] = None]
      /\ goal' = [goal EXCEPT ![n][r] = None]
      /\ \E content \in [Peer -> Content] : installed' = [installed EXCEPT ![n] = content]
      /\ says' = [says EXCEPT ![r] = answer]
      /\ r \in ran /\ \E v \in {"ok", "error"} : served' = [served EXCEPT ![r] = v]
      /\ UNCHANGED <<backendVars, waits, asked, phase, outcome, ran>>
  BY <1>1 DEF Returns, RPC!Serve
<1>3. CallTypes /\ StoreTypes
  BY Types DEF IInv
<1>4. unsure' \in [Node -> SUBSET Peer]
  BY <1>3 DEF Succeed, Fail, StoreTypes
<1>5. CallTypes' /\ StoreTypes'
  BY <1>2, <1>3, <1>4 DEF CallTypes, StoreTypes
<1>6. ChannelInv'
  BY <1>2, <1>3 DEF IInv, ChannelInv, CallTypes
<1>7. GoalInv'
  <2>1. goal[n][r] # None
    BY <1>2 DEF IInv, BusyInv
  <2>2. \A m \in Node : goal[m][r] # None => m = n
    BY <2>1 DEF IInv, GoalInv
  <2> QED
    BY <1>2, <1>3, <2>2 DEF IInv, GoalInv, CallTypes, StoreTypes, Wanted
<1>8. BusyInv'
  BY <1>2, <1>3 DEF IInv, BusyInv, StoreTypes
<1> QED
  BY <1>2, <1>5, <1>6, <1>7, <1>8, NodesLeaveBackend, Types DEF IInv

LEMMA StopsKeeps ==
  ASSUME IInv, NEW n \in Node, NodeStops(n)
  PROVE  IInv'
<1>1. /\ busy' = [busy EXCEPT ![n] = None]
      /\ goal' = [goal EXCEPT ![n] = [r \in Request |-> None]]
      /\ UNCHANGED <<backendVars, waits, asked, says, phase, outcome, ran, served, installed, unsure>>
  BY DEF NodeStops, channelVars
<1>2. CallTypes' /\ StoreTypes' /\ ChannelInv'
  BY <1>1, Types DEF IInv, CallTypes, StoreTypes, ChannelInv
<1>3. GoalInv' /\ BusyInv'
  BY <1>1, Types DEF IInv, GoalInv, BusyInv, StoreTypes, Wanted
<1> QED
  BY <1>1, <1>2, <1>3, NodesLeaveBackend, Types DEF IInv

LEMMA IInvStep == IInv /\ [Next]_vars => IInv'
<1> SUFFICES ASSUME IInv, [Next]_vars PROVE IInv'
  OBVIOUS
<1>1. CASE UNCHANGED vars
  <2>1. /\ UNCHANGED <<waits, asked, says, phase, outcome, ran, served, busy, goal, installed, unsure>>
        /\ UNCHANGED backendVars
    BY <1>1 DEF vars, channelVars, storeVars
  <2>2. CallTypes' /\ StoreTypes' /\ ChannelInv' /\ GoalInv' /\ BusyInv'
    BY <2>1, Types DEF IInv, CallTypes, StoreTypes, ChannelInv, GoalInv, BusyInv, Wanted
  <2> QED
    BY <2>1, <2>2, NodesLeaveBackend, Types DEF IInv
<1>2. CASE Next
  BY <1>2, BackendKeeps, SendKeeps, CallerKeeps, RestartKeeps, ReceiveKeeps, LockKeeps, WorkKeeps,
     ReturnsKeeps, StopsKeeps DEF Next, NodeStep
<1> QED
  BY <1>1, <1>2

LEMMA InitOK == Init => IInv
<1> SUFFICES ASSUME Init PROVE IInv
  OBVIOUS
<1>1. BackendTypeOK /\ P!WorkInv
  BY DEF Init, BackendInit, BackendTypeOK, P!WorkInv, Steps
<1>2. CallTypes /\ StoreTypes
  BY DEF Init, RPC!Init, CallTypes, StoreTypes, Content
<1>3. ChannelInv /\ GoalInv /\ BusyInv /\ WaitInv
  BY DEF Init, RPC!Init, ChannelInv, GoalInv, BusyInv, WaitInv
<1> QED
  BY <1>1, <1>2, <1>3, Types DEF IInv

-----------------------------------------------------------------------------
(* Every job of a node is for a request that was sent to it and has no result yet, *)
(* and a worker waits for a request of its own (deploy.py, runner.go).             *)
THEOREM Invariance == SafeSpec => []IInv
<1>1. Init => IInv
  BY InitOK
<1>2. IInv /\ [Next]_vars => IInv'
  BY IInvStep
<1> QED
  BY <1>1, <1>2, PTL DEF SafeSpec

(* Every variable of backend, channel and nodes keeps its type. *)
THEOREM TypeCorrect == SafeSpec => []TypeOK
<1>1. IInv => TypeOK
  BY DEF IInv
<1> QED
  BY <1>1, Invariance, PTL

-----------------------------------------------------------------------------
(* Late calls and verdicts, as they change with the requests. *)
LEMMA ImageBound ==
  ASSUME NEW f, NEW S \in SUBSET Request
  PROVE  Cardinality({f[x] : x \in S}) <= Cardinality(Request)
<1> DEFINE image == {f[x] : x \in S}
           g == [x \in S |-> f[x]]
<1>1. IsFiniteSet(S) /\ Cardinality(S) <= Cardinality(Request)
  BY FS_Subset
<1>2. g \in Surjection(S, image)
  BY DEF Surjection
<1>3. IsFiniteSet(image) /\ Cardinality(image) <= Cardinality(S)
  BY <1>1, <1>2, FS_Surjection
<1>4. Cardinality(image) \in Nat /\ Cardinality(S) \in Nat /\ Cardinality(Request) \in Nat
  BY <1>1, <1>3, FS_CardinalityType
<1> QED
  BY <1>1, <1>3, <1>4

(* Cardinality is the same in PeerLifecycle. *)
LEMMA SameCardinality == \A S : P!Cardinality(S) = Cardinality(S)
BY Zenon DEF P!Cardinality, Cardinality

LEMMA LateBound ==
  Cardinality(Late) <= Cardinality(Request) /\ Cardinality(Late') <= Cardinality(Request)
<1>1. Cardinality(Late) <= Cardinality(Request)
  BY ImageBound DEF Late, Abandoned
<1>2. Cardinality(Late') <= Cardinality(Request)
  BY ImageBound DEF Late, Abandoned
<1> QED
  BY <1>1, <1>2

(* A request that may run has no result. *)
LEMMA MayRunIsUnserved ==
  ASSUME IInv, NEW r \in Request, MayRun(r)
  PROVE  asked[r] \in Call /\ served[r] = "none" /\ says[r] = "none"
<1>1. asked[r] \in Call
  BY Types DEF IInv, CallTypes, MayRun
<1>2. served[r] = "none"
  BY <1>1 DEF MayRun, IInv, GoalInv, ChannelInv, Call
<1> QED
  BY <1>1, <1>2 DEF IInv, ChannelInv

(* Steps that leave the calls, who waits for them, and what may run alone. *)
LEMMA LateStays ==
  ASSUME UNCHANGED <<asked, waits>>, \A r \in Request : MayRun(r)' <=> MayRun(r)
  PROVE  Late' = Late
<1>1. Abandoned' = Abandoned
  BY DEF Abandoned
<1> QED
  BY <1>1 DEF Late

LEMMA MayRunStays ==
  ASSUME UNCHANGED <<asked, ran, goal>>, NEW r \in Request
  PROVE  MayRun(r)' <=> MayRun(r)
BY DEF MayRun

(* More ids may be used again when more are unused. *)
LEMMA BeginMore ==
  ASSUME NEW w \in Worker, NEW some, NEW more, some \subseteq more, NEW running,
         Begin(w, some, running)
  PROVE  Begin(w, more, running)
BY DEF Begin

LEMMA UnusedIsUnused == Unused \subseteq P!Unused
BY DEF Unused, P!Unused, Late, Abandoned

LEMMA RunningIsRunning == P!Running = Running
BY DEF Running, P!Running

-----------------------------------------------------------------------------
(* The backend's steps. *)
LEMMA BackendSimulates ==
  ASSUME IInv, NEW w \in Worker, Backend(w)
  PROVE  P!Next
<1>1. UNCHANGED <<waits, asked, says, ran, goal, installed>>
  BY DEF Backend, channelVars, storeVars
<1>2. Late' = Late /\ Verdicts' = Verdicts
  BY <1>1, LateStays, MayRunStays DEF Verdicts
<1>3. UNCHANGED P!nodeVars
  BY <1>1, <1>2 DEF P!nodeVars
<1>4. P!Begin(w, P!Unused, P!Running) \/ P!Continue(w)
  BY BeginMore, UnusedIsUnused, RunningIsRunning, SameSteps DEF Backend
<1> QED
  BY <1>3, <1>4 DEF P!Next, P!Proceed

LEMMA SendSimulates ==
  ASSUME IInv, NEW w \in Worker, NEW r \in Request, Send(w, r)
  PROVE  UNCHANGED P!vars
<1>1. /\ waits[w] = None /\ phase[r] = "idle"
      /\ waits' = [waits EXCEPT ![w] = r] /\ asked' = [asked EXCEPT ![r] = call[w]]
      /\ UNCHANGED <<backendVars, says, ran, goal, installed>>
  BY DEF Send, RPC!Open, storeVars
<1>2. CallTypes /\ asked[r] = None /\ r \notin ran /\ says[r] = "none"
  BY <1>1, Types DEF IInv, ChannelInv
<1>3. Abandoned' = Abandoned /\ \A q \in Abandoned : asked'[q] = asked[q]
  <2>1. r \notin Abandoned /\ r \notin Abandoned'
    BY <1>1, <1>2 DEF Abandoned, MayRun, CallTypes
  <2>2. ASSUME NEW q \in Request \ {r}
        PROVE  asked'[q] = asked[q] /\ (q \in Abandoned' <=> q \in Abandoned)
    <3>1. asked'[q] = asked[q] /\ (MayRun(q)' <=> MayRun(q))
      BY <1>1, <1>2 DEF CallTypes, MayRun
    <3>2. \A v \in Worker : waits'[v] # q <=> waits[v] # q
      BY <1>1, <1>2 DEF CallTypes
    <3> QED
      BY <3>1, <3>2 DEF Abandoned
  <2> QED
    BY <2>1, <2>2 DEF Abandoned
<1>4. Late' = Late
  BY <1>3 DEF Late
<1>5. Verdicts' = Verdicts
  BY <1>1, <1>2 DEF Verdicts, CallTypes
<1> QED
  BY <1>1, <1>4, <1>5 DEF P!vars, P!nodeVars, P!backendVars, backendVars, P!workerVars, workerVars,
     P!history, history

(* A call that ends: its request is not late afterwards, unless it may still run. *)
LEMMA WaitEnds ==
  ASSUME IInv, NEW w \in Worker, waits[w] # None, waits' = [waits EXCEPT ![w] = None],
         UNCHANGED <<asked, says, ran, goal>>
  PROVE  /\ Late' = IF MayRun(waits[w]) THEN Late \union {call[w]} ELSE Late
         /\ Verdicts' = [Verdicts EXCEPT ![w] = "none"]
<1>1. CallTypes /\ waits[w] \in Request /\ asked[waits[w]] = call[w]
      /\ \A v \in Worker \ {w} : waits[v] # waits[w]
  BY Types DEF IInv, WaitInv, CallTypes
<1>2. \A q \in Request : MayRun(q)' <=> MayRun(q)
  BY MayRunStays
<1>3. Abandoned' = IF MayRun(waits[w]) THEN Abandoned \union {waits[w]} ELSE Abandoned
  BY <1>1, <1>2 DEF Abandoned, CallTypes
<1>4. Late' = IF MayRun(waits[w]) THEN Late \union {call[w]} ELSE Late
  BY <1>1, <1>3 DEF Late
<1>5. Verdicts' = [Verdicts EXCEPT ![w] = "none"]
  BY <1>1 DEF Verdicts, CallTypes
<1> QED
  BY <1>4, <1>5

LEMMA RefusedSimulates ==
  ASSUME IInv, NEW w \in Worker, NEW r \in Request, Refused(w, r)
  PROVE  P!GiveUp(w)
<1>1. /\ waits[w] = None /\ CallReturns(w, "failed")
      /\ UNCHANGED <<waits, asked, says, ran, goal, installed>>
  BY DEF Refused, RPC!Refuse, storeVars
<1>2. Late' = Late
  BY <1>1, LateStays, MayRunStays
<1>3. Verdicts' = [Verdicts EXCEPT ![w] = "none"]
  BY <1>1 DEF Verdicts
<1>4. P!CallReturns(w, "failed")
  BY <1>1, SameSteps
<1> QED
  BY <1>1, <1>2, <1>3, <1>4 DEF P!GiveUp

LEMMA AnsweredSimulates ==
  ASSUME IInv, NEW w \in Worker, Answered(w)
  PROVE  P!NodeAnswers(w)
<1>1. /\ waits[w] # None /\ served[waits[w]] # "none" /\ CallReturns(w, says[waits[w]])
      /\ waits' = [waits EXCEPT ![w] = None]
      /\ UNCHANGED <<asked, says, ran, goal, installed>>
  BY DEF Answered, RPC!Answer, storeVars
<1>2. waits[w] \in Request /\ says[waits[w]] # "none"
  BY <1>1, Types DEF IInv, ChannelInv, CallTypes
<1>3. Late' = Late /\ Verdicts' = [Verdicts EXCEPT ![w] = "none"]
  BY <1>1, <1>2, WaitEnds, MayRunIsUnserved
<1>4. Verdicts[w] = says[waits[w]] /\ P!CallReturns(w, says[waits[w]])
  BY <1>1, SameSteps DEF Verdicts
<1> QED
  BY <1>1, <1>2, <1>3, <1>4 DEF P!NodeAnswers

LEMMA TimesOutSimulates ==
  ASSUME IInv, NEW w \in Worker, TimesOut(w)
  PROVE  P!GiveUp(w)
<1>1. /\ waits[w] # None /\ CallReturns(w, "failed") /\ waits' = [waits EXCEPT ![w] = None]
      /\ UNCHANGED <<asked, says, ran, goal, installed>>
  BY DEF TimesOut, RPC!GiveUp, storeVars
<1>2. waits[w] \in Request
  BY <1>1, Types DEF IInv, CallTypes
<1>3. /\ Late' = IF MayRun(waits[w]) THEN Late \union {call[w]} ELSE Late
      /\ Verdicts' = [Verdicts EXCEPT ![w] = "none"]
  BY <1>1, WaitEnds
<1>4. MayRun(waits[w]) => Verdicts[w] = "none"
  BY <1>1, <1>2, MayRunIsUnserved DEF Verdicts
<1>5. P!CallReturns(w, "failed")
  BY <1>1, SameSteps
<1> QED
  BY <1>1, <1>3, <1>4, <1>5, LateBound, SameCardinality DEF P!GiveUp

LEMMA RestartSimulates ==
  ASSUME IInv, Restart
  PROVE  P!Restart
<1> DEFINE some == {asked[r] : r \in {q \in Request : MayRun(q) /\ \E w \in Worker : waits[w] = q}}
<1>1. /\ BackendRestarts /\ waits' = [w \in Worker |-> None]
      /\ UNCHANGED <<asked, says, ran, goal, installed>>
  BY DEF Restart, channelVars, storeVars
<1>2. Abandoned' = {q \in Request : MayRun(q)}
  <2>1. \A q \in Request : MayRun(q)' <=> MayRun(q)
    BY <1>1, MayRunStays
  <2> QED
    BY <1>1, <2>1 DEF Abandoned
<1>3. Late' = Late \union some
  BY <1>1, <1>2 DEF Late, Abandoned
<1>4. some \subseteq P!Outstanding
  <2> SUFFICES ASSUME NEW r \in Request, MayRun(r), NEW w \in Worker, waits[w] = r
               PROVE  asked[r] \in P!Outstanding
    OBVIOUS
  <2>1. asked[r] = call[w] /\ call[w] # None
    BY DEF IInv, WaitInv
  <2>2. Verdicts[w] = "none"
    BY MayRunIsUnserved DEF Verdicts
  <2> QED
    BY <2>1, <2>2 DEF P!Outstanding
<1>5. Verdicts' = [w \in Worker |-> "none"]
  BY <1>1 DEF Verdicts
<1>6. P!BackendRestarts
  BY <1>1, SameRestart
<1> HIDE DEF some
<1> QED
  BY <1>1, <1>3, <1>4, <1>5, <1>6, LateBound, SameCardinality DEF P!Restart

-----------------------------------------------------------------------------
(* The nodes' steps. *)
LEMMA LockOrReceiveSimulates ==
  ASSUME IInv, NEW n \in Node, NEW r \in Request, Receive(n, r) \/ Lock(n, r)
  PROVE  UNCHANGED P!vars
<1>1. UNCHANGED <<backendVars, waits, asked, says, installed>>
  BY DEF Receive, Lock
<1>2. \A q \in Request : MayRun(q)' <=> MayRun(q)
  <2>1. CASE Lock(n, r)
    BY <2>1, MayRunStays DEF Lock, channelVars
  <2>2. CASE Receive(n, r)
    <3>1. /\ asked[r] # None /\ asked[r].node = n /\ r \notin ran /\ ran' = ran \union {r}
          /\ goal' = [goal EXCEPT ![n][r] = Wanted(asked[r])]
      BY <2>2 DEF Receive, RPC!Run
    <3>2. StoreTypes /\ Wanted(asked[r]) # None
      BY <3>1, Types, WantedType DEF IInv, CallTypes
    <3>3. MayRun(r)' /\ MayRun(r)
      BY <1>1, <3>1, <3>2 DEF MayRun, StoreTypes
    <3>4. \A q \in Request \ {r}, m \in Node : goal'[m][q] = goal[m][q]
      BY <3>1, <3>2 DEF StoreTypes
    <3>5. \A q \in Request : asked[q] # None => asked[q].node \in Node
      BY Types DEF IInv, CallTypes, Call
    <3>6. \A q \in Request \ {r} : MayRun(q)' <=> MayRun(q)
      BY <1>1, <3>1, <3>4, <3>5 DEF MayRun
    <3> QED
      BY <3>3, <3>6
  <2> QED
    BY <2>1, <2>2
<1>3. Late' = Late /\ Verdicts' = Verdicts
  BY <1>1, <1>2, LateStays DEF Verdicts
<1> QED
  BY <1>1, <1>3 DEF P!vars, P!nodeVars, P!backendVars, backendVars, P!workerVars, workerVars,
     P!history, history

(* A job that a node runs is for a call that is late or waited for. *)
LEMMA JobIsOutstanding ==
  ASSUME IInv, NEW n \in Node, NEW r \in Request, busy[n] = r
  PROVE  /\ MayRun(r) /\ goal[n][r] # None /\ goal[n][r] \in Change
         /\ asked[r] \in Call /\ asked[r].node = n /\ goal[n][r] = Wanted(asked[r])
         /\ \/ r \in Abandoned
            \/ \E w \in Worker : waits[w] = r /\ call[w] = asked[r] /\ Verdicts[w] = "none"
<1>1. goal[n][r] # None
  BY DEF IInv, BusyInv
<1>2. asked[r] # None /\ asked[r].node = n /\ goal[n][r] = Wanted(asked[r])
  BY <1>1 DEF IInv, GoalInv
<1>3. MayRun(r)
  BY <1>1, <1>2 DEF MayRun
<1>4. asked[r] \in Call /\ goal[n][r] \in Change
  BY <1>2, <1>3, MayRunIsUnserved, WantedType
<1>5. ASSUME NEW w \in Worker, waits[w] = r
      PROVE  call[w] = asked[r] /\ Verdicts[w] = "none"
  BY <1>3, <1>5, MayRunIsUnserved DEF IInv, WaitInv, Verdicts
<1> QED
  BY <1>1, <1>2, <1>3, <1>4, <1>5 DEF Abandoned

(* The step of a job changes its own peer, and the mixtures of others. *)
LEMMA JobChanges ==
  ASSUME IInv, NEW n \in Node, NEW r \in Request, busy[n] = r,
         \E content \in [Peer -> Content] : installed' = [installed EXCEPT ![n] = content],
         Store(n)!OthersStay(r)
  PROVE  /\ installed'[n][asked[r].peer] \in Content
         /\ P!Change(asked[r], installed'[n][asked[r].peer])
<1>1. /\ asked[r] \in Call /\ asked[r].node = n /\ goal[n][r].name = asked[r].peer
  BY JobIsOutstanding, WantedType
<1>2. asked[r].peer \in Peer /\ asked[r].node \in Node
  BY <1>1 DEF Call
<1>3. PICK content \in [Peer -> Content] : installed' = [installed EXCEPT ![n] = content]
  OBVIOUS
<1>4. installed \in [Node -> [Peer -> Content]]
  BY Types DEF IInv, StoreTypes
<1>5. installed'[n] = content
  BY <1>3, <1>4
<1>6. \A q \in Peer \ {asked[r].peer} : installed[n][q] # Mixed => content[q] = installed[n][q]
  BY <1>1, <1>5 DEF Store!OthersStay
<1>7. content[asked[r].peer] \in Content
  BY <1>2
<1>8. content \in [Peer -> P!Content]
  BY DEF Content, P!Content
<1> QED
  BY <1>1, <1>3, <1>5, <1>6, <1>7, <1>8 DEF P!Change

LEMMA WorkSimulates ==
  ASSUME IInv, NEW n \in Node, NEW r \in Request, Work(n, r)
  PROVE  P!Next
<1>1. /\ busy[n] = r /\ Store(n)!OthersStay(r)
      /\ \E content \in [Peer -> Content] : installed' = [installed EXCEPT ![n] = content]
      /\ UNCHANGED <<backendVars, waits, asked, says, ran, goal>>
  BY DEF Work, Store!Work, channelVars
<1>2. P!ChangeSome(asked[r])
  BY <1>1, JobChanges DEF P!ChangeSome, Content, P!Content
<1>3. Late' = Late /\ Verdicts' = Verdicts
  BY <1>1, LateStays, MayRunStays DEF Verdicts
<1>4. P!NodeWorks(asked[r])
  BY <1>1, <1>2, <1>3 DEF P!NodeWorks, P!backendVars, backendVars, P!workerVars, workerVars,
     P!history, history
<1>5. asked[r] \in P!Outstanding
  <2>1. asked[r] # None
    BY <1>1, JobIsOutstanding DEF MayRun
  <2>2. CASE r \in Abandoned
    BY <2>2 DEF Late, P!Outstanding
  <2>3. CASE \E w \in Worker : call[w] = asked[r] /\ Verdicts[w] = "none"
    BY <2>1, <2>3 DEF P!Outstanding
  <2> QED
    BY <1>1, <2>2, <2>3, JobIsOutstanding
<1> QED
  BY <1>4, <1>5 DEF P!Next

(* A request that has its result may not run any more. *)
LEMMA ReturnedMayNotRun ==
  ASSUME IInv, NEW n \in Node, NEW r \in Request, busy[n] = r,
         goal' = [goal EXCEPT ![n][r] = None], UNCHANGED <<asked, ran, waits>>
  PROVE  Abandoned' = Abandoned \ {r}
<1>1. asked[r].node = n /\ r \in ran /\ StoreTypes
  BY JobIsOutstanding, Types DEF IInv, GoalInv
<1>2. ~MayRun(r)'
  BY <1>1 DEF MayRun, StoreTypes
<1>3. \A q \in Request \ {r}, m \in Node : goal'[m][q] = goal[m][q]
  BY <1>1 DEF StoreTypes
<1>4. \A q \in Request : asked[q] # None => asked[q].node \in Node
  BY Types DEF IInv, CallTypes, Call
<1>5. \A q \in Request \ {r} : MayRun(q)' <=> MayRun(q)
  BY <1>3, <1>4 DEF MayRun
<1> QED
  BY <1>2, <1>5 DEF Abandoned

LEMMA ReturnsSimulates ==
  ASSUME IInv, NEW n \in Node, NEW r \in Request, Succeed(n, r) \/ Fail(n, r)
  PROVE  P!Next
<1>1. PICK answer \in {"ok", "failed"} :
        /\ Returns(n, r, answer) /\ Store(n)!OthersStay(r)
        /\ answer = "ok" => installed'[n][goal[n][r].name] = goal[n][r].config
  BY DEF Succeed, Fail, Store!Succeed, Store!Fail
<1>2. /\ busy[n] = r /\ goal' = [goal EXCEPT ![n][r] = None]
      /\ \E content \in [Peer -> Content] : installed' = [installed EXCEPT ![n] = content]
      /\ says' = [says EXCEPT ![r] = answer]
      /\ UNCHANGED <<backendVars, waits, asked, ran>>
  BY <1>1 DEF Returns, RPC!Serve
<1> DEFINE k == asked[r]
           x == installed'[n][k.peer]
<1>3. P!Change(k, x) /\ x \in P!Content
  BY <1>1, <1>2, JobChanges DEF Content, P!Content
<1>4. P!ChangeSome(k)
  BY <1>3 DEF P!ChangeSome
<1>5. answer = "ok" => P!Change(k, k.goal)
  BY <1>1, <1>2, <1>3, JobIsOutstanding, WantedType
<1>6. Abandoned' = Abandoned \ {r}
  BY <1>2, ReturnedMayNotRun
<1>7. UNCHANGED P!backendVars
  BY <1>2 DEF P!backendVars, backendVars, P!workerVars, workerVars, P!history, history
<1>8. CASE r \in Abandoned
  <2>1. Verdicts' = Verdicts
    BY <1>2, <1>8, Types DEF Verdicts, Abandoned, IInv, CallTypes
  <2>2. k \in Late /\ (Late' = Late \ {k} \/ Late' = Late)
    BY <1>2, <1>6, <1>8 DEF Late
  <2>3. P!LateEnds(k) \/ P!NodeWorks(k)
    BY <1>4, <1>7, <2>1, <2>2 DEF P!LateEnds, P!NodeWorks
  <2> QED
    BY <2>2, <2>3 DEF P!Next, P!Outstanding, MayRun
<1>9. CASE r \notin Abandoned
  <2>1. PICK w \in Worker : waits[w] = r /\ call[w] = k /\ Verdicts[w] = "none"
    BY <1>2, <1>9, JobIsOutstanding
  <2>2. Late' = Late
    BY <1>2, <1>6, <1>9 DEF Late
  <2>3. \A v \in Worker \ {w} : waits[v] # r
    BY <2>1 DEF IInv, WaitInv
  <2>4. Verdicts' = [Verdicts EXCEPT ![w] = answer]
    <3>1. says'[r] = answer /\ \A q \in Request \ {r} : says'[q] = says[q]
      BY <1>2, Types DEF IInv, CallTypes
    <3>2. \A v \in Worker \ {w} : waits[v] \in (Request \ {r}) \union {None}
      BY <2>3, Types DEF IInv, CallTypes
    <3>3. Verdicts'[w] = answer /\ \A v \in Worker \ {w} : Verdicts'[v] = Verdicts[v]
      BY <1>2, <2>1, <3>1, <3>2 DEF Verdicts
    <3> QED
      BY <3>3 DEF Verdicts
  <2>5. call[w] # None
    BY <2>1 DEF IInv, WaitInv
  <2>6. P!NodeEnds(w)
    BY <1>4, <1>5, <1>7, <2>1, <2>2, <2>4, <2>5 DEF P!NodeEnds
  <2> QED
    BY <2>6 DEF P!Next
<1> QED
  BY <1>8, <1>9

(* A node that stops forgets what it was asked, and will not run it. *)
LEMMA StopSimulates ==
  ASSUME IInv, NEW n \in Node, NodeStops(n)
  PROVE  P!LateLost
<1>1. /\ goal' = [goal EXCEPT ![n] = [r \in Request |-> None]]
      /\ UNCHANGED <<backendVars, waits, asked, says, ran, installed>>
  BY DEF NodeStops, channelVars
<1>2. \A q \in Request : MayRun(q)' => MayRun(q)
  BY <1>1, Types DEF MayRun, IInv, StoreTypes, CallTypes, Call
<1>3. Abandoned' \subseteq Abandoned
  BY <1>1, <1>2 DEF Abandoned
<1>4. Late' = Late \ (Late \ Late')
  BY <1>1, <1>3 DEF Late
<1>5. Verdicts' = Verdicts
  BY <1>1 DEF Verdicts
<1> QED
  BY <1>1, <1>4, <1>5 DEF P!LateLost, P!backendVars, backendVars, P!workerVars, workerVars,
     P!history, history

-----------------------------------------------------------------------------
LEMMA StepSimulates == IInv /\ [Next]_vars => [P!Next]_(P!vars)
<1> SUFFICES ASSUME IInv, [Next]_vars PROVE P!Next \/ UNCHANGED P!vars
  OBVIOUS
<1>1. ASSUME NEW w \in Worker, Answered(w) \/ TimesOut(w) \/ \E r \in Request : Refused(w, r)
      PROVE  P!Next
  BY <1>1, AnsweredSimulates, TimesOutSimulates, RefusedSimulates DEF P!Next
<1>2. CASE Restart
  BY <1>2, RestartSimulates DEF P!Next
<1>3. ASSUME NEW n \in Node, NodeStops(n) PROVE P!Next
  BY <1>3, StopSimulates DEF P!Next
<1>4. CASE UNCHANGED vars
  <2>1. UNCHANGED <<backendVars, waits, asked, says, ran, goal, installed>>
    BY <1>4 DEF vars, channelVars, storeVars
  <2>2. Late' = Late /\ Verdicts' = Verdicts
    BY <2>1, LateStays, MayRunStays DEF Verdicts
  <2> QED
    BY <2>1, <2>2 DEF P!vars, P!nodeVars, P!backendVars, backendVars, P!workerVars, workerVars,
       P!history, history
<1> QED
  BY <1>1, <1>2, <1>3, <1>4, BackendSimulates, SendSimulates, LockOrReceiveSimulates, WorkSimulates,
     ReturnsSimulates DEF Next, NodeStep

LEMMA InitSimulates == Init => P!Init
<1> SUFFICES ASSUME Init PROVE P!Init
  OBVIOUS
<1>1. P!BackendInit
  BY DEF Init, BackendInit, P!BackendInit
<1>2. Late = {}
  BY DEF Init, Late, Abandoned, MayRun
<1>3. Verdicts = [w \in Worker |-> "none"]
  BY DEF Init, Verdicts
<1> QED
  BY <1>1, <1>2, <1>3 DEF Init, P!Init

(* PeerSystem's Lifecycle and P are the same instance of PeerLifecycle. *)
LEMMA SameLifecycle ==
  /\ Lifecycle!Init <=> P!Init
  /\ Lifecycle!Next <=> P!Next
  /\ Lifecycle!vars = P!vars /\ Lifecycle!vars' = P!vars'
  /\ Lifecycle!QuietRowIsTrue <=> P!QuietRowIsTrue
<1>1. Lifecycle!Init <=> P!Init
  BY DEF Lifecycle!Init, P!Init, Lifecycle!BackendInit, P!BackendInit
<1>2. Lifecycle!vars = P!vars /\ Lifecycle!vars' = P!vars'
  BY DEF Lifecycle!vars, P!vars, Lifecycle!backendVars, P!backendVars, Lifecycle!nodeVars,
     P!nodeVars, Lifecycle!workerVars, P!workerVars, Lifecycle!history, P!history
<1>3. Lifecycle!QuietRowIsTrue <=> P!QuietRowIsTrue
  BY DEF Lifecycle!QuietRowIsTrue, P!QuietRowIsTrue, Lifecycle!Busy, P!Busy
<1>4. ASSUME NEW w \in Worker, NEW unused, NEW running, NEW how
      PROVE  /\ Lifecycle!Begin(w, unused, running) <=> P!Begin(w, unused, running)
             /\ Lifecycle!Continue(w) <=> P!Continue(w)
             /\ Lifecycle!CallReturns(w, how) <=> P!CallReturns(w, how)
  <2>1. Lifecycle!Begin(w, unused, running) <=> Begin(w, unused, running)
    BY DEF Lifecycle!Begin, Begin, Lifecycle!Create, Create, Lifecycle!Edit, Edit, Lifecycle!Save,
       Save, Lifecycle!Redeploy, Redeploy, Lifecycle!Delete, Delete, Lifecycle!Start, Start,
       Lifecycle!Overlap, Overlap, Lifecycle!Renewed, Renewed, Lifecycle!Busy, Busy,
       Lifecycle!PeerOnNode, PeerOnNode, Lifecycle!Statuses, Statuses
  <2>2. Lifecycle!Continue(w) <=> Continue(w)
    BY DEF Lifecycle!Continue, Continue, Lifecycle!FlushFails, FlushFails, Lifecycle!Flush, Flush,
       Lifecycle!Reread, Reread, Lifecycle!Write, Write, Lifecycle!DeleteRow, DeleteRow,
       Lifecycle!FlushRefused, FlushRefused, Lifecycle!Flushed, Flushed, Lifecycle!Merge, Merge,
       Lifecycle!PeerOnNode, PeerOnNode, Lifecycle!OrphanOrEnd, OrphanOrEnd, Lifecycle!End, End,
       Lifecycle!Verdict, Verdict, Lifecycle!history, history
  <2>3. Lifecycle!CallReturns(w, how) <=> CallReturns(w, how)
    BY DEF Lifecycle!CallReturns, CallReturns, Lifecycle!CallEnds, CallEnds, Lifecycle!End, End
  <2> QED
    BY <2>1, <2>2, <2>3, SameSteps
<1>5. Lifecycle!BackendRestarts <=> P!BackendRestarts
  BY SameRestart DEF Lifecycle!BackendRestarts, BackendRestarts
<1>6. /\ Lifecycle!Unused = P!Unused /\ Lifecycle!Running = P!Running
      /\ Lifecycle!Outstanding = P!Outstanding
  BY DEF Lifecycle!Unused, P!Unused, Lifecycle!Running, P!Running, Lifecycle!Outstanding,
     P!Outstanding
<1>7. UNCHANGED Lifecycle!backendVars <=> UNCHANGED P!backendVars
  BY DEF Lifecycle!backendVars, P!backendVars, Lifecycle!workerVars, P!workerVars,
     Lifecycle!history, P!history
<1>8. \A S : Lifecycle!Cardinality(S) = P!Cardinality(S)
  BY Zenon DEF Lifecycle!Cardinality, P!Cardinality
<1>9. ASSUME NEW k, NEW x
      PROVE  /\ Lifecycle!Change(k, x) <=> P!Change(k, x)
             /\ Lifecycle!ChangeSome(k) <=> P!ChangeSome(k)
  BY DEF Lifecycle!Change, P!Change, Lifecycle!ChangeSome, P!ChangeSome, Lifecycle!Content, P!Content
<1>10. ASSUME NEW k
       PROVE  /\ Lifecycle!NodeWorks(k) <=> P!NodeWorks(k)
              /\ Lifecycle!LateEnds(k) <=> P!LateEnds(k)
  BY <1>7, <1>9 DEF Lifecycle!NodeWorks, P!NodeWorks, Lifecycle!LateEnds, P!LateEnds
<1>11. ASSUME NEW w \in Worker
       PROVE  /\ Lifecycle!NodeEnds(w) <=> P!NodeEnds(w)
              /\ Lifecycle!NodeAnswers(w) <=> P!NodeAnswers(w)
              /\ Lifecycle!GiveUp(w) <=> P!GiveUp(w)
              /\ Lifecycle!Proceed(w) <=> P!Proceed(w)
  BY <1>4, <1>7, <1>8, <1>9 DEF Lifecycle!NodeEnds, P!NodeEnds, Lifecycle!NodeAnswers, P!NodeAnswers,
     Lifecycle!GiveUp, P!GiveUp, Lifecycle!Proceed, P!Proceed, Lifecycle!nodeVars, P!nodeVars
<1>12. Lifecycle!LateLost <=> P!LateLost
  BY <1>7 DEF Lifecycle!LateLost, P!LateLost
<1>13. Lifecycle!Restart <=> P!Restart
  BY <1>5, <1>6, <1>8 DEF Lifecycle!Restart, P!Restart
<1>14. Lifecycle!Next <=> P!Next
  BY <1>4, <1>6, <1>10, <1>11, <1>12, <1>13 DEF Lifecycle!Next, P!Next, Lifecycle!nodeVars, P!nodeVars
<1> QED
  BY <1>1, <1>2, <1>3, <1>14

-----------------------------------------------------------------------------
LEMMA Simulation == SafeSpec => P!SafeSpec
<1>1. Init => P!Init
  BY InitSimulates
<1>2. IInv /\ [Next]_vars => [P!Next]_(P!vars)
  BY StepSimulates
<1> QED
  BY <1>1, <1>2, Invariance, PTL DEF SafeSpec, P!SafeSpec

(* Backend, channel and nodes together do what PeerLifecycle says (app/peer/service.py and *)
(* deploy.py, over app/node_ws.py and the node service).                                   *)
THEOREM LifecycleRefinement == SafeSpec => ImplementsLifecycle
<1>1. P!Init => Lifecycle!Init
  BY SameLifecycle
<1>2. [P!Next]_(P!vars) => [Lifecycle!Next]_(Lifecycle!vars)
  BY SameLifecycle
<1> QED
  BY <1>1, <1>2, Simulation, PTL DEF ImplementsLifecycle, P!SafeSpec, Lifecycle!SafeSpec

(* From end to end, a quiet row tells what the nodes have of the peer, whatever the channel *)
(* and the nodes do in between (app/peer/service.py, apply_deploy_result of deploy.py).     *)
THEOREM QuietRowsAreTrue == SafeSpec => []QuietRowIsTrue
<1>1. P!SafeSpec => []P!QuietRowIsTrue
  BY P!QuietRowsAreTrue, Constants
<1>2. P!QuietRowIsTrue => QuietRowIsTrue
  BY SameLifecycle DEF QuietRowIsTrue
<1> QED
  BY <1>1, <1>2, Simulation, PTL
=============================================================================
