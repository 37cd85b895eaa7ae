-------------------------- MODULE PeerLifecycleProofs --------------------------
(***************************************************************************)
(* Proofs about PeerLifecycle, for any workers, peers, nodes,              *)
(* configurations and operations, and any number of late calls and         *)
(* restarts.  IInv ties what an operation remembers to where it stands;    *)
(* QuietInv, in the second half, says what the one operation on an         *)
(* undoubted peer has established at each of its steps.  The lemmas about  *)
(* the backend's own steps hold whatever the nodes do.                     *)
(***************************************************************************)
EXTENDS PeerLifecycle, TLAPS

\* What an operation holds at each of its steps.
WorkInv == \A w \in Worker :
  /\ pc[w] # "idle" => subject[w] \in Peer
  /\ call[w] # None <=> pc[w] \in {"calling", "orphan"}
  /\ pc[w] = "flush" => plan[w] \in Row /\ intent[w] \in {"none", "deploy", "remove"}
  /\ pc[w] = "flush" /\ intent[w] # "deploy" => seen[w] \in Row /\ plan[w].deploy = seen[w].deploy
  /\ pc[w] = "calling" => intent[w] \in {"deploy", "remove", "delete"}
  /\ pc[w] \in {"answered", "write"} => intent[w] \in {"deploy", "remove"} /\ result[w] # "none"
  /\ pc[w] = "write" => seen[w] \in Row

\* The operation that will overwrite a "deploying" row will see it as such.
Deploys(w, p) ==
  /\ subject[w] = p /\ intent[w] = "deploy"
  /\ \/ pc[w] \in {"calling", "answered"}
     \/ pc[w] = "write" /\ seen[w].deploy = "deploying"

ProgressInv ==
  \A p \in Peer \ cut : row[p] # None /\ row[p].deploy = "deploying" =>
    \E w \in Worker : Deploys(w, p)

IInv == TypeOK /\ WorkInv /\ OnePeerPerNode /\ ProgressInv

USE DistinctAssumption, OperationsAssumption, RestartsAssumption, LateAssumption, NoneIsNoRecord
    DEF Statuses, Deployments, Row, Call, Steps

-----------------------------------------------------------------------------
(* A session writes a row, and of it the columns that it changed. *)
LEMMA MergeType ==
  ASSUME NEW now \in Row, NEW loadedRow \in Row, NEW wanted \in Row
  PROVE  /\ Merge(now, loadedRow, wanted) \in Row
         /\ \A f \in {"node", "config", "status", "deploy"} :
              Merge(now, loadedRow, wanted)[f] =
                IF wanted[f] # loadedRow[f] THEN wanted[f] ELSE now[f]
<1>1. DOMAIN wanted = {"node", "config", "status", "deploy"}
  OBVIOUS
<1> QED
  BY <1>1 DEF Merge

-----------------------------------------------------------------------------
(* The types of what the workers remember, and of the rest. *)
WorkerTypes ==
  /\ pc \in [Worker -> Steps]
  /\ subject \in [Worker -> Peer \union {None}]
  /\ intent \in [Worker -> {"none", "deploy", "remove", "delete"}]
  /\ seen \in [Worker -> Row \union {None}]
  /\ plan \in [Worker -> Row \union {None}]
  /\ left \in [Worker -> Node \union {None}]
  /\ call \in [Worker -> Call \union {None}]
  /\ result \in [Worker -> {"none", "ok", "failed"}]

OtherTypes ==
  /\ row \in [Peer -> Row \union {None}]
  /\ doubtful \subseteq Peer \X Node /\ unsaved \subseteq Peer /\ cut \subseteq Peer
  /\ restarts \in 0..MaxRestarts

LEMMA Types ==
  /\ BackendTypeOK <=> WorkerTypes /\ OtherTypes
  /\ BackendTypeOK' <=> WorkerTypes' /\ OtherTypes'
BY DEF BackendTypeOK, WorkerTypes, OtherTypes

(* An operation that ends leaves the others as they were. *)
LEMMA EndKeeps ==
  ASSUME WorkerTypes, WorkInv, NEW w \in Worker, End(w)
  PROVE  WorkerTypes' /\ WorkInv'
BY DEF End, WorkerTypes, WorkInv

(* An operation begins with a plan for its row. *)
LEMMA StartKeeps ==
  ASSUME BackendTypeOK, WorkInv, NEW w \in Worker, NEW p \in Peer, NEW wanted \in Row,
         NEW what \in {"none", "deploy", "remove"}, Start(w, p, wanted, what),
         what # "deploy" => row[p] \in Row /\ wanted.deploy = row[p].deploy,
         left' \in [Worker -> Node \union {None}]
  PROVE  WorkerTypes' /\ WorkInv'
<1>1. WorkerTypes'
  BY DEF Start, WorkerTypes, BackendTypeOK
<1>2. WorkInv'
  BY DEF Start, WorkInv, BackendTypeOK
<1> QED
  BY <1>1, <1>2

LEMMA OrphanKeeps ==
  ASSUME WorkerTypes, WorkInv, NEW w \in Worker, pc[w] \in {"saved", "write"}, OrphanOrEnd(w)
  PROVE  WorkerTypes' /\ WorkInv'
<1>1. CASE End(w)
  BY <1>1, EndKeeps
<1>2. CASE ~End(w)
  <2>1. [peer |-> subject[w], node |-> left[w], goal |-> None] \in Call
    BY <1>2 DEF OrphanOrEnd, WorkerTypes, WorkInv
  <2>2. /\ subject[w] \in Peer /\ UNCHANGED subject
        /\ pc' = [pc EXCEPT ![w] = "orphan"]
        /\ call' = [call EXCEPT ![w] = [peer |-> subject[w], node |-> left[w], goal |-> None]]
        /\ seen' = [seen EXCEPT ![w] = None] /\ plan' = [plan EXCEPT ![w] = None]
        /\ intent' = [intent EXCEPT ![w] = "none"] /\ left' = [left EXCEPT ![w] = None]
        /\ result' = [result EXCEPT ![w] = "none"]
    BY <1>2 DEF OrphanOrEnd, WorkInv
  <2>3. WorkerTypes'
    BY <2>1, <2>2 DEF WorkerTypes
  <2>4. WorkInv'
    BY <2>1, <2>2 DEF WorkerTypes, WorkInv
  <2> QED
    BY <2>3, <2>4
<1> QED
  BY <1>1, <1>2

LEMMA CallEndsKeeps ==
  ASSUME WorkerTypes, WorkInv, NEW w \in Worker, NEW how \in {"ok", "failed"}, CallEnds(w, how)
  PROVE  WorkerTypes' /\ WorkInv'
<1>1. CASE End(w)
  BY <1>1, EndKeeps
<1>2. CASE ~End(w)
  <2>1. /\ pc[w] = "calling" /\ call' = [call EXCEPT ![w] = None]
        /\ \/ pc' = [pc EXCEPT ![w] = "delete"] /\ UNCHANGED result
           \/ /\ pc' = [pc EXCEPT ![w] = "answered"] /\ intent[w] \in {"deploy", "remove"}
              /\ result' = [result EXCEPT ![w] = how]
        /\ UNCHANGED <<subject, intent, seen, plan, left>>
    BY <1>2 DEF CallEnds, WorkInv
  <2>2. WorkerTypes'
    BY <2>1 DEF WorkerTypes
  <2>3. WorkInv'
    BY <2>1 DEF WorkerTypes, WorkInv
  <2> QED
    BY <2>2, <2>3
<1> QED
  BY <1>1, <1>2

-----------------------------------------------------------------------------
(* Types, and what an operation holds, are kept by every step. *)
LEMMA OverlapTypes ==
  ASSUME BackendTypeOK, NEW p \in Peer, NEW renewed, Overlap(p, renewed)
  PROVE  doubtful' \subseteq Peer \X Node /\ unsaved' \subseteq Peer /\ cut' \subseteq Peer
BY DEF Overlap, BackendTypeOK

LEMMA BeginKeeps ==
  ASSUME BackendTypeOK, WorkInv, NEW w \in Worker, NEW unused, NEW running,
         Begin(w, unused, running)
  PROVE  BackendTypeOK' /\ WorkInv'
<1>1. ASSUME NEW p \in Peer, NEW n \in Node, NEW c \in Config, Create(w, p, n, c)
      PROVE  BackendTypeOK' /\ WorkInv'
  <2>1. OtherTypes' /\ left' \in [Worker -> Node \union {None}]
    BY <1>1 DEF Create, BackendTypeOK, OtherTypes, Start
  <2>2. [node |-> n, config |-> c, status |-> "approved", deploy |-> "deploying"] \in Row
    OBVIOUS
  <2> QED
    BY <1>1, <2>1, <2>2, StartKeeps, Types DEF Create
<1>2. ASSUME NEW p \in Peer, NEW c \in Config, Edit(w, p, c, running)
      PROVE  BackendTypeOK' /\ WorkInv'
  <2>1. OtherTypes' /\ left' \in [Worker -> Node \union {None}] /\ row[p] \in Row
    BY <1>2, OverlapTypes, Types DEF Edit, BackendTypeOK, OtherTypes, Start
  <2>2. /\ [row[p] EXCEPT !.config = c] \in Row
        /\ [row[p] EXCEPT !.config = c].deploy = row[p].deploy
        /\ [row[p] EXCEPT !.config = c, !.deploy = "deploying"] \in Row
    BY <2>1
  <2>3. WorkerTypes' /\ WorkInv'
    BY <1>2, <2>1, <2>2, StartKeeps DEF Edit
  <2> QED
    BY <2>1, <2>3, Types
<1>3. ASSUME NEW p \in Peer, NEW n \in Node, NEW c \in Config, NEW s \in Statuses,
             Save(w, p, n, c, s)
      PROVE  BackendTypeOK' /\ WorkInv'
  <2>1. OtherTypes' /\ left' \in [Worker -> Node \union {None}] /\ row[p] \in Row
    BY <1>3, OverlapTypes, Types DEF Save, BackendTypeOK, OtherTypes, Start
  <2> QED
    BY <1>3, <2>1, StartKeeps, Types DEF Save
<1>4. ASSUME NEW p \in Peer, Redeploy(w, p, running)
      PROVE  BackendTypeOK' /\ WorkInv'
  <2>1. OtherTypes' /\ left' \in [Worker -> Node \union {None}] /\ row[p] \in Row
    BY <1>4, OverlapTypes, Types DEF Redeploy, BackendTypeOK, OtherTypes, Start
  <2>2. [row[p] EXCEPT !.deploy = "deploying"] \in Row
    BY <2>1
  <2>3. WorkerTypes' /\ WorkInv'
    BY <1>4, <2>1, <2>2, StartKeeps DEF Redeploy
  <2> QED
    BY <2>1, <2>3, Types
<1>5. ASSUME NEW p \in Peer, Delete(w, p, running)
      PROVE  BackendTypeOK' /\ WorkInv'
  <2>1. OtherTypes' /\ [peer |-> p, node |-> row[p].node, goal |-> None] \in Call
    BY <1>5, OverlapTypes DEF Delete, BackendTypeOK, OtherTypes
  <2>2. WorkerTypes' /\ WorkInv'
    BY <1>5, <2>1 DEF Delete, BackendTypeOK, WorkerTypes, WorkInv
  <2> QED
    BY <2>1, <2>2, Types
<1> QED
  BY <1>1, <1>2, <1>3, <1>4, <1>5 DEF Begin

LEMMA FlushedType ==
  ASSUME BackendTypeOK, WorkInv, NEW w \in Worker, Flush(w)
  PROVE  Flushed(w) \in Row /\ subject[w] \in Peer
<1>1. subject[w] \in Peer /\ plan[w] \in Row
  BY DEF Flush, WorkInv
<1>2. CASE seen[w] = None
  BY <1>1, <1>2 DEF Flushed
<1>3. CASE seen[w] # None
  <2>1. seen[w] \in Row /\ row[subject[w]] \in Row
    BY <1>1, <1>3 DEF Flush, FlushRefused, BackendTypeOK
  <2> QED
    BY <1>1, <1>3, <2>1, MergeType DEF Flushed
<1> QED
  BY <1>1, <1>2, <1>3

LEMMA WrittenType ==
  ASSUME BackendTypeOK, WorkInv, NEW w \in Worker, pc[w] = "write", row[subject[w]] # None
  PROVE  LET new == Merge(row[subject[w]], seen[w], [seen[w] EXCEPT !.deploy = Verdict(w)]) IN
         /\ new \in Row
         /\ new.node = row[subject[w]].node
         /\ new.deploy = IF Verdict(w) # seen[w].deploy THEN Verdict(w)
                                                        ELSE row[subject[w]].deploy
<1>1. Verdict(w) \in {"deployed", "failed", "removed"}
  BY DEF Verdict
<1>2. seen[w] \in Row /\ row[subject[w]] \in Row
  BY DEF WorkInv, BackendTypeOK
<1>3. [seen[w] EXCEPT !.deploy = Verdict(w)] \in Row
  BY <1>1, <1>2
<1> QED
  BY <1>1, <1>2, <1>3, MergeType

LEMMA ContinueKeeps ==
  ASSUME BackendTypeOK, WorkInv, NEW w \in Worker, Continue(w)
  PROVE  BackendTypeOK' /\ WorkInv'
<1>1. CASE FlushFails(w)
  BY <1>1, EndKeeps, Types DEF FlushFails, OtherTypes, history
<1>2. CASE Flush(w)
  <2>1. OtherTypes'
    <3>1. row' \in [Peer -> Row \union {None}]
      BY <1>2, FlushedType DEF Flush, BackendTypeOK
    <3>2. unsaved' \subseteq Peer
      <4>1. subject[w] \in Peer /\ unsaved' \in {unsaved, unsaved \union {subject[w]}}
        BY <1>2 DEF Flush, WorkInv
      <4> QED
        BY <4>1 DEF BackendTypeOK
    <3> QED
      BY <1>2, <3>1, <3>2 DEF Flush, BackendTypeOK, OtherTypes
  <2>2. [peer |-> subject[w], node |-> plan[w].node,
         goal |-> IF intent[w] = "deploy" THEN plan[w].config ELSE None] \in Call
    BY <1>2 DEF Flush, WorkInv
  <2>3. /\ subject[w] \in Peer /\ UNCHANGED <<subject, intent, left, result>>
        /\ \/ /\ pc' = [pc EXCEPT ![w] = "calling"] /\ intent[w] \in {"deploy", "remove"}
              /\ \E k \in Call : call' = [call EXCEPT ![w] = k]
           \/ pc' = [pc EXCEPT ![w] = "saved"] /\ UNCHANGED call /\ call[w] = None
        /\ seen' = [seen EXCEPT ![w] = None] /\ plan' = [plan EXCEPT ![w] = None]
    <3>1. /\ pc[w] = "flush" /\ UNCHANGED <<subject, intent, left, result>>
          /\ seen' = [seen EXCEPT ![w] = None] /\ plan' = [plan EXCEPT ![w] = None]
      BY <1>2 DEF Flush
    <3>2. subject[w] \in Peer /\ call[w] = None /\ intent[w] \in {"none", "deploy", "remove"}
      BY <3>1 DEF WorkInv
    <3>3. CASE intent[w] = "none"
      BY <1>2, <3>1, <3>2, <3>3 DEF Flush
    <3>4. CASE intent[w] # "none"
      BY <1>2, <2>2, <3>1, <3>2, <3>4 DEF Flush
    <3> QED
      BY <3>3, <3>4
  <2>4. WorkerTypes'
    <3>1. pc' \in [Worker -> Steps] /\ call' \in [Worker -> Call \union {None}]
      BY <2>3 DEF BackendTypeOK
    <3> QED
      BY <2>3, <3>1 DEF BackendTypeOK, WorkerTypes
  <2>5. WorkInv'
    <3>1. CASE pc' = [pc EXCEPT ![w] = "saved"] /\ UNCHANGED call /\ call[w] = None
      BY <2>3, <3>1 DEF BackendTypeOK, WorkInv
    <3>2. CASE /\ pc' = [pc EXCEPT ![w] = "calling"] /\ intent[w] \in {"deploy", "remove"}
               /\ \E k \in Call : call' = [call EXCEPT ![w] = k]
      BY <2>3, <3>2 DEF BackendTypeOK, WorkInv
    <3> QED
      BY <2>3, <3>1, <3>2
  <2> QED
    BY <2>1, <2>4, <2>5, Types
<1>3. CASE Reread(w)
  <2>1. OtherTypes'
    BY <1>3 DEF Reread, BackendTypeOK, OtherTypes, history
  <2>2. CASE End(w) \/ (OrphanOrEnd(w) /\ pc[w] = "saved")
    BY <2>1, <2>2, EndKeeps, OrphanKeeps, Types
  <2>3. CASE ~(End(w) \/ (OrphanOrEnd(w) /\ pc[w] = "saved"))
    <3>1. /\ pc[w] = "answered" /\ row[subject[w]] \in Row
          /\ seen' = [seen EXCEPT ![w] = row[subject[w]]]
          /\ pc' = [pc EXCEPT ![w] = "write"]
          /\ UNCHANGED <<subject, intent, plan, left, call, result>>
      BY <1>3, <2>3 DEF Reread, BackendTypeOK, WorkInv
    <3>2. WorkerTypes'
      BY <3>1, Types DEF WorkerTypes
    <3>3. WorkInv'
      BY <3>1 DEF BackendTypeOK, WorkInv
    <3> QED
      BY <2>1, <3>2, <3>3, Types
  <2> QED
    BY <2>2, <2>3
<1>4. CASE Write(w)
  <2>1. OtherTypes'
    <3>1. subject[w] \in Peer /\ pc[w] = "write"
      BY <1>4 DEF Write, WorkInv
    <3>2. row' \in [Peer -> Row \union {None}]
      <4>1. CASE UNCHANGED row
        BY <4>1 DEF BackendTypeOK
      <4>2. CASE row[subject[w]] # None
        BY <1>4, <3>1, <4>2, WrittenType DEF Write, BackendTypeOK
      <4> QED
        BY <1>4, <4>1, <4>2 DEF Write
    <3> QED
      BY <1>4, <3>2 DEF Write, BackendTypeOK, OtherTypes
  <2>2. WorkerTypes' /\ WorkInv'
    BY <1>4, EndKeeps, OrphanKeeps, Types DEF Write
  <2> QED
    BY <2>1, <2>2, Types
<1>5. CASE DeleteRow(w)
  BY <1>5, EndKeeps, Types DEF DeleteRow, OtherTypes, history
<1> QED
  BY <1>1, <1>2, <1>3, <1>4, <1>5 DEF Continue

LEMMA CallKeeps ==
  ASSUME BackendTypeOK, WorkInv, NEW w \in Worker, NEW how \in {"ok", "failed"}, CallReturns(w, how)
  PROVE  BackendTypeOK' /\ WorkInv'
<1>1. WorkerTypes' /\ WorkInv'
  BY CallEndsKeeps, Types DEF CallReturns
<1>2. subject[w] \in Peer /\ call[w].node \in Node
  BY DEF CallReturns, BackendTypeOK, WorkInv
<1>3. OtherTypes'
  BY <1>2 DEF CallReturns, BackendTypeOK, OtherTypes
<1> QED
  BY <1>1, <1>3, Types

LEMMA RestartKeeps ==
  ASSUME BackendTypeOK, WorkInv, BackendRestarts
  PROVE  BackendTypeOK' /\ WorkInv'
<1>1. \A w \in Worker : pc[w] # "idle" => subject[w] \in Peer
  BY DEF WorkInv
<1>2. OtherTypes'
  BY <1>1 DEF BackendRestarts, BackendTypeOK, OtherTypes
<1>3. WorkerTypes' /\ WorkInv'
  BY DEF BackendRestarts, WorkerTypes, WorkInv
<1> QED
  BY <1>2, <1>3, Types

-----------------------------------------------------------------------------
(* The types of what the nodes have, and of the calls. *)
NodeTypes ==
  /\ installed \in [Node -> [Peer -> Content]]
  /\ late \subseteq Call
  /\ verdict \in [Worker -> {"none", "ok", "failed"}]

LEMMA AllTypes ==
  (TypeOK <=> BackendTypeOK /\ NodeTypes) /\ (TypeOK' <=> BackendTypeOK' /\ NodeTypes')
BY DEF TypeOK, NodeTypes

(* A node's step gives contents to its own peers. *)
LEMMA ChangeTypes ==
  ASSUME installed \in [Node -> [Peer -> Content]], NEW k \in Call, NEW x, Change(k, x)
  PROVE  installed' \in [Node -> [Peer -> Content]]
BY DEF Change

(* The calls the nodes may be working on are calls. *)
LEMMA OutstandingType == TypeOK => Outstanding \subseteq Call
BY DEF TypeOK, BackendTypeOK, Outstanding

LEMMA NodeKeeps ==
  ASSUME TypeOK, WorkInv,
         \/ \E k \in Outstanding : NodeWorks(k)
         \/ \E w \in Worker : NodeEnds(w)
         \/ \E k \in late : LateEnds(k)
         \/ LateLost
  PROVE  TypeOK' /\ WorkInv'
<1>1. UNCHANGED backendVars
  BY DEF NodeWorks, NodeEnds, LateEnds, LateLost
<1>2. BackendTypeOK' /\ WorkInv'
  <2>1. WorkerTypes /\ OtherTypes
    BY AllTypes, Types
  <2>2. WorkerTypes' /\ OtherTypes' /\ WorkInv'
    BY <1>1, <2>1 DEF backendVars, workerVars, history, WorkerTypes, OtherTypes, WorkInv
  <2> QED
    BY <2>2, Types
<1>3. NodeTypes'
  <2>1. ASSUME NEW k \in Call, NEW x, Change(k, x)
        PROVE  installed' \in [Node -> [Peer -> Content]]
    BY <2>1, ChangeTypes DEF TypeOK
  <2>2. ASSUME NEW k \in Outstanding, NodeWorks(k) PROVE NodeTypes'
    BY <2>1, <2>2, OutstandingType DEF NodeWorks, ChangeSome, TypeOK, NodeTypes
  <2>3. ASSUME NEW w \in Worker, NodeEnds(w) PROVE NodeTypes'
    <3>1. call[w] \in Call
      BY <2>3 DEF NodeEnds, TypeOK, BackendTypeOK
    <3>2. installed' \in [Node -> [Peer -> Content]]
      BY <2>1, <2>3, <3>1 DEF NodeEnds, ChangeSome
    <3> QED
      BY <2>3, <3>2 DEF NodeEnds, TypeOK, NodeTypes
  <2>4. ASSUME NEW k \in late, LateEnds(k) PROVE NodeTypes'
    BY <2>1, <2>4 DEF LateEnds, ChangeSome, TypeOK, NodeTypes
  <2>5. ASSUME LateLost PROVE NodeTypes'
    BY <2>5 DEF LateLost, TypeOK, NodeTypes
  <2> QED
    BY <2>2, <2>3, <2>4, <2>5
<1> QED
  BY <1>2, <1>3, AllTypes

LEMMA CallerKeeps ==
  ASSUME TypeOK, WorkInv, NEW w \in Worker, NodeAnswers(w) \/ GiveUp(w)
  PROVE  TypeOK' /\ WorkInv'
<1>1. PICK how \in {"ok", "failed"} : CallReturns(w, how)
  BY DEF NodeAnswers, GiveUp, TypeOK
<1>2. BackendTypeOK' /\ WorkInv'
  BY <1>1, CallKeeps DEF TypeOK
<1>3. call[w] \in Call
  BY <1>1 DEF CallReturns, TypeOK, BackendTypeOK
<1>4. NodeTypes'
  BY <1>3 DEF NodeAnswers, GiveUp, TypeOK, NodeTypes
<1> QED
  BY <1>2, <1>4, AllTypes

LEMMA TypeStep == TypeOK /\ WorkInv /\ [Next]_vars => TypeOK' /\ WorkInv'
<1> SUFFICES ASSUME TypeOK, WorkInv, [Next]_vars PROVE TypeOK' /\ WorkInv'
  OBVIOUS
<1>1. ASSUME NEW w \in Worker, Begin(w, Unused, Running) \/ Continue(w), UNCHANGED nodeVars
      PROVE  TypeOK' /\ WorkInv'
  <2>1. BackendTypeOK' /\ WorkInv'
    BY <1>1, BeginKeeps, ContinueKeeps DEF TypeOK
  <2>2. NodeTypes'
    BY <1>1 DEF nodeVars, TypeOK, NodeTypes
  <2> QED
    BY <2>1, <2>2, AllTypes
<1>2. CASE Restart
  <2>1. BackendTypeOK' /\ WorkInv'
    BY <1>2, RestartKeeps DEF Restart, TypeOK
  <2>2. NodeTypes'
    BY <1>2, OutstandingType DEF Restart, TypeOK, NodeTypes
  <2> QED
    BY <2>1, <2>2, AllTypes
<1>3. CASE UNCHANGED vars
  <2>1. WorkerTypes /\ OtherTypes /\ NodeTypes
    BY AllTypes, Types
  <2>2. WorkerTypes' /\ OtherTypes' /\ NodeTypes' /\ WorkInv'
    BY <1>3, <2>1 DEF vars, backendVars, workerVars, nodeVars, history, WorkerTypes, OtherTypes,
       NodeTypes, WorkInv
  <2> QED
    BY <2>2, AllTypes, Types
<1> QED
  BY <1>1, <1>2, <1>3, NodeKeeps, CallerKeeps DEF Next, Proceed

-----------------------------------------------------------------------------
(* What a step of the system is to the backend. *)
BackendStep ==
  \/ \E w \in Worker :
       \/ \E unused \in SUBSET Peer, running \in SUBSET (Peer \X Node) : Begin(w, unused, running)
       \/ Continue(w)
       \/ \E how \in {"ok", "failed"} : CallReturns(w, how)
  \/ BackendRestarts
  \/ UNCHANGED backendVars

LEMMA BackendSteps == TypeOK /\ [Next]_vars => BackendStep
<1> SUFFICES ASSUME TypeOK, [Next]_vars PROVE BackendStep
  OBVIOUS
<1>1. ASSUME NEW w \in Worker, Begin(w, Unused, Running) PROVE BackendStep
  <2>1. Unused \in SUBSET Peer /\ Running \in SUBSET (Peer \X Node)
    BY DEF Unused, Running, TypeOK
  <2> QED
    BY <1>1, <2>1 DEF BackendStep
<1>2. ASSUME NEW w \in Worker, NodeAnswers(w) \/ GiveUp(w) PROVE BackendStep
  BY <1>2 DEF NodeAnswers, GiveUp, TypeOK, BackendStep
<1>3. ASSUME UNCHANGED backendVars PROVE BackendStep
  BY <1>3 DEF BackendStep
<1> QED
  BY <1>1, <1>2, <1>3
     DEF Next, Proceed, NodeEnds, NodeWorks, LateEnds, LateLost, Restart, vars, BackendStep

(* The row changes in three actions only; what each does to it. *)
LEMMA RowSteps ==
  ASSUME BackendTypeOK, WorkInv, BackendStep
  PROVE  \/ UNCHANGED row
         \/ \E w \in Worker :
              \/ /\ Flush(w) /\ subject[w] \in Peer
                 /\ Flushed(w) \in Row /\ ~PeerOnNode(Flushed(w).node, subject[w])
                 /\ row' = [row EXCEPT ![subject[w]] = Flushed(w)]
              \/ /\ Write(w) /\ subject[w] \in Peer /\ row[subject[w]] # None
                 /\ \E new \in Row : new.node = row[subject[w]].node
                                     /\ row' = [row EXCEPT ![subject[w]] = new]
              \/ /\ DeleteRow(w) /\ subject[w] \in Peer
                 /\ row' = [row EXCEPT ![subject[w]] = None]
<1>1. ASSUME NEW w \in Worker, NEW unused, NEW running, NEW how,
             Begin(w, unused, running) \/ FlushFails(w) \/ Reread(w) \/ CallReturns(w, how)
      PROVE  UNCHANGED row
  <2>1. ASSUME NEW p \in Peer,
               \/ Redeploy(w, p, running) \/ Delete(w, p, running)
               \/ \E c \in Config : Edit(w, p, c, running)
               \/ \E n \in Node, c \in Config : Create(w, p, n, c)
               \/ \E n \in Node, c \in Config, s \in Statuses : Save(w, p, n, c, s)
        PROVE  UNCHANGED row
    BY <2>1 DEF Create, Edit, Save, Redeploy, Delete, Start
  <2>2. Begin(w, unused, running) => UNCHANGED row
    BY <2>1 DEF Begin
  <2>3. Begin(w, unused, running) \/ UNCHANGED row
    BY <1>1 DEF FlushFails, Reread, CallReturns
  <2> QED
    BY <2>2, <2>3
<1>2. ASSUME NEW w \in Worker, Flush(w)
      PROVE  /\ subject[w] \in Peer /\ Flushed(w) \in Row
             /\ ~PeerOnNode(Flushed(w).node, subject[w])
             /\ row' = [row EXCEPT ![subject[w]] = Flushed(w)]
  BY <1>2, FlushedType DEF Flush, FlushRefused
<1>3. ASSUME NEW w \in Worker, Write(w), ~UNCHANGED row
      PROVE  /\ subject[w] \in Peer /\ row[subject[w]] # None
             /\ \E new \in Row : new.node = row[subject[w]].node
                                 /\ row' = [row EXCEPT ![subject[w]] = new]
  <2>1. row[subject[w]] # None /\ pc[w] = "write" /\ subject[w] \in Peer
    BY <1>3 DEF Write, WorkInv
  <2> QED
    BY <1>3, <2>1, WrittenType DEF Write
<1>4. ASSUME NEW w \in Worker, DeleteRow(w)
      PROVE  subject[w] \in Peer /\ row' = [row EXCEPT ![subject[w]] = None]
  BY <1>4 DEF DeleteRow, WorkInv
<1>5. BackendRestarts \/ UNCHANGED backendVars => UNCHANGED row
  BY DEF BackendRestarts, backendVars
<1> QED
  BY <1>1, <1>2, <1>3, <1>4, <1>5 DEF BackendStep, Continue

(* No step puts a second peer of the ASN on a node. *)
LEMMA OneStep ==
  ASSUME BackendTypeOK, WorkInv, OnePeerPerNode, BackendStep
  PROVE  OnePeerPerNode'
<1>1. CASE UNCHANGED row
  BY <1>1 DEF OnePeerPerNode
<1>2. ASSUME NEW w \in Worker, subject[w] \in Peer, Flushed(w) \in Row,
             ~PeerOnNode(Flushed(w).node, subject[w]),
             row' = [row EXCEPT ![subject[w]] = Flushed(w)]
      PROVE  OnePeerPerNode'
  BY <1>2 DEF BackendTypeOK, OnePeerPerNode, PeerOnNode
<1>3. ASSUME NEW p \in Peer, NEW new, row[p] # None, new.node = row[p].node,
             row' = [row EXCEPT ![p] = new]
      PROVE  OnePeerPerNode'
  BY <1>3 DEF BackendTypeOK, OnePeerPerNode
<1>4. ASSUME NEW p \in Peer, row' = [row EXCEPT ![p] = None]
      PROVE  OnePeerPerNode'
  BY <1>4 DEF BackendTypeOK, OnePeerPerNode
<1> QED
  BY <1>1, <1>2, <1>3, <1>4, RowSteps

-----------------------------------------------------------------------------
(* What decides whether an operation is the one that will overwrite a "deploying" row. *)
Same(w) == pc'[w] = pc[w] /\ subject'[w] = subject[w] /\ intent'[w] = intent[w] /\ seen'[w] = seen[w]

LEMMA DeploysKept ==
  ASSUME NEW w \in Worker, NEW p \in Peer, Deploys(w, p), Same(w)
  PROVE  Deploys(w, p)'
BY DEF Deploys, Same

LEMMA EndLeavesOthers ==
  ASSUME BackendTypeOK, NEW v \in Worker, End(v)
  PROVE  \A w \in Worker \ {v} : Same(w)
BY DEF End, BackendTypeOK, Same

LEMMA OrphanLeavesOthers ==
  ASSUME BackendTypeOK, NEW v \in Worker, OrphanOrEnd(v)
  PROVE  \A w \in Worker \ {v} : Same(w)
<1>1. CASE End(v)
  BY <1>1, EndLeavesOthers
<1>2. CASE ~End(v)
  BY <1>2 DEF OrphanOrEnd, BackendTypeOK, Same
<1> QED
  BY <1>1, <1>2

(* An operation that begins has been idle, and marks no row. *)
LEMMA BeginProgress ==
  ASSUME BackendTypeOK, WorkInv, ProgressInv, NEW v \in Worker, NEW unused, NEW running,
         Begin(v, unused, running)
  PROVE  ProgressInv'
<1>1. ASSUME NEW p \in Peer,
             \/ Redeploy(v, p, running) \/ Delete(v, p, running)
             \/ \E c \in Config : Edit(v, p, c, running)
             \/ \E n \in Node, c \in Config : Create(v, p, n, c)
             \/ \E n \in Node, c \in Config, s \in Statuses : Save(v, p, n, c, s)
      PROVE  /\ pc[v] = "idle" /\ UNCHANGED row
             /\ cut' = cut \/ (cut' = cut \ {p} /\ row[p] = None)
             /\ \A w \in Worker \ {v} : Same(w)
  <2>1. CASE Delete(v, p, running)
    BY <2>1 DEF Delete, Overlap, BackendTypeOK, Same
  <2>2. ASSUME NEW wanted, NEW what, Start(v, p, wanted, what)
        PROVE  pc[v] = "idle" /\ UNCHANGED row /\ \A w \in Worker \ {v} : Same(w)
    BY <2>2 DEF Start, BackendTypeOK, Same
  <2>3. \/ cut' = cut
        \/ cut' = cut \ {p} /\ row[p] = None
    BY <1>1 DEF Create, Edit, Save, Redeploy, Delete, Overlap
  <2>4. Delete(v, p, running) \/ \E wanted, what : Start(v, p, wanted, what)
    BY <1>1 DEF Create, Edit, Save, Redeploy
  <2> QED
    BY <2>1, <2>2, <2>3, <2>4
<1>2. /\ pc[v] = "idle" /\ UNCHANGED row
      /\ \E p \in Peer : cut' = cut \/ (cut' = cut \ {p} /\ row[p] = None)
      /\ \A w \in Worker \ {v} : Same(w)
  BY <1>1 DEF Begin
<1>3. \A q \in Peer : ~Deploys(v, q)
  BY <1>2 DEF Deploys
<1>4. \A q \in Peer \ cut' : row[q] # None => q \notin cut
  BY <1>2
<1> QED
  BY <1>2, <1>3, <1>4, DeploysKept DEF ProgressInv

(* The first transaction marks the row only for a deployment, which goes on. *)
LEMMA FlushProgress ==
  ASSUME BackendTypeOK, WorkInv, ProgressInv, NEW v \in Worker, Flush(v) \/ FlushFails(v)
  PROVE  ProgressInv'
<1>1. cut' = cut /\ pc[v] = "flush" /\ \A q \in Peer : ~Deploys(v, q)
  BY DEF Flush, FlushFails, history, Deploys
<1>2. \A w \in Worker \ {v} : Same(w)
  <2>1. CASE End(v)
    BY <2>1, EndLeavesOthers
  <2>2. CASE ~End(v)
    BY <2>2 DEF Flush, FlushFails, BackendTypeOK, Same
  <2> QED
    BY <2>1, <2>2
<1>3. CASE FlushFails(v)
  BY <1>1, <1>2, <1>3, DeploysKept DEF FlushFails, ProgressInv
<1>4. CASE Flush(v)
  <2> DEFINE p0 == subject[v]
  <2>1. p0 \in Peer /\ Flushed(v) \in Row /\ row' = [row EXCEPT ![p0] = Flushed(v)]
    BY <1>4, FlushedType DEF Flush
  <2>2. CASE intent[v] = "deploy"
    <3>1. \A q \in Peer : q = p0 => Deploys(v, q)'
      BY <1>4, <2>2 DEF Flush, BackendTypeOK, Deploys
    <3>2. \A q \in Peer \ {p0} : row'[q] = row[q]
      BY <2>1 DEF BackendTypeOK
    <3>3. ASSUME NEW q \in Peer \ cut', row'[q] # None, row'[q].deploy = "deploying"
          PROVE  \E w \in Worker : Deploys(w, q)'
      <4>1. CASE q = p0
        BY <3>1, <4>1
      <4>2. CASE q # p0
        <5>1. PICK w \in Worker : Deploys(w, q)
          BY <1>1, <3>2, <3>3, <4>2 DEF ProgressInv
        <5> QED
          BY <1>1, <1>2, <5>1, DeploysKept
      <4> QED
        BY <4>1, <4>2
    <3> QED
      BY <3>3 DEF ProgressInv
  <2>3. CASE intent[v] # "deploy"
    <3>1. seen[v] \in Row /\ plan[v] \in Row /\ plan[v].deploy = seen[v].deploy
          /\ row[p0] \in Row
      BY <1>1, <1>4, <2>1, <2>3 DEF WorkInv, Flush, FlushRefused, BackendTypeOK
    <3>2. Flushed(v) = Merge(row[p0], seen[v], plan[v])
      BY <3>1 DEF Flushed
    <3>3. Flushed(v).deploy = row[p0].deploy
      BY <3>1, <3>2, MergeType
    <3>4. \A q \in Peer : row'[q] # None /\ row'[q].deploy = "deploying"
                            => row[q] # None /\ row[q].deploy = "deploying"
      BY <2>1, <3>1, <3>3 DEF BackendTypeOK
    <3> QED
      BY <1>1, <1>2, <3>4, DeploysKept DEF ProgressInv
  <2> QED
    BY <2>2, <2>3
<1> QED
  BY <1>3, <1>4

(* The deploying operation sees the mark when it reads its row again. *)
LEMMA RereadProgress ==
  ASSUME BackendTypeOK, WorkInv, ProgressInv, NEW v \in Worker, Reread(v)
  PROVE  ProgressInv'
<1>1. cut' = cut /\ UNCHANGED row /\ pc[v] \in {"saved", "answered"}
  BY DEF Reread, history
<1>2. \A w \in Worker \ {v} : Same(w)
  <2>1. CASE End(v) \/ OrphanOrEnd(v)
    BY <2>1, EndLeavesOthers, OrphanLeavesOthers
  <2>2. CASE ~(End(v) \/ OrphanOrEnd(v))
    BY <2>2 DEF Reread, BackendTypeOK, Same
  <2> QED
    BY <2>1, <2>2
<1>3. ASSUME NEW p \in Peer, Deploys(v, p), row[p] # None, row[p].deploy = "deploying"
      PROVE  Deploys(v, p)'
  <2>1. subject[v] = p /\ intent[v] = "deploy" /\ pc[v] = "answered"
    BY <1>1, <1>3 DEF Deploys
  <2>2. pc'[v] = "write" /\ seen'[v] = row[p] /\ UNCHANGED <<subject, intent>>
    BY <1>3, <2>1 DEF Reread, BackendTypeOK
  <2> QED
    BY <1>3, <2>1, <2>2 DEF Deploys
<1> QED
  BY <1>1, <1>2, <1>3, DeploysKept DEF ProgressInv

(* The second transaction removes the mark its session has seen. *)
LEMMA WriteProgress ==
  ASSUME BackendTypeOK, WorkInv, ProgressInv, NEW v \in Worker, Write(v)
  PROVE  ProgressInv'
<1> DEFINE p0 == subject[v]
<1>1. cut' = cut /\ pc[v] = "write" /\ p0 \in Peer
  BY DEF Write, WorkInv
<1>2. \A w \in Worker \ {v} : Same(w)
  BY EndLeavesOthers, OrphanLeavesOthers DEF Write
<1>3. \A q \in Peer \ {p0} : row'[q] = row[q] /\ ~Deploys(v, q)
  BY <1>1 DEF Write, BackendTypeOK, Deploys
<1>4. ASSUME row'[p0] # None, row'[p0].deploy = "deploying"
      PROVE  row[p0] # None /\ row[p0].deploy = "deploying" /\ ~Deploys(v, p0)
  <2>1. row[p0] # None
    BY <1>1, <1>4 DEF Write, BackendTypeOK
  <2>2. Verdict(v) # "deploying"
    BY DEF Verdict
  <2> DEFINE new == Merge(row[p0], seen[v], [seen[v] EXCEPT !.deploy = Verdict(v)])
  <2>3. row'[p0] = new
    BY <1>1, <2>1 DEF Write, BackendTypeOK
  <2>4. new.deploy = IF Verdict(v) # seen[v].deploy THEN Verdict(v) ELSE row[p0].deploy
    BY <1>1, <2>1, WrittenType
  <2>5. seen[v].deploy # "deploying" /\ row[p0].deploy = "deploying"
    BY <1>4, <2>2, <2>3, <2>4
  <2> QED
    BY <1>1, <2>1, <2>5 DEF Deploys
<1> QED
  BY <1>1, <1>2, <1>3, <1>4, DeploysKept DEF ProgressInv

(* A call that ends leaves its deployment in progress. *)
LEMMA CallProgress ==
  ASSUME BackendTypeOK, WorkInv, ProgressInv, NEW v \in Worker, NEW how \in {"ok", "failed"},
         CallReturns(v, how)
  PROVE  ProgressInv'
<1>1. cut' = cut /\ UNCHANGED row /\ CallEnds(v, how)
  BY DEF CallReturns
<1>2. CASE pc[v] = "orphan" /\ End(v)
  <2>1. \A q \in Peer : ~Deploys(v, q)
    BY <1>2 DEF Deploys
  <2> QED
    BY <1>1, <1>2, <2>1, EndLeavesOthers, DeploysKept DEF ProgressInv
<1>3. CASE ~(pc[v] = "orphan" /\ End(v))
  <2>1. pc[v] = "calling" /\ (\A w \in Worker \ {v} : Same(w)) /\ UNCHANGED <<subject, intent>>
    BY <1>1, <1>3 DEF CallEnds, BackendTypeOK, Same
  <2>2. intent[v] = "deploy" => pc'[v] = "answered"
    BY <1>1, <1>3 DEF CallEnds, BackendTypeOK
  <2>3. \A q \in Peer : Deploys(v, q) => Deploys(v, q)'
    BY <2>1, <2>2 DEF Deploys
  <2> QED
    BY <1>1, <2>1, <2>3, DeploysKept DEF ProgressInv
<1> QED
  BY <1>2, <1>3

(* Every "deploying" row has a deployment in progress after every step. *)
LEMMA ProgressStep ==
  ASSUME BackendTypeOK, WorkInv, ProgressInv, BackendStep
  PROVE  ProgressInv'
<1>1. ASSUME NEW v \in Worker, DeleteRow(v)
      PROVE  ProgressInv'
  <2>1. cut' = cut /\ pc[v] = "delete" /\ row' = [row EXCEPT ![subject[v]] = None]
        /\ \A w \in Worker \ {v} : Same(w)
    BY <1>1, EndLeavesOthers DEF DeleteRow, history
  <2>2. \A q \in Peer : ~Deploys(v, q) /\ (row'[q] # None => row'[q] = row[q])
    BY <2>1 DEF Deploys, BackendTypeOK
  <2> QED
    BY <2>1, <2>2, DeploysKept DEF ProgressInv
<1>2. CASE BackendRestarts
  <2>1. UNCHANGED row /\ cut \subseteq cut'
        /\ \A w \in Worker : pc[w] # "idle" => subject[w] \in cut'
    BY <1>2 DEF BackendRestarts
  <2>2. \A p \in Peer, w \in Worker : Deploys(w, p) => p \in cut'
    BY <2>1 DEF Deploys
  <2> QED
    BY <2>1, <2>2 DEF ProgressInv
<1>3. CASE UNCHANGED backendVars
  BY <1>3, DeploysKept DEF backendVars, workerVars, history, Same, ProgressInv
<1> QED
  BY <1>1, <1>2, <1>3, BeginProgress, FlushProgress, RereadProgress, WriteProgress, CallProgress
     DEF BackendStep, Continue

-----------------------------------------------------------------------------
\* IInv is an inductive invariant of PeerLifecycle.
THEOREM Invariance == SafeSpec => []IInv
<1>1. Init => IInv
  BY DEF Init, BackendInit, IInv, TypeOK, BackendTypeOK, Content, WorkInv, OnePeerPerNode, ProgressInv
<1>2. IInv /\ [Next]_vars => IInv'
  BY BackendSteps, TypeStep, OneStep, ProgressStep DEF IInv, TypeOK
<1> QED
  BY <1>1, <1>2, PTL DEF SafeSpec

\* Every variable keeps its type.
THEOREM TypeCorrect == SafeSpec => []TypeOK
BY Invariance, PTL DEF IInv

\* create_peer and update_peer never leave two peers of an ASN on one node, however the
\* operations of many threads interleave.
THEOREM OnePeer == SafeSpec => []OnePeerPerNode
BY Invariance, PTL DEF IInv

\* A row that says "deploying" has an operation at work that will overwrite it, unless a
\* restart ended that operation.
THEOREM Progress == SafeSpec => []DeployingIsInProgress
<1>1. ProgressInv => DeployingIsInProgress
  BY DEF ProgressInv, DeployingIsInProgress, Deploys
<1> QED
  BY <1>1, Invariance, PTL DEF IInv

-----------------------------------------------------------------------------
(* A quiet row tells the truth. *)

\* Worker w's operation is under way and about p.
Works(w, p) == pc[w] # "idle" /\ subject[w] = p

\* What QuietRowIsTrue says of node n.
Truth(p, n) ==
  IF row[p] # None /\ row[p].node = n /\ row[p].deploy = "deployed"
    THEN p \in unsaved \/ installed[n][p] = row[p].config
    ELSE installed[n][p] = None

\* The nodes of which nobody doubts what they have of p.
Sure(p) == {n \in Node : <<p, n>> \notin doubtful}

\* What worker w has established at its step, when nobody else works on its peer: the row is
\* as it saw it, and which of the sure nodes may still be wrong.  Before the flush that is
\* one that an operation without a move is about to call.
FlushOK(w, p) ==
  /\ seen[w] = row[p]
  /\ \A n \in Sure(p) :
       \/ Truth(p, n)
       \/ row[p] # None /\ intent[w] # "none" /\ n = row[p].node /\ plan[w].node = n
  /\ intent[w] = "deploy" =>
       /\ plan[w].deploy = "deploying" /\ left[w] = None
       /\ row[p] # None => plan[w].node = row[p].node
  /\ intent[w] # "deploy" =>
       left[w] = IF plan[w].node # row[p].node THEN row[p].node ELSE None

SavedOK(w, p) ==
  /\ left[w] # row[p].node
  /\ \A n \in Sure(p) \ {left[w]} : Truth(p, n)

CallingOK(w, p) ==
  /\ left[w] # row[p].node
  /\ intent[w] # "remove" => left[w] = None
  /\ call[w].node = row[p].node
  /\ call[w].goal = IF intent[w] = "deploy" THEN row[p].config ELSE None
  /\ verdict[w] = "ok" /\ call[w].node \in Sure(p) => installed[call[w].node][p] = call[w].goal
  /\ \A n \in Sure(p) \ {left[w], row[p].node} : installed[n][p] = None

AnsweredOK(w, p) ==
  /\ left[w] # row[p].node
  /\ intent[w] = "deploy" => left[w] = None
  /\ row[p].node \in Sure(p) => result[w] = "ok"
  /\ pc[w] = "write" => seen[w] = row[p]
  /\ \A n \in Sure(p) \ {left[w]} :
       installed[n][p] = IF intent[w] = "deploy" /\ n = row[p].node THEN row[p].config ELSE None

OrphanOK(w, p) ==
  /\ call[w].node # row[p].node /\ call[w].goal = None
  /\ verdict[w] = "ok" /\ call[w].node \in Sure(p) => installed[call[w].node][p] = None
  /\ \A n \in Sure(p) \ {call[w].node} : Truth(p, n)

StageOK(w, p) ==
  /\ pc[w] # "flush" => row[p] # None
  /\ pc[w] = "flush" => FlushOK(w, p)
  /\ pc[w] = "saved" => SavedOK(w, p)
  /\ pc[w] = "calling" => CallingOK(w, p)
  /\ pc[w] \in {"answered", "write"} => AnsweredOK(w, p)
  /\ pc[w] = "orphan" => OrphanOK(w, p)
  /\ pc[w] = "delete" => \A n \in Sure(p) : installed[n][p] = None

\* A peer that some node is sure of has at most one worker, no late call about it is at such
\* a node, and its row tells the truth of these nodes or will when that worker ends.
PeerOK(p) ==
  /\ \A k \in late : k.peer = p => k.node \notin Sure(p)
  /\ \A w, v \in Worker : Works(w, p) /\ Works(v, p) => w = v
  /\ \A w \in Worker : Works(w, p) => StageOK(w, p)
  /\ (\A w \in Worker : ~Works(w, p)) => \A n \in Sure(p) : Truth(p, n)

\* Calls are about the worker's peer; idle workers take nothing away.
HoldInv == \A w \in Worker :
  /\ call[w] # None => call[w].peer = subject[w]
  /\ pc[w] = "idle" => left[w] = None

\* A node's verdict is about a call that has not ended.
VerdictInv == \A w \in Worker : call[w] = None => verdict[w] = "none"

QuietInv == \A p \in Peer : Sure(p) # {} => PeerOK(p)

-----------------------------------------------------------------------------
(* What a step leaves alone. *)
SameWork(w) ==
  /\ pc'[w] = pc[w] /\ subject'[w] = subject[w] /\ intent'[w] = intent[w] /\ seen'[w] = seen[w]
  /\ plan'[w] = plan[w] /\ left'[w] = left[w] /\ call'[w] = call[w] /\ result'[w] = result[w]

SameCall(w) ==
  /\ SameWork(w)
  /\ verdict'[w] = verdict[w] \/ <<subject[w], call[w].node>> \in doubtful'

SamePeer(p) ==
  /\ row'[p] = row[p]
  /\ Sure(p)' \subseteq Sure(p)
  /\ \A n \in Sure(p)' : installed[n][p] # Mixed => installed'[n][p] = installed[n][p]
  /\ p \in unsaved' <=> p \in unsaved
  /\ \A k \in late' : k.peer = p => k \in late \/ k.node \notin Sure(p)'

LEMMA TruthKept ==
  ASSUME BackendTypeOK, NEW p \in Peer, NEW n \in Sure(p)', SamePeer(p), Truth(p, n)
  PROVE  Truth(p, n)'
<1>1. row[p] # None => row[p].config # Mixed
  BY DEF BackendTypeOK
<1> QED
  BY <1>1 DEF SamePeer, Truth

(* An operation that does not move still holds what it held of a peer that does not change. *)
LEMMA StageKept ==
  ASSUME BackendTypeOK, WorkInv, NEW w \in Worker, NEW p \in Peer,
         Works(w, p), StageOK(w, p), SameCall(w), SamePeer(p)
  PROVE  StageOK(w, p)'
<1> DEFINE before == Sure(p)
           after == Sure(p)'
<1>0. /\ row[p] # None => row[p].config # Mixed /\ row[p].node \in Node
      /\ after \subseteq before
  BY DEF BackendTypeOK, SamePeer
<1>1. \A n \in after : Truth(p, n) => Truth(p, n)'
  BY TruthKept
<1>2. \A n \in after : installed[n][p] # Mixed => installed'[n][p] = installed[n][p]
  BY DEF SamePeer
<1>3. SameWork(w) /\ row'[p] = row[p] /\ (call[w].node \in after => verdict'[w] = verdict[w])
  BY DEF SameCall, SamePeer, SameWork, Works, Sure
<1> HIDE DEF before, after
<1>4. FlushOK(w, p) => FlushOK(w, p)'
  BY <1>0, <1>1, <1>3 DEF FlushOK, SameWork, before, after
<1>5. SavedOK(w, p) => SavedOK(w, p)'
  BY <1>0, <1>1, <1>3 DEF SavedOK, SameWork, before, after
<1>6. row[p] # None /\ CallingOK(w, p) => CallingOK(w, p)'
  BY <1>0, <1>2, <1>3 DEF CallingOK, SameWork, before, after
<1>7. row[p] # None /\ AnsweredOK(w, p) => AnsweredOK(w, p)'
  BY <1>0, <1>2, <1>3 DEF AnsweredOK, SameWork, before, after
<1>8. OrphanOK(w, p) => OrphanOK(w, p)'
  BY <1>0, <1>1, <1>2, <1>3 DEF OrphanOK, SameWork, before, after
<1>9. (\A n \in before : installed[n][p] = None) => \A n \in after : installed'[n][p] = None
  BY <1>0, <1>2
<1>10. pc'[w] = pc[w] /\ row'[p] = row[p]
  BY <1>3 DEF SameWork
<1> QED
  BY <1>4, <1>5, <1>6, <1>7, <1>8, <1>9, <1>10 DEF StageOK, before, after

LEMMA PeerKept ==
  ASSUME BackendTypeOK, WorkInv, NEW p \in Peer, PeerOK(p), SamePeer(p),
         \A w \in Worker : SameCall(w) \/ (~Works(w, p) /\ ~Works(w, p)')
  PROVE  PeerOK(p)'
<1>1. \A w \in Worker : Works(w, p)' <=> Works(w, p)
  BY DEF SameWork, SameCall, Works
<1>2. \A w \in Worker : Works(w, p)' => StageOK(w, p)'
  BY <1>1, StageKept DEF PeerOK
<1>3. (\A w \in Worker : ~Works(w, p)') => \A n \in Sure(p)' : Truth(p, n)'
  BY <1>1, TruthKept DEF PeerOK, SamePeer
<1>4. \A k \in late' : k.peer = p => k.node \notin Sure(p)'
  BY DEF PeerOK, SamePeer
<1> QED
  BY <1>1, <1>2, <1>3, <1>4 DEF PeerOK

(* A step of worker v disturbs the peer p of its operation, and no other. *)
Disturbs(v, p) ==
  /\ \A w \in Worker \ {v} : SameCall(w)
  /\ \A q \in Peer \ {p} : SamePeer(q) /\ ~Works(v, q) /\ ~Works(v, q)'

LEMMA OnlyOne ==
  ASSUME BackendTypeOK, WorkInv, QuietInv, NEW v \in Worker, NEW p \in Peer, Disturbs(v, p),
         Sure(p)' # {} => PeerOK(p)'
  PROVE  QuietInv'
<1>1. ASSUME NEW q \in Peer \ {p}, Sure(q)' # {}
      PROVE  PeerOK(q)'
  <2>1. SamePeer(q) /\ Sure(q) # {}
    BY <1>1 DEF Disturbs, SamePeer
  <2> QED
    BY <1>1, <2>1, PeerKept DEF Disturbs, QuietInv
<1> QED
  BY <1>1 DEF QuietInv

(* An operation under way is alone with a peer that a node is sure of, and hands it on as it
   should be. *)
LEMMA OwnPeer ==
  ASSUME BackendTypeOK, WorkInv, QuietInv, NEW v \in Worker, NEW p \in Peer,
         Disturbs(v, p), Works(v, p), doubtful \subseteq doubtful',
         \A k \in late' : k \in late \/ <<k.peer, k.node>> \in doubtful',
         StageOK(v, p) => IF Works(v, p)' THEN StageOK(v, p)'
                                          ELSE \A n \in Sure(p)' : Truth(p, n)'
  PROVE  QuietInv'
<1>1. ASSUME Sure(p)' # {}
      PROVE  PeerOK(p)'
  <2>1. Sure(p)' \subseteq Sure(p)
    BY DEF Sure
  <2>2. PeerOK(p)
    BY <1>1, <2>1 DEF QuietInv
  <2>3. \A w \in Worker \ {v} : ~Works(w, p)'
    BY <2>2 DEF PeerOK, Disturbs, SameCall, SameWork, Works
  <2>4. \A k \in late' : k.peer = p => k.node \notin Sure(p)'
    BY <2>1, <2>2 DEF PeerOK, Sure
  <2> QED
    BY <2>2, <2>3, <2>4 DEF PeerOK
<1> QED
  BY <1>1, OnlyOne

-----------------------------------------------------------------------------
(* HoldInv is kept. *)
LEMMA EndHolds ==
  ASSUME BackendTypeOK, HoldInv, NEW v \in Worker, End(v)
  PROVE  /\ HoldInv'
         /\ pc'[v] = "idle"
         /\ \A w \in Worker \ {v} : SameWork(w)
BY DEF End, BackendTypeOK, HoldInv, SameWork

LEMMA OrphanHolds ==
  ASSUME BackendTypeOK, HoldInv, NEW v \in Worker, OrphanOrEnd(v)
  PROVE  /\ HoldInv'
         /\ \A w \in Worker \ {v} : SameWork(w)
         /\ \/ left[v] = None /\ pc'[v] = "idle"
            \/ /\ left[v] # None /\ pc'[v] = "orphan" /\ subject'[v] = subject[v]
               /\ call'[v] = [peer |-> subject[v], node |-> left[v], goal |-> None]
<1>1. CASE left[v] = None /\ End(v)
  BY <1>1, EndHolds
<1>2. CASE ~(left[v] = None /\ End(v))
  <2>1. /\ left[v] # None /\ UNCHANGED subject
        /\ pc' = [pc EXCEPT ![v] = "orphan"]
        /\ call' = [call EXCEPT ![v] = [peer |-> subject[v], node |-> left[v], goal |-> None]]
        /\ seen' = [seen EXCEPT ![v] = None] /\ plan' = [plan EXCEPT ![v] = None]
        /\ intent' = [intent EXCEPT ![v] = "none"] /\ left' = [left EXCEPT ![v] = None]
        /\ result' = [result EXCEPT ![v] = "none"]
    BY <1>2 DEF OrphanOrEnd
  <2>2. /\ \A w \in Worker \ {v} : SameWork(w)
        /\ pc'[v] = "orphan" /\ subject'[v] = subject[v]
        /\ call'[v] = [peer |-> subject[v], node |-> left[v], goal |-> None]
    BY <2>1 DEF BackendTypeOK, SameWork
  <2>3. HoldInv'
    BY <2>2 DEF HoldInv, SameWork
  <2> QED
    BY <2>1, <2>2, <2>3
<1> QED
  BY <1>1, <1>2

LEMMA StartHolds ==
  ASSUME BackendTypeOK, WorkInv, HoldInv, NEW v \in Worker, NEW p \in Peer, NEW wanted, NEW what,
         Start(v, p, wanted, what),
         \A w \in Worker \ {v} : left'[w] = left[w]
  PROVE  /\ HoldInv' /\ pc[v] = "idle"
         /\ pc'[v] = "flush" /\ subject'[v] = p
         /\ intent'[v] = what /\ seen'[v] = row[p] /\ plan'[v] = wanted
         /\ UNCHANGED row
         /\ \A w \in Worker \ {v} : SameWork(w)
<1>1. /\ pc[v] = "idle" /\ pc'[v] = "flush" /\ subject'[v] = p
      /\ intent'[v] = what /\ seen'[v] = row[p] /\ plan'[v] = wanted
      /\ UNCHANGED <<row, call>>
      /\ \A w \in Worker \ {v} : SameWork(w)
  BY DEF Start, BackendTypeOK, SameWork
<1>2. call[v] = None
  BY <1>1 DEF WorkInv
<1>3. HoldInv'
  BY <1>1, <1>2 DEF HoldInv, SameWork
<1> QED
  BY <1>1, <1>3

LEMMA CallEndsHolds ==
  ASSUME BackendTypeOK, HoldInv, NEW v \in Worker, NEW how \in {"ok", "failed"}, CallEnds(v, how)
  PROVE  /\ HoldInv'
         /\ \A w \in Worker \ {v} : SameWork(w)
         /\ \/ pc[v] = "orphan" /\ pc'[v] = "idle"
            \/ /\ pc[v] = "calling" /\ subject'[v] = subject[v] /\ intent'[v] = intent[v]
               /\ left'[v] = left[v]
               /\ \/ intent[v] = "delete" /\ pc'[v] = "delete"
                  \/ intent[v] # "delete" /\ pc'[v] = "answered" /\ result'[v] = how
<1>1. CASE pc[v] = "orphan" /\ End(v)
  BY <1>1, EndHolds
<1>2. CASE ~(pc[v] = "orphan" /\ End(v))
  <2>1. /\ pc[v] = "calling" /\ call' = [call EXCEPT ![v] = None]
        /\ \/ intent[v] = "delete" /\ pc' = [pc EXCEPT ![v] = "delete"] /\ UNCHANGED result
           \/ /\ intent[v] # "delete" /\ pc' = [pc EXCEPT ![v] = "answered"]
              /\ result' = [result EXCEPT ![v] = how]
        /\ UNCHANGED <<subject, intent, seen, plan, left>>
    BY <1>2 DEF CallEnds
  <2>2. /\ \A w \in Worker \ {v} : SameWork(w)
        /\ pc'[v] # "idle" /\ call'[v] = None
        /\ \/ intent[v] = "delete" /\ pc'[v] = "delete"
           \/ intent[v] # "delete" /\ pc'[v] = "answered" /\ result'[v] = how
    BY <2>1 DEF BackendTypeOK, SameWork
  <2>3. HoldInv'
    BY <2>2 DEF HoldInv, SameWork
  <2> QED
    BY <2>1, <2>2, <2>3
<1> QED
  BY <1>1, <1>2

-----------------------------------------------------------------------------
(* An operation begins: the peer is in doubt everywhere, or was not at work and true of the nodes
   that were sure of it. *)
LEMMA BeginsQuietly ==
  ASSUME BackendTypeOK, WorkInv, QuietInv, NEW v \in Worker, NEW p \in Peer,
         NEW renewed \in SUBSET ({p} \X Node), Overlap(p, renewed),
         \A k \in late : <<k.peer, k.node>> \notin renewed,
         pc[v] = "idle", pc'[v] # "idle", subject'[v] = p, UNCHANGED <<row, nodeVars>>,
         \A w \in Worker \ {v} : SameWork(w),
         ~Busy(p) /\ (\A n \in Sure(p) : Truth(p, n)) => StageOK(v, p)'
  PROVE  QuietInv'
<1>1. Disturbs(v, p)
  <2>1. \A q \in Peer \ {p} : Sure(q)' = Sure(q)
    BY DEF Overlap, Sure
  <2> QED
    BY <2>1 DEF Overlap, Disturbs, SameCall, SamePeer, Works, nodeVars
<1>2. ASSUME Sure(p)' # {}
      PROVE  PeerOK(p)'
  <2>1. ~Busy(p) /\ doubtful' = doubtful \ renewed
    BY <1>2 DEF Overlap, Sure
  <2>2. Works(v, p)' /\ \A w \in Worker \ {v} : ~Works(w, p)'
    BY <2>1 DEF SameWork, Works, Busy
  <2>3. \A n \in Sure(p) : Truth(p, n)
    BY <2>1 DEF QuietInv, PeerOK, Busy, Works
  <2>4. StageOK(v, p)'
    BY <2>1, <2>3
  <2>5. ASSUME NEW k \in late', k.peer = p
        PROVE  k.node \notin Sure(p)'
    <3>1. k \in late /\ <<p, k.node>> \notin renewed
      BY <2>5 DEF nodeVars
    <3>2. k.node \notin Sure(p)
      BY <2>5, <3>1 DEF QuietInv, PeerOK
    <3> QED
      BY <2>1, <3>1, <3>2 DEF Sure
  <2> QED
    BY <2>2, <2>4, <2>5 DEF PeerOK
<1> QED
  BY <1>1, <1>2, OnlyOne

LEMMA CreateQuiet ==
  ASSUME BackendTypeOK, WorkInv, HoldInv, VerdictInv, QuietInv,
         NEW v \in Worker, NEW p \in Peer, NEW n \in Node, NEW c \in Config, Create(v, p, n, c),
         p \in Unused, UNCHANGED nodeVars
  PROVE  HoldInv' /\ QuietInv'
<1> DEFINE wanted == [node |-> n, config |-> c, status |-> "approved", deploy |-> "deploying"]
<1>1. /\ Start(v, p, wanted, "deploy") /\ UNCHANGED left /\ row[p] = None /\ ~Busy(p)
      /\ doubtful' = doubtful \ ({p} \X Node) /\ unsaved' = unsaved \ {p}
  BY DEF Create
<1>2. /\ HoldInv' /\ pc[v] = "idle" /\ pc'[v] = "flush" /\ subject'[v] = p
      /\ intent'[v] = "deploy" /\ seen'[v] = row[p] /\ plan'[v] = wanted
      /\ UNCHANGED row
      /\ \A w \in Worker \ {v} : SameWork(w)
  BY <1>1, StartHolds
<1>3. Disturbs(v, p)
  <2>1. \A q \in Peer \ {p} : Sure(q)' = Sure(q)
    BY <1>1 DEF Sure
  <2> QED
    BY <1>1, <1>2, <2>1 DEF Disturbs, SameCall, SamePeer, Works, nodeVars
<1>4. \A w \in Worker \ {v} : ~Works(w, p)'
  BY <1>1, <1>2 DEF Busy, SameWork, Works
<1>5. /\ row[p] = None /\ UNCHANGED <<installed, late>>
      /\ (\A m \in Node : installed[m][p] = None) /\ \A k \in late : k.peer # p
  BY <1>1 DEF Unused, nodeVars
<1>6. left'[v] = None
  BY <1>1, <1>2 DEF HoldInv
<1>7. FlushOK(v, p)'
  BY <1>2, <1>5, <1>6 DEF FlushOK, Truth, Sure
<1>8. PeerOK(p)'
  BY <1>2, <1>4, <1>5, <1>7 DEF PeerOK, StageOK, Works
<1> QED
  BY <1>2, <1>3, <1>8, OnlyOne

(* The pair an operation renews is about its row's node, and about no late call. *)
LEMMA RenewedPair ==
  ASSUME NEW p \in Peer, row[p] \in Row
  PROVE  /\ Renewed(p, Running) \in SUBSET ({p} \X Node)
         /\ \A n \in Node : <<p, n>> \in Renewed(p, Running) => n = row[p].node
         /\ \A k \in late : <<k.peer, k.node>> \notin Renewed(p, Running)
BY DEF Renewed, Running

(* The other operations that write the row before they call the node. *)
LEMMA StartsQuietly ==
  ASSUME BackendTypeOK, WorkInv, HoldInv, VerdictInv, QuietInv, NEW v \in Worker, NEW p \in Peer,
         NEW wanted \in Row, NEW what \in {"none", "deploy", "remove"},
         Start(v, p, wanted, what), row[p] \in Row, UNCHANGED nodeVars,
         \/ Overlap(p, {})
         \/ Overlap(p, Renewed(p, Running)) /\ what # "none" /\ wanted.node = row[p].node,
         \A w \in Worker \ {v} : left'[w] = left[w],
         what = "deploy" => wanted.deploy = "deploying" /\ wanted.node = row[p].node,
         left'[v] = IF wanted.node # row[p].node THEN row[p].node ELSE None
  PROVE  HoldInv' /\ QuietInv'
<1>1. /\ HoldInv' /\ pc[v] = "idle" /\ pc'[v] = "flush" /\ subject'[v] = p
      /\ intent'[v] = what /\ seen'[v] = row[p] /\ plan'[v] = wanted
      /\ UNCHANGED row
      /\ \A w \in Worker \ {v} : SameWork(w)
  BY StartHolds
<1>2. PICK renewed \in SUBSET ({p} \X Node) :
        /\ Overlap(p, renewed)
        /\ \A n \in Node : <<p, n>> \in renewed =>
             what # "none" /\ n = row[p].node /\ wanted.node = n
        /\ \A k \in late : <<k.peer, k.node>> \notin renewed
  BY RenewedPair
<1>3. ASSUME ~Busy(p), \A n \in Sure(p) : Truth(p, n)
      PROVE  StageOK(v, p)'
  <2>1. \A n \in Sure(p) : Truth(p, n)'
    BY <1>1, <1>2, <1>3 DEF Overlap, Truth, nodeVars
  <2>2. \A n \in Sure(p)' : n \in Sure(p) \/ (n \in Node /\ <<p, n>> \in renewed)
    BY <1>2, <1>3 DEF Overlap, Sure
  <2>3. FlushOK(v, p)'
    BY <1>1, <1>2, <2>1, <2>2 DEF FlushOK
  <2> QED
    BY <1>1, <2>3 DEF StageOK
<1> QED
  BY <1>1, <1>2, <1>3, BeginsQuietly

LEMMA BeginQuiet ==
  ASSUME BackendTypeOK, WorkInv, HoldInv, VerdictInv, QuietInv, NEW v \in Worker,
         Begin(v, Unused, Running), UNCHANGED nodeVars
  PROVE  HoldInv' /\ QuietInv'
<1>1. ASSUME NEW p \in Peer, NEW c \in Config, Edit(v, p, c, Running)
      PROVE  HoldInv' /\ QuietInv'
  <2>1. row[p] \in Row /\ Overlap(p, Renewed(p, Running)) /\ UNCHANGED left
    BY <1>1 DEF Edit, BackendTypeOK
  <2>2. /\ [row[p] EXCEPT !.config = c] \in Row
        /\ [row[p] EXCEPT !.config = c].node = row[p].node
        /\ [row[p] EXCEPT !.config = c, !.deploy = "deploying"] \in Row
        /\ [row[p] EXCEPT !.config = c, !.deploy = "deploying"].node = row[p].node
        /\ [row[p] EXCEPT !.config = c, !.deploy = "deploying"].deploy = "deploying"
    BY <2>1
  <2>3. pc[v] = "idle"
    BY <1>1 DEF Edit, Start
  <2>4. left'[v] = None /\ \A w \in Worker \ {v} : left'[w] = left[w]
    BY <2>1, <2>3 DEF HoldInv
  <2>5. CASE row[p].status = "disabled"
    BY <1>1, <2>1, <2>2, <2>4, <2>5, StartsQuietly DEF Edit
  <2>6. CASE row[p].status # "disabled"
    BY <1>1, <2>1, <2>2, <2>4, <2>6, StartsQuietly DEF Edit
  <2> QED
    BY <2>5, <2>6
<1>2. ASSUME NEW p \in Peer, NEW n \in Node, NEW c \in Config, NEW s \in Statuses,
             Save(v, p, n, c, s)
      PROVE  HoldInv' /\ QuietInv'
  <2> DEFINE wanted == [row[p] EXCEPT !.node = n, !.config = c, !.status = s]
  <2> DEFINE what == IF s = "disabled" THEN "remove" ELSE "none"
  <2>1. row[p] \in Row /\ Overlap(p, {}) /\ Start(v, p, wanted, what)
        /\ left' = [left EXCEPT ![v] = IF row[p].node # n THEN row[p].node ELSE None]
    BY <1>2 DEF Save, BackendTypeOK
  <2>2. wanted \in Row /\ wanted.node = n
    BY <2>1
  <2>3. what \in {"none", "remove"}
    OBVIOUS
  <2>4. left'[v] = (IF n # row[p].node THEN row[p].node ELSE None)
        /\ \A w \in Worker \ {v} : left'[w] = left[w]
    BY <2>1 DEF BackendTypeOK
  <2> HIDE DEF wanted, what
  <2> QED
    BY <2>1, <2>2, <2>3, <2>4, StartsQuietly
<1>3. ASSUME NEW p \in Peer, Redeploy(v, p, Running)
      PROVE  HoldInv' /\ QuietInv'
  <2>1. row[p] \in Row /\ Overlap(p, Renewed(p, Running)) /\ UNCHANGED left
        /\ Start(v, p, [row[p] EXCEPT !.deploy = "deploying"], "deploy")
    BY <1>3 DEF Redeploy, BackendTypeOK
  <2>2. /\ [row[p] EXCEPT !.deploy = "deploying"] \in Row
        /\ [row[p] EXCEPT !.deploy = "deploying"].node = row[p].node
        /\ [row[p] EXCEPT !.deploy = "deploying"].deploy = "deploying"
    BY <2>1
  <2>3. left'[v] = None /\ \A w \in Worker \ {v} : left'[w] = left[w]
    BY <2>1 DEF HoldInv, Start
  <2> QED
    BY <2>1, <2>2, <2>3, StartsQuietly
<1>4. ASSUME NEW p \in Peer, Delete(v, p, Running)
      PROVE  HoldInv' /\ QuietInv'
  <2>1. row[p] \in Row /\ Overlap(p, Renewed(p, Running)) /\ pc[v] = "idle" /\ left[v] = None
    BY <1>4 DEF Delete, BackendTypeOK, HoldInv
  <2>2. /\ pc'[v] = "calling" /\ subject'[v] = p /\ intent'[v] = "delete" /\ left'[v] = None
        /\ call'[v] = [peer |-> p, node |-> row[p].node, goal |-> None]
        /\ verdict'[v] = "none" /\ UNCHANGED <<row, nodeVars>>
        /\ \A w \in Worker \ {v} : SameWork(w)
    BY <1>4, <2>1 DEF Delete, BackendTypeOK, SameWork, nodeVars, WorkInv, VerdictInv
  <2>3. HoldInv'
    BY <2>2 DEF HoldInv, SameWork
  <2>4. ASSUME ~Busy(p), \A n \in Sure(p) : Truth(p, n)
        PROVE  StageOK(v, p)'
    <3>1. \A n \in Sure(p)' \ {row[p].node} : n \in Sure(p)
      BY <2>1, <2>4, RenewedPair DEF Overlap, Sure
    <3>2. \A n \in Sure(p)' \ {row[p].node} : installed[n][p] = None
      BY <2>4, <3>1 DEF Truth
    <3>3. CallingOK(v, p)'
      BY <2>1, <2>2, <3>2 DEF CallingOK, nodeVars
    <3> QED
      BY <2>1, <2>2, <3>3 DEF StageOK
  <2> QED
    BY <2>1, <2>2, <2>3, <2>4, RenewedPair, BeginsQuietly
<1> QED
  BY <1>1, <1>2, <1>3, <1>4, CreateQuiet DEF Begin

-----------------------------------------------------------------------------
(* The first transaction writes what was planned, for the session saw the row as it is. *)
LEMMA FlushedIsPlan ==
  ASSUME BackendTypeOK, WorkInv, NEW v \in Worker, pc[v] = "flush",
         seen[v] = row[subject[v]]
  PROVE  Flushed(v) = plan[v]
<1>1. plan[v] \in Row /\ subject[v] \in Peer
  BY DEF WorkInv
<1>2. CASE seen[v] = None
  BY <1>2 DEF Flushed
<1>3. CASE seen[v] # None
  <2>1. row[subject[v]] \in Row
    BY <1>1, <1>3 DEF BackendTypeOK
  <2>2. /\ Merge(row[subject[v]], seen[v], plan[v]) \in Row
        /\ \A f \in {"node", "config", "status", "deploy"} :
             Merge(row[subject[v]], seen[v], plan[v])[f] = plan[v][f]
    BY <1>1, <2>1, MergeType
  <2> HIDE DEF Row
  <2>3. ASSUME NEW a \in Row, NEW b \in Row,
               \A f \in {"node", "config", "status", "deploy"} : a[f] = b[f]
        PROVE  a = b
    BY <2>3 DEF Row
  <2> QED
    BY <1>1, <1>3, <2>2, <2>3 DEF Flushed
<1> QED
  BY <1>2, <1>3

LEMMA FlushFailsQuiet ==
  ASSUME BackendTypeOK, WorkInv, OnePeerPerNode, HoldInv, QuietInv, NEW v \in Worker,
         FlushFails(v), UNCHANGED nodeVars
  PROVE  HoldInv' /\ QuietInv'
<1>0. PICK p \in Peer : p = subject[v]
  BY DEF FlushFails, WorkInv
<1>1. /\ pc[v] = "flush" /\ End(v) /\ p \in Peer
      /\ UNCHANGED <<row, installed, late, doubtful, unsaved>>
      /\ Sure(p)' = Sure(p)
  BY DEF FlushFails, WorkInv, nodeVars, history, Sure
<1>2. HoldInv' /\ pc'[v] = "idle" /\ \A w \in Worker \ {v} : SameWork(w)
  BY <1>1, EndHolds
<1>3. SamePeer(p) /\ Disturbs(v, p) /\ Works(v, p) /\ ~Works(v, p)'
  BY <1>0, <1>1, <1>2 DEF Disturbs, SameCall, SamePeer, Works, nodeVars, Sure
<1>4. ASSUME StageOK(v, p), NEW n \in Sure(p)'
      PROVE  Truth(p, n)'
  <2>1. seen[v] = row[p] /\ FlushOK(v, p) /\ n \in Sure(p)
    BY <1>1, <1>4 DEF StageOK, FlushOK
  <2>2. PICK q \in Peer \ {p} : row[q] # None /\ row[q].node = plan[v].node
    <3>1. Flushed(v) = plan[v]
      BY <1>0, <1>1, <2>1, FlushedIsPlan
    <3> QED
      BY <1>0, <2>1, <3>1 DEF FlushFails, FlushRefused, PeerOnNode
  <2>3. ~(row[p] # None /\ row[p].node = plan[v].node)
    BY <2>2 DEF OnePeerPerNode
  <2> QED
    BY <1>3, <2>1, <2>3, TruthKept DEF FlushOK
<1> QED
  BY <1>1, <1>2, <1>3, <1>4, OwnPeer

(* What the first transaction does to the worker and to the row. *)
LEMMA FlushEffect ==
  ASSUME BackendTypeOK, WorkInv, HoldInv, NEW v \in Worker, Flush(v)
  PROVE  LET p == subject[v] IN
         /\ pc[v] = "flush" /\ p \in Peer /\ plan[v] \in Row
         /\ row'[p] = Flushed(v) /\ \A q \in Peer \ {p} : row'[q] = row[q]
         /\ UNCHANGED <<subject, intent, left, doubtful>>
         /\ \A w \in Worker \ {v} : SameWork(w)
         /\ HoldInv'
         /\ \/ intent[v] = "none" /\ pc'[v] = "saved" /\ unsaved' = unsaved \union {p}
            \/ /\ intent[v] \in {"deploy", "remove"} /\ pc'[v] = "calling" /\ UNCHANGED unsaved
               /\ call'[v] = [peer |-> p, node |-> plan[v].node,
                              goal |-> IF intent[v] = "deploy" THEN plan[v].config ELSE None]
<1> DEFINE p == subject[v]
<1> DEFINE k == [peer |-> p, node |-> plan[v].node,
                 goal |-> IF intent[v] = "deploy" THEN plan[v].config ELSE None]
<1>1. /\ pc[v] = "flush" /\ p \in Peer /\ plan[v] \in Row
      /\ call[v] = None /\ intent[v] \in {"none", "deploy", "remove"}
  BY DEF Flush, WorkInv
<1>2. row'[p] = Flushed(v) /\ \A q \in Peer \ {p} : row'[q] = row[q]
  BY <1>1 DEF Flush, BackendTypeOK
<1>3. /\ UNCHANGED <<subject, intent, left, result, doubtful>>
      /\ seen' = [seen EXCEPT ![v] = None] /\ plan' = [plan EXCEPT ![v] = None]
  BY DEF Flush
<1>4. \/ /\ intent[v] = "none" /\ pc' = [pc EXCEPT ![v] = "saved"]
         /\ unsaved' = unsaved \union {p} /\ UNCHANGED call
      \/ /\ intent[v] # "none" /\ pc' = [pc EXCEPT ![v] = "calling"]
         /\ call' = [call EXCEPT ![v] = k] /\ UNCHANGED unsaved
  BY DEF Flush
<1>5. \A w \in Worker \ {v} : SameWork(w)
  <2> HIDE DEF k
  <2>1. \A w \in Worker \ {v} : pc'[w] = pc[w] /\ call'[w] = call[w]
    BY <1>4 DEF BackendTypeOK
  <2> QED
    BY <1>3, <2>1 DEF BackendTypeOK, SameWork
<1>6. \/ intent[v] = "none" /\ pc'[v] = "saved" /\ unsaved' = unsaved \union {p} /\ call'[v] = None
      \/ /\ intent[v] \in {"deploy", "remove"} /\ pc'[v] = "calling" /\ UNCHANGED unsaved
         /\ call'[v] = k
  <2> HIDE DEF k
  <2> QED
    BY <1>1, <1>4 DEF BackendTypeOK
<1>7. HoldInv'
  BY <1>3, <1>5, <1>6 DEF HoldInv, SameWork
<1> QED
  BY <1>1, <1>2, <1>3, <1>5, <1>6, <1>7

LEMMA FlushQuiet ==
  ASSUME BackendTypeOK, WorkInv, HoldInv, VerdictInv, QuietInv, NEW v \in Worker, Flush(v),
         UNCHANGED nodeVars
  PROVE  HoldInv' /\ QuietInv'
<1>0. PICK p \in Peer : p = subject[v]
  BY DEF Flush, WorkInv
<1>1. /\ pc[v] = "flush" /\ p \in Peer /\ plan[v] \in Row
      /\ row'[p] = Flushed(v) /\ \A q \in Peer \ {p} : row'[q] = row[q]
      /\ UNCHANGED <<subject, intent, left, installed, late, doubtful>> /\ Sure(p)' = Sure(p)
      /\ verdict'[v] = "none"
      /\ \A w \in Worker \ {v} : SameWork(w)
      /\ HoldInv'
      /\ \/ intent[v] = "none" /\ pc'[v] = "saved" /\ unsaved' = unsaved \union {p}
         \/ /\ intent[v] \in {"deploy", "remove"} /\ pc'[v] = "calling" /\ UNCHANGED unsaved
            /\ call'[v] = [peer |-> p, node |-> plan[v].node,
                           goal |-> IF intent[v] = "deploy" THEN plan[v].config ELSE None]
  BY <1>0, FlushEffect DEF nodeVars, WorkInv, VerdictInv, Sure
<1>2. Disturbs(v, p) /\ Works(v, p) /\ Works(v, p)'
  BY <1>0, <1>1 DEF Disturbs, SameCall, SamePeer, Works, nodeVars, Sure
<1>3. ASSUME StageOK(v, p)
      PROVE  StageOK(v, p)'
  <2>1. /\ seen[v] = row[p] /\ FlushOK(v, p)
        /\ row[p] = None => intent[v] = "deploy"
    BY <1>1, <1>3 DEF StageOK, FlushOK, WorkInv
  <2>2. row'[p] = plan[v]
    BY <1>0, <1>1, <2>1, FlushedIsPlan
  <2>3. CASE intent[v] = "none"
    <3>1. /\ row[p] \in Row /\ plan[v].deploy = row[p].deploy
          /\ left[v] = IF plan[v].node # row[p].node THEN row[p].node ELSE None
      BY <1>1, <2>1, <2>3 DEF FlushOK, WorkInv
    <3>2. left'[v] # row'[p].node
      BY <1>1, <2>2, <3>1
    <3>3. ASSUME NEW n \in Sure(p) \ {left[v]}
          PROVE  Truth(p, n)'
      <4>1. Truth(p, n)
        BY <2>1, <2>3 DEF FlushOK
      <4> QED
        BY <1>1, <2>2, <2>3, <3>1, <4>1 DEF Truth
    <3>4. SavedOK(v, p)'
      BY <1>1, <3>2, <3>3 DEF SavedOK
    <3> QED
      BY <1>1, <2>2, <2>3, <3>4 DEF StageOK
  <2>4. CASE intent[v] # "none"
    <3>1. /\ intent'[v] \in {"deploy", "remove"} /\ pc'[v] = "calling"
          /\ call'[v].node = plan[v].node
          /\ call'[v].goal = IF intent[v] = "deploy" THEN plan[v].config ELSE None
      BY <1>1, <2>4
    <3>2. left'[v] # row'[p].node /\ (intent[v] # "remove" => left'[v] = None)
      BY <1>1, <2>1, <2>2, <3>1 DEF FlushOK
    <3>3. \A n \in Sure(p) \ {left[v], plan[v].node} : installed[n][p] = None
      BY <1>1, <2>1 DEF FlushOK, Truth
    <3>4. CallingOK(v, p)'
      BY <1>1, <2>2, <3>1, <3>2, <3>3 DEF CallingOK
    <3> QED
      BY <1>1, <2>2, <3>1, <3>4 DEF StageOK
  <2> QED
    BY <2>3, <2>4
<1> QED
  BY <1>1, <1>2, <1>3, OwnPeer

-----------------------------------------------------------------------------
(* The second transaction, and the end. *)
LEMMA RereadQuiet ==
  ASSUME BackendTypeOK, WorkInv, HoldInv, VerdictInv, QuietInv, NEW v \in Worker, Reread(v),
         UNCHANGED nodeVars
  PROVE  HoldInv' /\ QuietInv'
<1>0. PICK p \in Peer : p = subject[v]
  BY DEF Reread, WorkInv
<1>1. /\ pc[v] \in {"saved", "answered"} /\ p \in Peer
      /\ verdict'[v] = "none" /\ UNCHANGED <<row, installed, late, doubtful, unsaved>>
      /\ Sure(p)' = Sure(p)
  BY DEF VerdictInv, Reread, WorkInv, nodeVars, history, Sure
<1>2. SamePeer(p) /\ Works(v, p)
  BY <1>0, <1>1 DEF SamePeer, Works
<1>3. ASSUME HoldInv', \A w \in Worker \ {v} : SameWork(w),
             pc'[v] = "idle" \/ subject'[v] = p,
             StageOK(v, p) => IF pc'[v] # "idle" THEN StageOK(v, p)'
                                                 ELSE \A n \in Sure(p) : Truth(p, n)'
      PROVE  HoldInv' /\ QuietInv'
  <2>1. Disturbs(v, p) /\ (Works(v, p)' <=> pc'[v] # "idle")
    BY <1>0, <1>1, <1>3 DEF Disturbs, SameCall, SamePeer, Works, nodeVars, Sure
  <2> QED
    BY <1>1, <1>2, <1>3, <2>1, OwnPeer
<1>4. CASE row[p] = None /\ End(v)
  <2>1. ~StageOK(v, p)
    BY <1>1, <1>4 DEF StageOK
  <2> QED
    BY <1>3, <1>4, <2>1, EndHolds
<1>5. CASE row[p] # None /\ pc[v] = "saved" /\ OrphanOrEnd(v)
  <2>1. /\ HoldInv' /\ \A w \in Worker \ {v} : SameWork(w)
        /\ \/ left[v] = None /\ pc'[v] = "idle"
           \/ /\ left[v] # None /\ pc'[v] = "orphan" /\ subject'[v] = p
              /\ call'[v] = [peer |-> p, node |-> left[v], goal |-> None]
    BY <1>0, <1>5, OrphanHolds
  <2>2. ASSUME StageOK(v, p)
        PROVE  IF pc'[v] # "idle" THEN StageOK(v, p)' ELSE \A n \in Sure(p) : Truth(p, n)'
    <3>1. left[v] # row[p].node /\ \A n \in Sure(p) \ {left[v]} : Truth(p, n)'
      BY <1>1, <1>2, <1>5, <2>2, TruthKept DEF StageOK, SavedOK
    <3>2. CASE left[v] = None
      BY <2>1, <3>1, <3>2 DEF Sure
    <3>3. CASE left[v] # None
      <4>1. OrphanOK(v, p)'
        BY <1>1, <2>1, <3>1, <3>3 DEF OrphanOK
      <4> QED
        BY <1>1, <1>5, <2>1, <3>3, <4>1 DEF StageOK
    <3> QED
      BY <3>2, <3>3
  <2> QED
    BY <1>3, <2>1, <2>2
<1>6. CASE /\ row[p] # None /\ pc[v] = "answered"
           /\ seen' = [seen EXCEPT ![v] = row[p]] /\ pc' = [pc EXCEPT ![v] = "write"]
           /\ UNCHANGED <<subject, intent, plan, left, call, result>>
  <2>1. /\ \A w \in Worker \ {v} : SameWork(w)
        /\ pc'[v] = "write" /\ subject'[v] = p /\ seen'[v] = row[p]
    BY <1>0, <1>6 DEF BackendTypeOK, SameWork
  <2>2. HoldInv'
    BY <1>6, <2>1 DEF HoldInv, SameWork
  <2>3. AnsweredOK(v, p) => AnsweredOK(v, p)'
    BY <1>1, <1>6, <2>1 DEF AnsweredOK
  <2>4. StageOK(v, p) => StageOK(v, p)'
    BY <1>1, <1>6, <2>1, <2>3 DEF StageOK
  <2> QED
    BY <1>3, <2>1, <2>2, <2>4
<1> QED
  BY <1>0, <1>4, <1>5, <1>6 DEF Reread

(* The last transaction changes nothing of the row but the verdict, and the verdict is true. *)
LEMMA WrittenTruth ==
  ASSUME BackendTypeOK, WorkInv, NEW v \in Worker, NEW p \in Peer, p = subject[v], pc[v] = "write",
         row[p] # None, AnsweredOK(v, p), UNCHANGED <<installed, doubtful>>,
         row'[p] = Merge(row[p], seen[v], [seen[v] EXCEPT !.deploy = Verdict(v)]),
         unsaved' = IF Verdict(v) = "deployed" THEN unsaved \ {p} ELSE unsaved
  PROVE  /\ row'[p] # None /\ left[v] # row'[p].node
         /\ \A n \in Sure(p) \ {left[v]} : Truth(p, n)'
<1>1. /\ intent[v] \in {"deploy", "remove"}
      /\ row[p].node \in Sure(p) => result[v] = "ok"
      /\ row[p] \in Row /\ seen[v] = row[p]
  BY DEF AnsweredOK, WorkInv, BackendTypeOK
<1>2. /\ Verdict(v) \in Deployments
      /\ row[p].node \in Sure(p) =>
           Verdict(v) = IF intent[v] = "deploy" THEN "deployed" ELSE "removed"
  BY <1>1 DEF Verdict
<1>3. [seen[v] EXCEPT !.deploy = Verdict(v)] \in Row
  BY <1>1, <1>2
<1>4. /\ row'[p] \in Row /\ row'[p].node = row[p].node /\ row'[p].config = row[p].config
      /\ row'[p].deploy = Verdict(v)
  BY <1>1, <1>3, MergeType
<1>5. row'[p] # None /\ left[v] # row'[p].node
  BY <1>4 DEF AnsweredOK
<1>6. ASSUME NEW n \in Sure(p) \ {left[v]}
      PROVE  Truth(p, n)'
  BY <1>1, <1>2, <1>4 DEF AnsweredOK, Truth
<1> QED
  BY <1>5, <1>6

LEMMA WriteQuiet ==
  ASSUME BackendTypeOK, WorkInv, HoldInv, VerdictInv, QuietInv, NEW v \in Worker, Write(v),
         UNCHANGED nodeVars
  PROVE  HoldInv' /\ QuietInv'
<1>0. PICK p \in Peer : p = subject[v]
  BY DEF Write, WorkInv
<1>1. /\ pc[v] = "write" /\ Works(v, p) /\ verdict'[v] = "none"
      /\ UNCHANGED <<installed, late, doubtful>> /\ Sure(p)' = Sure(p)
  BY <1>0 DEF Write, nodeVars, Works, WorkInv, VerdictInv, Sure
<1>2. CASE row[p] = None /\ End(v) /\ UNCHANGED <<row, unsaved>>
  <2>1. HoldInv' /\ pc'[v] = "idle" /\ \A w \in Worker \ {v} : SameWork(w)
    BY <1>2, EndHolds
  <2>2. Disturbs(v, p) /\ ~Works(v, p)'
    BY <1>0, <1>1, <1>2, <2>1 DEF Disturbs, SameCall, SamePeer, Works, nodeVars, Sure
  <2>3. ~StageOK(v, p)
    BY <1>1, <1>2 DEF StageOK
  <2> QED
    BY <1>1, <2>1, <2>2, <2>3, OwnPeer
<1>3. CASE /\ row[p] # None /\ OrphanOrEnd(v)
           /\ row' = [row EXCEPT ![p] = Merge(@, seen[v], [seen[v] EXCEPT !.deploy = Verdict(v)])]
           /\ unsaved' = IF Verdict(v) = "deployed" THEN unsaved \ {p} ELSE unsaved
  <2>1. /\ HoldInv' /\ \A w \in Worker \ {v} : SameWork(w)
        /\ \/ left[v] = None /\ pc'[v] = "idle"
           \/ /\ left[v] # None /\ pc'[v] = "orphan" /\ subject'[v] = p
              /\ call'[v] = [peer |-> p, node |-> left[v], goal |-> None]
    BY <1>0, <1>3, OrphanHolds
  <2>2. /\ row'[p] = Merge(row[p], seen[v], [seen[v] EXCEPT !.deploy = Verdict(v)])
        /\ \A q \in Peer \ {p} : row'[q] = row[q]
    BY <1>3 DEF BackendTypeOK
  <2>3. Disturbs(v, p)
    BY <1>0, <1>1, <1>3, <2>1, <2>2 DEF Disturbs, SameCall, SamePeer, Works, nodeVars, Sure
  <2>4. ASSUME StageOK(v, p)
        PROVE  IF Works(v, p)' THEN StageOK(v, p)' ELSE \A n \in Sure(p) : Truth(p, n)'
    <3>1. /\ row'[p] # None /\ left[v] # row'[p].node
          /\ \A n \in Sure(p) \ {left[v]} : Truth(p, n)'
      BY <1>0, <1>1, <1>3, <2>2, <2>4, WrittenTruth DEF StageOK
    <3>2. CASE left[v] = None
      BY <2>1, <3>1, <3>2 DEF Works, Sure
    <3>3. CASE left[v] # None
      <4>1. OrphanOK(v, p)'
        BY <1>1, <2>1, <3>1, <3>3 DEF OrphanOK
      <4> QED
        BY <2>1, <3>1, <3>3, <4>1 DEF StageOK, Works
    <3> QED
      BY <3>2, <3>3
  <2> QED
    BY <1>1, <2>1, <2>3, <2>4, OwnPeer
<1> QED
  BY <1>0, <1>2, <1>3 DEF Write

LEMMA DeleteRowQuiet ==
  ASSUME BackendTypeOK, WorkInv, HoldInv, VerdictInv, QuietInv, NEW v \in Worker, DeleteRow(v),
         UNCHANGED nodeVars
  PROVE  HoldInv' /\ QuietInv'
<1>0. PICK p \in Peer : p = subject[v]
  BY DEF DeleteRow, WorkInv
<1>1. /\ pc[v] = "delete" /\ End(v) /\ row' = [row EXCEPT ![p] = None]
      /\ UNCHANGED <<installed, late, doubtful, unsaved>> /\ Sure(p)' = Sure(p)
  BY <1>0 DEF DeleteRow, nodeVars, history, Sure
<1>2. HoldInv' /\ pc'[v] = "idle" /\ \A w \in Worker \ {v} : SameWork(w)
  BY <1>1, EndHolds
<1>3. row'[p] = None /\ \A q \in Peer \ {p} : row'[q] = row[q]
  BY <1>1 DEF BackendTypeOK
<1>4. Disturbs(v, p) /\ Works(v, p) /\ ~Works(v, p)'
  BY <1>0, <1>1, <1>2, <1>3 DEF Disturbs, SameCall, SamePeer, Works, nodeVars, Sure
<1>5. StageOK(v, p) => \A n \in Sure(p)' : Truth(p, n)'
  BY <1>1, <1>3 DEF StageOK, Truth
<1> QED
  BY <1>1, <1>2, <1>4, <1>5, OwnPeer

(* What a worker does between its calls disturbs its own peer, and no verdict. *)
LEMMA BackendQuiet ==
  ASSUME BackendTypeOK, WorkInv, OnePeerPerNode, HoldInv, VerdictInv, QuietInv, NEW v \in Worker,
         Begin(v, Unused, Running) \/ Continue(v), UNCHANGED nodeVars
  PROVE  HoldInv' /\ QuietInv'
BY BeginQuiet, FlushFailsQuiet, FlushQuiet, RereadQuiet, WriteQuiet, DeleteRowQuiet DEF Continue

-----------------------------------------------------------------------------
(* The node calls. *)

(* A worker that is between its calls has none, and leaves those of the others alone. *)
LEMMA CallsKept ==
  ASSUME BackendTypeOK, WorkInv, NEW v \in Worker, NEW unused, NEW running,
         Begin(v, unused, running) \/ Continue(v)
  PROVE  call[v] = None /\ \A w \in Worker \ {v} : call'[w] = call[w]
<1>1. CASE Begin(v, unused, running)
  <2>1. ASSUME NEW p \in Peer,
               \/ Redeploy(v, p, running) \/ Delete(v, p, running)
               \/ \E c \in Config : Edit(v, p, c, running)
               \/ \E n \in Node, c \in Config : Create(v, p, n, c)
               \/ \E n \in Node, c \in Config, s \in Statuses : Save(v, p, n, c, s)
        PROVE  pc[v] = "idle" /\ \A w \in Worker \ {v} : call'[w] = call[w]
    BY <2>1 DEF Create, Edit, Save, Redeploy, Delete, Start, BackendTypeOK
  <2>2. pc[v] = "idle" /\ \A w \in Worker \ {v} : call'[w] = call[w]
    BY <1>1, <2>1 DEF Begin
  <2> QED
    BY <2>2 DEF WorkInv
<1>2. CASE Continue(v)
  <2>1. pc[v] \in {"flush", "saved", "answered", "write", "delete"}
    BY <1>2 DEF Continue, FlushFails, Flush, Reread, Write, DeleteRow
  <2>2. End(v) \/ OrphanOrEnd(v) => \A w \in Worker \ {v} : call'[w] = call[w]
    BY DEF End, OrphanOrEnd, BackendTypeOK
  <2>3. Flush(v) => \A w \in Worker \ {v} : call'[w] = call[w]
    BY DEF Flush, BackendTypeOK
  <2>4. \A w \in Worker \ {v} : call'[w] = call[w]
    BY <1>2, <2>2, <2>3 DEF Continue, FlushFails, Reread, Write, DeleteRow
  <2> QED
    BY <2>1, <2>4 DEF WorkInv
<1> QED
  BY <1>1, <1>2

LEMMA CallEnded ==
  ASSUME BackendTypeOK, NEW v \in Worker, NEW how, CallReturns(v, how)
  PROVE  call'[v] = None /\ \A w \in Worker \ {v} : call'[w] = call[w]
BY DEF CallReturns, CallEnds, End, BackendTypeOK

(* The verdict of a call comes after its beginning and goes with its end. *)
LEMMA VerdictStep ==
  ASSUME TypeOK, WorkInv, HoldInv, VerdictInv, [Next]_vars
  PROVE  VerdictInv'
<1>1. ASSUME NEW v \in Worker, Begin(v, Unused, Running) \/ Continue(v), UNCHANGED nodeVars
      PROVE  VerdictInv'
  BY <1>1, CallsKept DEF TypeOK, nodeVars, VerdictInv
<1>2. ASSUME NEW v \in Worker, NodeAnswers(v) \/ GiveUp(v)
      PROVE  VerdictInv'
  <2>1. verdict'[v] = "none" /\ \A w \in Worker \ {v} : verdict'[w] = verdict[w]
    BY <1>2 DEF NodeAnswers, GiveUp, TypeOK
  <2>2. \A w \in Worker \ {v} : call'[w] = call[w]
    BY <1>2, CallEnded DEF NodeAnswers, GiveUp, TypeOK
  <2> QED
    BY <2>1, <2>2 DEF VerdictInv
<1>3. ASSUME NEW v \in Worker, NodeEnds(v)
      PROVE  VerdictInv'
  <2>1. call[v] # None /\ UNCHANGED call /\ \A w \in Worker \ {v} : verdict'[w] = verdict[w]
    BY <1>3 DEF NodeEnds, backendVars, workerVars, TypeOK
  <2> QED
    BY <2>1 DEF VerdictInv
<1>4. ASSUME UNCHANGED <<call, verdict>> PROVE VerdictInv'
  BY <1>4 DEF VerdictInv
<1>5. CASE Restart
  BY <1>5 DEF Restart, VerdictInv
<1> QED
  BY <1>1, <1>2, <1>3, <1>4, <1>5
     DEF Next, Proceed, NodeWorks, LateEnds, LateLost, vars, backendVars, workerVars, nodeVars

(* A node's step for one call: k's peer at k's node, and what is Mixed. *)
LEMMA ChangeOne ==
  ASSUME TypeOK, NEW k \in Call, NEW x, Change(k, x)
  PROVE  /\ installed'[k.node][k.peer] = x
         /\ \A n \in Node \ {k.node} : installed'[n] = installed[n]
         /\ \A q \in Peer \ {k.peer} : \A n \in Node :
              installed[n][q] # Mixed => installed'[n][q] = installed[n][q]
BY DEF Change, TypeOK

(* The call of an undoubted peer is the only one that may move it. *)
LEMMA NodeQuiet ==
  ASSUME TypeOK, WorkInv, HoldInv, QuietInv, NEW k \in Call, NEW x, Change(k, x),
         UNCHANGED backendVars, late' \subseteq late,
         \A u \in Worker : verdict'[u] = verdict[u] \/ call[u] = k,
         \/ <<k.peer, k.node>> \in doubtful
         \/ \E w \in Worker : call[w] = k /\ (verdict'[w] = "ok" => x = k.goal)
  PROVE  HoldInv' /\ QuietInv'
<1>1. \A w \in Worker : SameWork(w)
  BY DEF backendVars, workerVars, SameWork
<1>2. HoldInv'
  BY <1>1 DEF HoldInv, SameWork
<1>3. UNCHANGED <<row, doubtful, unsaved>> /\ \A q \in Peer : Sure(q)' = Sure(q)
  BY DEF backendVars, history, Sure
<1>4. /\ installed'[k.node][k.peer] = x
      /\ \A n \in Node \ {k.node} : installed'[n] = installed[n]
      /\ \A q \in Peer \ {k.peer} : \A n \in Node :
           installed[n][q] # Mixed => installed'[n][q] = installed[n][q]
  BY ChangeOne
<1>5. ASSUME NEW q \in Peer, Sure(q) # {}, q # k.peer \/ k.node \notin Sure(q)
      PROVE  PeerOK(q)'
  <2>1. SamePeer(q)
    BY <1>3, <1>4, <1>5 DEF SamePeer, Sure
  <2>2. \A u \in Worker : SameCall(u) \/ (~Works(u, q) /\ ~Works(u, q)')
    <3>1. q = k.peer => <<k.peer, k.node>> \in doubtful'
      BY <1>3, <1>5 DEF Sure
    <3> QED
      BY <1>1, <1>5, <3>1 DEF SameCall, SameWork, HoldInv, Works
  <2> QED
    BY <1>5, <2>1, <2>2, PeerKept DEF QuietInv, TypeOK
<1>6. ASSUME k.node \in Sure(k.peer)
      PROVE  PeerOK(k.peer)'
  <2>0. PICK p \in Peer : p = k.peer
    OBVIOUS
  <2>1. PICK w \in Worker : call[w] = k /\ (verdict'[w] = "ok" => x = k.goal)
    BY <1>6 DEF Sure
  <2>2. pc[w] \in {"calling", "orphan"} /\ subject[w] = p /\ PeerOK(p)
    BY <1>6, <2>0, <2>1 DEF WorkInv, HoldInv, QuietInv
  <2>3. \A u \in Worker : Works(u, p)' <=> u = w
    BY <1>1, <2>2 DEF PeerOK, Works, SameWork
  <2>4. StageOK(w, p) /\ row[p] # None
    BY <2>2 DEF PeerOK, StageOK, Works
  <2>5. \A l \in late' : l.peer = p => l.node \notin Sure(p)'
    BY <1>3, <2>2 DEF PeerOK
  <2>6. CASE pc[w] = "calling"
    <3>1. CallingOK(w, p)
      BY <2>4, <2>6 DEF StageOK
    <3>2. CallingOK(w, p)'
      BY <1>1, <1>3, <1>4, <2>0, <2>1, <3>1 DEF CallingOK, SameWork, Sure
    <3> QED
      BY <1>1, <1>3, <2>0, <2>3, <2>4, <2>5, <2>6, <3>2 DEF PeerOK, StageOK, SameWork
  <2>7. CASE pc[w] = "orphan"
    <3>1. OrphanOK(w, p)
      BY <2>4, <2>7 DEF StageOK
    <3>2. \A n \in Sure(p) \ {k.node} : Truth(p, n)'
      BY <1>3, <1>4, <2>1, <3>1 DEF OrphanOK, Truth, Sure
    <3>3. OrphanOK(w, p)'
      BY <1>1, <1>3, <1>4, <2>0, <2>1, <3>1, <3>2 DEF OrphanOK, SameWork
    <3> QED
      BY <1>1, <1>3, <2>0, <2>3, <2>4, <2>5, <2>7, <3>3 DEF PeerOK, StageOK, SameWork
  <2> QED
    BY <2>0, <2>2, <2>6, <2>7
<1> QED
  BY <1>2, <1>3, <1>5, <1>6 DEF QuietInv

(* A node of which nobody doubts what it has of a peer runs no late call about it. *)
LEMMA LateIsDoubtful ==
  ASSUME TypeOK, QuietInv, NEW k \in late
  PROVE  <<k.peer, k.node>> \in doubtful
BY DEF TypeOK, QuietInv, PeerOK, Sure

(* The caller hears "ok": what the call was for is done. *)
LEMMA AnswerQuiet ==
  ASSUME TypeOK, WorkInv, HoldInv, QuietInv, NEW v \in Worker, verdict[v] = "ok", NodeAnswers(v)
  PROVE  HoldInv' /\ QuietInv'
<1>0. PICK p \in Peer : p = subject[v]
  BY DEF NodeAnswers, CallReturns, WorkInv
<1>1. /\ call[v] \in Call /\ call[v].peer = p /\ pc[v] \in {"calling", "orphan"}
      /\ CallEnds(v, "ok") /\ UNCHANGED <<row, unsaved, doubtful, installed, late>>
      /\ Sure(p)' = Sure(p)
  BY <1>0 DEF NodeAnswers, CallReturns, TypeOK, BackendTypeOK, HoldInv, WorkInv, Sure
<1>2. /\ HoldInv'
      /\ \A w \in Worker \ {v} : SameWork(w)
      /\ \/ pc[v] = "orphan" /\ pc'[v] = "idle"
         \/ /\ pc[v] = "calling" /\ subject'[v] = p /\ intent'[v] = intent[v]
            /\ left'[v] = left[v]
            /\ \/ intent[v] = "delete" /\ pc'[v] = "delete"
               \/ intent[v] # "delete" /\ pc'[v] = "answered" /\ result'[v] = "ok"
  BY <1>0, <1>1, CallEndsHolds DEF TypeOK
<1>3. \A w \in Worker \ {v} : SameCall(w)
  BY <1>2 DEF NodeAnswers, TypeOK, SameCall
<1>4. Disturbs(v, p) /\ Works(v, p)
  BY <1>0, <1>1, <1>2, <1>3 DEF Disturbs, SamePeer, Works, Sure
<1>5. CASE pc[v] = "orphan"
  <2>1. OrphanOK(v, p) => \A n \in Sure(p)' : Truth(p, n)'
    BY <1>1 DEF OrphanOK, Truth
  <2>2. ~Works(v, p)'
    BY <1>2, <1>5 DEF Works
  <2> QED
    BY <1>1, <1>2, <1>4, <1>5, <2>1, <2>2, OwnPeer DEF StageOK, TypeOK
<1>6. CASE pc[v] = "calling"
  <2>1. ASSUME StageOK(v, p)
        PROVE  StageOK(v, p)'
    <3>1. CallingOK(v, p) /\ row[p] # None
      BY <1>6, <2>1 DEF StageOK
    <3>2. row[p] \in Row
      BY <3>1 DEF TypeOK, BackendTypeOK
    <3>3. intent[v] \in {"deploy", "remove", "delete"}
      BY <1>6 DEF WorkInv
    <3>4. CASE intent[v] = "delete"
      <4>1. \A n \in Sure(p)' : installed'[n][p] = None
        BY <1>1, <3>1, <3>4 DEF CallingOK, Sure
      <4> QED
        BY <1>1, <1>2, <1>6, <3>1, <3>4, <4>1 DEF StageOK
    <3>5. CASE intent[v] # "delete"
      <4>1. \A n \in Sure(p)' \ {left[v]} : installed'[n][p] =
              IF intent[v] = "deploy" /\ n = row[p].node THEN row[p].config ELSE None
        BY <1>1, <3>1 DEF CallingOK
      <4>2. AnsweredOK(v, p)'
        BY <1>1, <1>2, <1>6, <3>1, <3>3, <3>5, <4>1 DEF CallingOK, AnsweredOK
      <4> QED
        BY <1>1, <1>2, <1>6, <3>1, <3>5, <4>2 DEF StageOK
    <3> QED
      BY <3>4, <3>5
  <2>2. Works(v, p)'
    BY <1>2, <1>6 DEF Works
  <2> QED
    BY <1>1, <1>2, <1>4, <2>1, <2>2, OwnPeer DEF TypeOK
<1> QED
  BY <1>1, <1>5, <1>6

(* A call that does not end ok leaves its node in doubt, and the operation goes on for the
   others. *)
LEMMA DoubtQuiet ==
  ASSUME TypeOK, WorkInv, HoldInv, QuietInv, NEW v \in Worker, CallReturns(v, "failed"),
         UNCHANGED installed, UNCHANGED late \/ late' = late \union {call[v]},
         verdict' = [verdict EXCEPT ![v] = "none"]
  PROVE  HoldInv' /\ QuietInv'
<1>0. PICK p \in Peer : p = subject[v]
  BY DEF CallReturns, WorkInv
<1>1. /\ call[v] \in Call /\ call[v].peer = p /\ CallEnds(v, "failed")
      /\ doubtful' = doubtful \union {<<p, call[v].node>>} /\ UNCHANGED <<row, unsaved>>
      /\ Sure(p)' = Sure(p) \ {call[v].node}
      /\ \A q \in Peer \ {p} : Sure(q)' = Sure(q)
  BY <1>0 DEF CallReturns, TypeOK, BackendTypeOK, HoldInv, Sure
<1>2. /\ HoldInv'
      /\ \A w \in Worker \ {v} : SameWork(w)
      /\ \/ pc[v] = "orphan" /\ pc'[v] = "idle"
         \/ /\ pc[v] = "calling" /\ subject'[v] = p /\ intent'[v] = intent[v]
            /\ left'[v] = left[v]
            /\ \/ intent[v] = "delete" /\ pc'[v] = "delete"
               \/ intent[v] # "delete" /\ pc'[v] = "answered" /\ result'[v] = "failed"
  BY <1>0, <1>1, CallEndsHolds DEF TypeOK
<1>3. \A w \in Worker \ {v} : SameCall(w)
  BY <1>2 DEF TypeOK, SameCall
<1>4. Disturbs(v, p) /\ Works(v, p)
  BY <1>0, <1>1, <1>2, <1>3 DEF Disturbs, SamePeer, Works
<1>5. \A k \in late' : k \in late \/ <<k.peer, k.node>> \in doubtful'
  BY <1>1
<1>6. CASE pc[v] = "orphan"
  <2>1. OrphanOK(v, p) => \A n \in Sure(p)' : Truth(p, n)'
    BY <1>1 DEF OrphanOK, Truth
  <2>2. ~Works(v, p)'
    BY <1>2, <1>6 DEF Works
  <2> QED
    BY <1>1, <1>2, <1>4, <1>5, <1>6, <2>1, <2>2, OwnPeer DEF StageOK, TypeOK
<1>7. CASE pc[v] = "calling"
  <2>1. ASSUME StageOK(v, p)
        PROVE  StageOK(v, p)'
    <3>1. CallingOK(v, p) /\ row[p] # None
      BY <1>7, <2>1 DEF StageOK
    <3>2. \A n \in Sure(p)' \ {left[v]} : n # row[p].node /\ installed'[n][p] = None
      BY <1>1, <3>1 DEF CallingOK
    <3>3. CASE intent[v] = "delete"
      <4>1. \A n \in Sure(p)' : installed'[n][p] = None
        BY <3>1, <3>2, <3>3 DEF CallingOK, Sure
      <4> QED
        BY <1>1, <1>2, <1>7, <3>1, <3>3, <4>1 DEF StageOK
    <3>4. CASE intent[v] # "delete"
      <4>1. AnsweredOK(v, p)'
        BY <1>1, <1>2, <1>7, <3>1, <3>2, <3>4 DEF CallingOK, AnsweredOK
      <4> QED
        BY <1>1, <1>2, <1>7, <3>1, <3>4, <4>1 DEF StageOK
    <3> QED
      BY <3>3, <3>4
  <2>2. Works(v, p)'
    BY <1>2, <1>7 DEF Works
  <2> QED
    BY <1>1, <1>2, <1>4, <1>5, <2>1, <2>2, OwnPeer DEF TypeOK
<1> QED
  BY <1>2, <1>6, <1>7

(* After a restart the peers of all operations are doubtful. *)
LEMMA RestartQuiet ==
  ASSUME TypeOK, WorkInv, HoldInv, QuietInv, Restart
  PROVE  HoldInv' /\ QuietInv'
<1>1. \A w \in Worker : pc'[w] = "idle" /\ left'[w] = None /\ call'[w] = None
  BY DEF Restart, BackendRestarts
<1>2. ASSUME NEW q \in Peer, Sure(q)' # {}
      PROVE  PeerOK(q)'
  <2>1. Sure(q)' \subseteq Sure(q) /\ \A w \in Worker : ~Works(w, q)
    BY <1>2 DEF Restart, BackendRestarts, Works, Sure
  <2>2. \A k \in late' : k \in late \/ \E w \in Worker : k = call[w] /\ k # None
    BY DEF Restart, Outstanding
  <2>3. \A k \in late' : k.peer = q => k \in late
    BY <2>1, <2>2 DEF HoldInv, WorkInv, Works
  <2>4. SamePeer(q)
    BY <2>1, <2>3 DEF Restart, BackendRestarts, SamePeer
  <2>5. \A w \in Worker : ~Works(w, q)'
    BY <1>1 DEF Works
  <2> QED
    BY <1>2, <2>1, <2>4, <2>5, PeerKept DEF QuietInv, TypeOK
<1> QED
  BY <1>1, <1>2 DEF HoldInv, QuietInv

-----------------------------------------------------------------------------
(* No step disturbs what a quiet row says. *)
LEMMA QuietStep ==
  ASSUME TypeOK, WorkInv, OnePeerPerNode, HoldInv, VerdictInv, QuietInv, [Next]_vars
  PROVE  HoldInv' /\ QuietInv'
<1>1. ASSUME NEW v \in Worker, Begin(v, Unused, Running) \/ Continue(v), UNCHANGED nodeVars
      PROVE  HoldInv' /\ QuietInv'
  BY <1>1, BackendQuiet DEF TypeOK
<1>2. ASSUME NEW v \in Worker, NodeAnswers(v)
      PROVE  HoldInv' /\ QuietInv'
  <2>1. verdict[v] = "ok" \/ verdict[v] = "failed"
    BY <1>2 DEF NodeAnswers, TypeOK
  <2>2. CASE verdict[v] = "failed"
    BY <1>2, <2>2, DoubtQuiet DEF NodeAnswers
  <2> QED
    BY <1>2, <2>1, <2>2, AnswerQuiet
<1>3. ASSUME NEW v \in Worker, GiveUp(v)
      PROVE  HoldInv' /\ QuietInv'
  BY <1>3, DoubtQuiet DEF GiveUp
<1>4. ASSUME NEW v \in Worker, NodeEnds(v)
      PROVE  HoldInv' /\ QuietInv'
  <2>1. call[v] \in Call /\ UNCHANGED <<backendVars, late>>
        /\ \A u \in Worker \ {v} : verdict'[u] = verdict[u]
    BY <1>4 DEF NodeEnds, TypeOK, BackendTypeOK
  <2>2. PICK x : Change(call[v], x) /\ (verdict'[v] = "ok" => x = call[v].goal)
    BY <1>4 DEF NodeEnds, ChangeSome, TypeOK
  <2> QED
    BY <2>1, <2>2, NodeQuiet
<1>5. ASSUME NEW k \in Outstanding, NodeWorks(k)
      PROVE  HoldInv' /\ QuietInv'
  <2>1. k \in Call /\ UNCHANGED <<backendVars, late, verdict>>
    BY <1>5, OutstandingType DEF NodeWorks
  <2>2. PICK x : Change(k, x)
    BY <1>5 DEF NodeWorks, ChangeSome
  <2>3. <<k.peer, k.node>> \in doubtful \/ \E w \in Worker : call[w] = k /\ verdict'[w] = "none"
    BY <2>1, LateIsDoubtful DEF Outstanding
  <2> QED
    BY <2>1, <2>2, <2>3, NodeQuiet
<1>6. ASSUME NEW k \in late, LateEnds(k)
      PROVE  HoldInv' /\ QuietInv'
  <2>1. /\ k \in Call /\ <<k.peer, k.node>> \in doubtful
        /\ UNCHANGED <<backendVars, verdict>> /\ late' \subseteq late
    BY <1>6, LateIsDoubtful DEF LateEnds, TypeOK
  <2>2. PICK x : Change(k, x)
    BY <1>6 DEF LateEnds, ChangeSome
  <2> QED
    BY <2>1, <2>2, NodeQuiet
<1>7. ASSUME UNCHANGED <<backendVars, installed, verdict>>, late' \subseteq late
      PROVE  HoldInv' /\ QuietInv'
  <2>1. (\A w \in Worker : SameCall(w)) /\ \A p \in Peer : SamePeer(p)
    BY <1>7 DEF backendVars, workerVars, history, SameCall, SameWork, SamePeer, Sure
  <2>2. HoldInv' /\ \A p \in Peer : Sure(p)' = Sure(p)
    BY <1>7, <2>1 DEF backendVars, history, HoldInv, SameCall, SameWork, Sure
  <2> QED
    BY <2>1, <2>2, PeerKept DEF QuietInv, TypeOK
<1>8. LateLost \/ UNCHANGED vars => UNCHANGED <<backendVars, installed, verdict>> /\ late' \subseteq late
  BY DEF LateLost, vars, nodeVars
<1> QED
  BY <1>1, <1>2, <1>3, <1>4, <1>5, <1>6, <1>7, <1>8, RestartQuiet DEF Next, Proceed

\* What a row says of a node is true, between the peer's operations, of every node that no
\* overlap and no failed call has left in doubt since the peer was created, or since an
\* operation that calls the node ran alone.
THEOREM QuietRowsAreTrue == SafeSpec => []QuietRowIsTrue
<1>1. Init => HoldInv /\ VerdictInv /\ QuietInv
  BY DEF Init, BackendInit, HoldInv, VerdictInv, QuietInv, PeerOK, Works, Truth, Sure
<1>2. SafeSpec => [](HoldInv /\ VerdictInv /\ QuietInv)
  <2>1. SafeSpec => [](TypeOK /\ WorkInv /\ OnePeerPerNode)
    BY Invariance, PTL DEF IInv
  <2> QED
    BY <1>1, <2>1, QuietStep, VerdictStep, PTL DEF SafeSpec
<1>3. QuietInv => QuietRowIsTrue
  BY DEF QuietInv, PeerOK, Works, Truth, Busy, QuietRowIsTrue, Sure
<1> QED
  BY <1>2, <1>3, PTL
=============================================================================
