----------------------------- MODULE NodeService -----------------------------
(***************************************************************************)
(* The commands of the node service: internal/api/server.go dispatches     *)
(* them, internal/runner/runner.go runs them.  Each request has a          *)
(* goroutine of its own (a Job).  peers.deploy and peers.remove change two *)
(* files, the WireGuard interface and BIRD's loaded configuration under    *)
(* deployMu; the looking-glass and status commands share a semaphore that  *)
(* refuses instead of queueing.                                            *)
(*                                                                         *)
(* Files, interfaces and BIRD outlive the service: Stop forgets the jobs,  *)
(* the lock and the semaphore only.  wg-quick, birdc and the file system   *)
(* are external; each may fail, and a command that fails or times out may  *)
(* have had its effect.  A job is reused once its answer is sent.          *)
(***************************************************************************)
EXTENDS FiniteSets, Naturals

CONSTANTS
  Job, Name, Config, None, Mixed,
  MaxConcurrency,   \* max_concurrency; 0 bounds nothing
  Reload            \* whether deploy_reload_cmd is configured

ASSUME DistinctAssumption == None # Mixed /\ {None, Mixed} \intersect (Config \union Name \union Job) = {}
ASSUME ConcurrencyAssumption == MaxConcurrency \in Nat
ASSUME ReloadAssumption == Reload \in BOOLEAN

VARIABLES
  pc,         \* pc[j]: the step job j is at
  job,        \* job[j]: its request
  reply,      \* reply[j]: its answer
  holder,     \* the job that holds deployMu
  slots,      \* the jobs that hold a slot of the semaphore
  wireguard,  \* wireguard[n]: the content of <wireguard_peer_dir>/n.conf
  bird,       \* bird[n]: the content of <bird_peer_dir>/n.conf
  interface,  \* interface[n]: the configuration interface n is up with
  loaded,     \* loaded[n]: what BIRD has loaded of n
  unsure      \* the names a change has touched and not ended ok since (history)

router == <<wireguard, bird, interface, loaded>>
vars == <<pc, job, reply, holder, slots, router, unsure>>

Changes == [op : {"deploy"}, name : Name, config : Config]
             \union [op : {"remove"}, name : Name, config : {None}]
Queries == [op : {"lg", "status"}, name : {None}, config : {None}]

ASSUME NoneIsNoRequest == None \notin Changes

DeploySteps == {"writeWireGuard", "writeBird", "up"}
RemoveSteps == {"removeWireGuard", "removeBird"}
ChangeSteps == {"check", "down", "reload"} \union DeploySteps \union RemoveSteps
QuerySteps  == {"probe", "birdc", "wgshow"}
\* ok; applied, but not ok; neither.
Answers == {"ok", "applied", "failed"}
Content == Config \union {None}

\* The type of every variable.
TypeOK ==
  /\ pc \in [Job -> {"idle", "lock", "done"} \union ChangeSteps \union QuerySteps]
  /\ job \in [Job -> Changes \union Queries \union {None}]
  /\ reply \in [Job -> Answers \union {"none"}]
  /\ holder \in Job \union {None}
  /\ slots \subseteq Job
  /\ wireguard \in [Name -> Content]
  /\ bird \in [Name -> Content]
  /\ interface \in [Name -> Content]
  /\ loaded \in [Name -> Content]
  /\ unsure \subseteq Name

Init ==
  /\ pc = [j \in Job |-> "idle"]
  /\ job = [j \in Job |-> None]
  /\ reply = [j \in Job |-> "none"]
  /\ holder = None
  /\ slots = {}
  /\ wireguard = [n \in Name |-> None]
  /\ bird = [n \in Name |-> None]
  /\ interface = [n \in Name |-> None]
  /\ loaded = [n \in Name |-> None]
  /\ unsure = {}

At(j, step) == pc[j] = step
Goto(j, step) ==
  /\ pc' = [pc EXCEPT ![j] = step]
  /\ UNCHANGED <<job, reply, slots>>

\* Mutation: a path of the function returns without Unlock.
FinishLocked(j, answer) ==
  /\ pc' = [pc EXCEPT ![j] = "done"]
  /\ reply' = [reply EXCEPT ![j] = answer]
  /\ job' = [job EXCEPT ![j] = None]
  /\ holder' = IF answer = "failed" THEN holder ELSE None
  /\ UNCHANGED slots

\* The function returns: its deferred Unlock runs and the answer goes out.
Finish(j, answer) ==
  /\ pc' = [pc EXCEPT ![j] = "done"]
  /\ reply' = [reply EXCEPT ![j] = answer]
  /\ job' = [job EXCEPT ![j] = None]
  /\ holder' = None
  /\ UNCHANGED slots

\* What a command may leave of the thing it works on, by its exit.
Effects(before, after) == 
  {[exit |-> "ok", after |-> after], [exit |-> "failed", after |-> after],
   [exit |-> "failed", after |-> before]}

-----------------------------------------------------------------------------
(* Arrival. *)

\* Command, for peers.deploy and peers.remove.
SubmitChange(j, w) ==
  /\ At(j, "idle")
  /\ job' = [job EXCEPT ![j] = w]
  /\ pc' = [pc EXCEPT ![j] = "lock"]
  /\ UNCHANGED <<reply, holder, slots, router, unsure>>

\* tryAcquire takes a slot if one is free; it never waits.
TryAcquire(j) ==
  /\ MaxConcurrency = 0 \/ Cardinality(slots) < MaxConcurrency
  /\ slots' = slots \union {j}

\* Command, for the looking glass and peers.status: run, or "node is busy".
SubmitQuery(j, w) ==
  /\ At(j, "idle")
  /\ \/ /\ TryAcquire(j)
        /\ job' = [job EXCEPT ![j] = w]
        /\ pc' = [pc EXCEPT ![j] = IF w.op = "status" THEN "birdc" ELSE "probe"]
        /\ UNCHANGED reply
     \/ /\ MaxConcurrency # 0 /\ Cardinality(slots) >= MaxConcurrency
        /\ pc' = [pc EXCEPT ![j] = "done"]
        /\ reply' = [reply EXCEPT ![j] = "failed"]
        /\ UNCHANGED <<job, slots>>
  /\ UNCHANGED <<holder, router, unsure>>

-----------------------------------------------------------------------------
(* The capped commands. *)

\* PeerStatus is done; PeerWireGuard runs in the same slot.
Birdc(j) ==
  /\ At(j, "birdc")
  /\ Goto(j, "wgshow")
  /\ UNCHANGED <<holder, router, unsure>>

\* Mutation: the slot of a failed command is not released.
EndQueryLeaking(j) ==
  /\ At(j, "probe") \/ At(j, "wgshow")
  /\ \E answer \in {"ok", "failed"} :
       /\ reply' = [reply EXCEPT ![j] = answer]
       /\ slots' = IF answer = "ok" THEN slots \ {j} ELSE slots
  /\ pc' = [pc EXCEPT ![j] = "done"]
  /\ job' = [job EXCEPT ![j] = None]
  /\ UNCHANGED <<holder, router, unsure>>

\* The last command ends and the deferred release runs.
EndQuery(j) ==
  /\ At(j, "probe") \/ At(j, "wgshow")
  /\ \E answer \in {"ok", "failed"} : reply' = [reply EXCEPT ![j] = answer]
  /\ pc' = [pc EXCEPT ![j] = "done"]
  /\ job' = [job EXCEPT ![j] = None]
  /\ slots' = slots \ {j}
  /\ UNCHANGED <<holder, router, unsure>>

-----------------------------------------------------------------------------
(* DeployPeer and RemovePeer, under deployMu. *)

\* Mutation: the changes run side by side.
LockFree(j) ==
  /\ At(j, "lock")
  /\ holder' = j
  /\ Goto(j, "check")
  /\ UNCHANGED <<router, unsure>>

Lock(j) ==
  /\ At(j, "lock")
  /\ holder = None
  /\ holder' = j
  /\ Goto(j, "check")
  /\ UNCHANGED <<router, unsure>>

\* Validation of the request, the private-key placeholder, the paths.
Check(j) ==
  /\ At(j, "check")
  /\ \/ Goto(j, IF job[j].op = "deploy" THEN "writeWireGuard" ELSE "down") /\ UNCHANGED holder
     \/ Finish(j, "failed")
  /\ UNCHANGED <<router, unsure>>

\* Mutation: writeConfigFile writes in place, and may stop half-way.
WriteWireGuardInPlace(j) ==
  /\ At(j, "writeWireGuard")
  /\ \/ /\ wireguard' = [wireguard EXCEPT ![job[j].name] = job[j].config]
        /\ Goto(j, "writeBird") /\ UNCHANGED holder
     \/ Finish(j, "failed") /\ wireguard' = [wireguard EXCEPT ![job[j].name] = Mixed]
  /\ unsure' = unsure \union {job[j].name}
  /\ UNCHANGED <<bird, interface, loaded>>

\* writeConfigFile writes aside and renames: it replaces the whole file or nothing.
WriteWireGuard(j) ==
  /\ At(j, "writeWireGuard")
  /\ \/ /\ wireguard' = [wireguard EXCEPT ![job[j].name] = job[j].config]
        /\ unsure' = unsure \union {job[j].name}
        /\ Goto(j, "writeBird") /\ UNCHANGED holder
     \/ Finish(j, "failed") /\ UNCHANGED <<wireguard, unsure>>
  /\ UNCHANGED <<bird, interface, loaded>>

\* chownToGroup follows, on the directory and on the file.
WriteBird(j) ==
  /\ At(j, "writeBird")
  /\ \/ /\ bird' = [bird EXCEPT ![job[j].name] = job[j].config]
        /\ \/ Goto(j, "down") /\ UNCHANGED holder
           \/ Finish(j, "failed")
     \/ Finish(j, "failed") /\ UNCHANGED bird
  /\ UNCHANGED <<wireguard, interface, loaded, unsure>>

\* `wg-quick down`, whose result is ignored.  RemovePeer runs it only if the
\* WireGuard file is there.
Down(j) ==
  LET n == job[j].name IN
  /\ At(j, "down")
  /\ \/ /\ job[j].op = "deploy" \/ wireguard[n] # None
        /\ \E e \in Effects(interface[n], None) : interface' = [interface EXCEPT ![n] = e.after]
     \/ /\ job[j].op = "remove" /\ wireguard[n] = None
        /\ UNCHANGED interface
  /\ unsure' = unsure \union {n}
  /\ Goto(j, IF job[j].op = "deploy" THEN "up" ELSE "removeWireGuard")
  /\ UNCHANGED <<holder, wireguard, bird, loaded>>

\* What follows the interface and the files: the reload, if one is configured.
Proceed(j) ==
  IF Reload THEN Goto(j, "reload") /\ UNCHANGED <<holder, unsure>>
            ELSE Finish(j, "ok") /\ unsure' = unsure \ {job[j].name}

\* `wg-quick up` fails on an interface that exists.
Up(j) ==
  LET n == job[j].name
      effects == IF interface[n] = None THEN Effects(None, wireguard[n])
                                        ELSE {[exit |-> "failed", after |-> interface[n]]}
  IN
  /\ At(j, "up")
  /\ \E e \in effects :
       /\ interface' = [interface EXCEPT ![n] = e.after]
       /\ IF e.exit = "ok" THEN Proceed(j) ELSE Finish(j, "applied") /\ UNCHANGED unsure
  /\ UNCHANGED <<wireguard, bird, loaded>>

\* os.Remove; a file that is not there is no error.
RemoveWireGuard(j) ==
  /\ At(j, "removeWireGuard")
  /\ \/ /\ wireguard' = [wireguard EXCEPT ![job[j].name] = None]
        /\ Goto(j, "removeBird") /\ UNCHANGED holder
     \/ Finish(j, "applied") /\ UNCHANGED wireguard
  /\ UNCHANGED <<bird, interface, loaded, unsure>>

\* Mutation: the error of the second os.Remove is ignored.
RemoveBirdUnchecked(j) ==
  /\ At(j, "removeBird")
  /\ \/ bird' = [bird EXCEPT ![job[j].name] = None]
     \/ UNCHANGED bird
  /\ Proceed(j)
  /\ UNCHANGED <<wireguard, interface, loaded>>

RemoveBird(j) ==
  /\ At(j, "removeBird")
  /\ \/ /\ bird' = [bird EXCEPT ![job[j].name] = None]
        /\ Proceed(j)
     \/ Finish(j, "applied") /\ UNCHANGED <<bird, unsure>>
  /\ UNCHANGED <<wireguard, interface, loaded>>

\* Mutation: the result of the reload is ignored.
ReloadUnchecked(j) ==
  /\ At(j, "reload")
  /\ \E e \in Effects(loaded, bird) : loaded' = e.after
  /\ unsure' = unsure \ {job[j].name}
  /\ Finish(j, "ok")
  /\ UNCHANGED <<wireguard, bird, interface>>

\* deploy_reload_cmd: BIRD reads the snippets of all peers.
ReloadBird(j) ==
  /\ At(j, "reload")
  /\ \E e \in Effects(loaded, bird) :
       /\ loaded' = e.after
       /\ unsure' = IF e.exit = "ok" THEN unsure \ {job[j].name} ELSE unsure
       /\ Finish(j, IF e.exit = "ok" THEN "ok" ELSE "applied")
  /\ UNCHANGED <<wireguard, bird, interface>>

\* The answer has been sent and the goroutine ends.
Forget(j) ==
  /\ At(j, "done")
  /\ pc' = [pc EXCEPT ![j] = "idle"]
  /\ reply' = [reply EXCEPT ![j] = "none"]
  /\ UNCHANGED <<job, holder, slots, router, unsure>>

\* The service stops and starts again.
Stop ==
  /\ pc' = [j \in Job |-> "idle"]
  /\ job' = [j \in Job |-> None]
  /\ reply' = [j \in Job |-> "none"]
  /\ holder' = None
  /\ slots' = {}
  /\ UNCHANGED <<router, unsure>>

-----------------------------------------------------------------------------
ChangeStep(j) ==
  \/ Check(j) \/ WriteWireGuard(j) \/ WriteBird(j) \/ Down(j) \/ Up(j)
  \/ RemoveWireGuard(j) \/ RemoveBird(j) \/ ReloadBird(j)

Next ==
  \/ \E j \in Job :
       \/ \E w \in Changes : SubmitChange(j, w)
       \/ \E w \in Queries : SubmitQuery(j, w)
       \/ Birdc(j) \/ EndQuery(j) \/ Lock(j) \/ ChangeStep(j) \/ Forget(j)
  \/ Stop

SafeSpec == Init /\ [][Next]_vars

(***************************************************************************)
(* Fairness: every external command ends, or is killed after               *)
(* command_timeout_seconds, so that a running job takes its next step; and *)
(* sync.Mutex hands a long-contended lock to a waiter (its starvation      *)
(* mode), so that no waiting change is passed over for ever.               *)
(***************************************************************************)
Fairness == \A j \in Job :
  WF_vars(ChangeStep(j)) /\ WF_vars(Birdc(j)) /\ WF_vars(EndQuery(j)) /\ SF_vars(Lock(j))

Spec == SafeSpec /\ Fairness

-----------------------------------------------------------------------------
(* Properties. *)

Replies(j, op) == job[j] # None /\ job[j].op = op /\ pc'[j] = "done"

\* An ok deploy is the truth when it is told: both files, the interface and BIRD are
\* those of the request, whatever other changes, stops and failures came before.
DeployIsTrue ==
  [][\A j \in Job : Replies(j, "deploy") /\ reply'[j] = "ok" =>
       LET n == job[j].name c == job[j].config IN
       /\ wireguard'[n] = c /\ bird'[n] = c /\ interface'[n] = c
       /\ Reload => loaded'[n] = c]_vars

\* The two files of a peer, and what BIRD has loaded of it, agree unless a change of
\* that peer is under way, failed or was cut off.
SettledAgree ==
  \A n \in Name \ unsure : wireguard[n] = bird[n] /\ (Reload => loaded[n] = bird[n])

\* Slots are neither leaked nor exceeded: they are held exactly by the queries that run.
SlotsInUse ==
  /\ slots = {j \in Job : pc[j] \in QuerySteps}
  /\ MaxConcurrency # 0 => Cardinality(slots) <= MaxConcurrency

\* No change waits for deployMu for ever.
ChangesEnd ==
  \A j \in Job : pc[j] = "lock" ~> pc[j] \in {"done", "idle"}

\* The store a node promises: the files and BIRD's view of each peer, taken together.
Installed(n) ==
  IF wireguard[n] = bird[n] /\ (Reload => loaded[n] = bird[n]) THEN bird[n] ELSE Mixed

Goal(j) ==
  IF job[j] \in Changes THEN job[j] ELSE None

Store == INSTANCE PeerStore WITH
  Change <- Changes,
  busy <- holder,
  goal <- [j \in Job |-> Goal(j)],
  installed <- [n \in Name |-> Installed(n)]

\* deploy and remove, with all their steps and failures, are the changes of PeerStore.
ImplementsStore == Store!Spec
=============================================================================
