------------------------------- MODULE NodeRPC -------------------------------
(***************************************************************************)
(* What NodeHub.request (app/node_ws.py) promises the code that calls it.  *)
(* A request is refused at once, or opened and then closed with exactly    *)
(* one outcome.  The node runs the command of an opened request at most    *)
(* once and never that of a refused one; "ok" and "error" are the verdict  *)
(* of a run that has finished; "timeout" and "offline" say nothing about   *)
(* the node: the command may not have been run, may be running, and may    *)
(* even start after the caller was told.                                   *)
(***************************************************************************)
CONSTANT Request

Outcomes == {"none", "ok", "error", "timeout", "offline", "disabled"}

VARIABLES
  phase,     \* phase[r]: where the caller of request r stands
  outcome,   \* outcome[r]: what request() returned or raised
  ran,       \* the requests whose command the node has started
  served     \* served[r]: the verdict of the node's run, once it has finished

vars == <<phase, outcome, ran, served>>

TypeOK ==
  /\ phase \in [Request -> {"idle", "open", "refused", "closed"}]
  /\ outcome \in [Request -> Outcomes]
  /\ ran \subseteq Request
  /\ served \in [Request -> {"none", "ok", "error"}]

Init ==
  /\ phase = [r \in Request |-> "idle"]
  /\ outcome = [r \in Request |-> "none"]
  /\ ran = {}
  /\ served = [r \in Request |-> "none"]

Open(r) ==
  /\ phase[r] = "idle"
  /\ phase' = [phase EXCEPT ![r] = "open"]
  /\ UNCHANGED <<outcome, ran, served>>

Refuse(r) ==
  /\ phase[r] = "idle"
  /\ phase' = [phase EXCEPT ![r] = "refused"]
  /\ \E o \in {"offline", "disabled"} : outcome' = [outcome EXCEPT ![r] = o]
  /\ UNCHANGED <<ran, served>>

\* Mutation: a request is delivered again, to a node that has started it before.
RunAgain(r) ==
  /\ phase[r] \in {"open", "closed"}
  /\ ran' = ran \union {r}
  /\ UNCHANGED <<phase, outcome, served>>

\* The node starts the command, perhaps after the caller has given up.
Run(r) ==
  /\ phase[r] \in {"open", "closed"}
  /\ r \notin ran
  /\ ran' = ran \union {r}
  /\ UNCHANGED <<phase, outcome, served>>

Serve(r) ==
  /\ r \in ran
  /\ served[r] = "none"
  /\ \E v \in {"ok", "error"} : served' = [served EXCEPT ![r] = v]
  /\ UNCHANGED <<phase, outcome, ran>>

Answer(r) ==
  /\ phase[r] = "open"
  /\ served[r] # "none"
  /\ phase' = [phase EXCEPT ![r] = "closed"]
  /\ outcome' = [outcome EXCEPT ![r] = served[r]]
  /\ UNCHANGED <<ran, served>>

GiveUp(r) ==
  /\ phase[r] = "open"
  /\ phase' = [phase EXCEPT ![r] = "closed"]
  /\ \E o \in {"timeout", "offline"} : outcome' = [outcome EXCEPT ![r] = o]
  /\ UNCHANGED <<ran, served>>

Next == \E r \in Request :
  Open(r) \/ Refuse(r) \/ Run(r) \/ Serve(r) \/ Answer(r) \/ GiveUp(r)

SafeSpec == Init /\ [][Next]_vars

\* An opened request does not stay open: every caller gets an outcome.
Spec == SafeSpec /\ \A r \in Request : WF_vars(Answer(r) \/ GiveUp(r))
=============================================================================
