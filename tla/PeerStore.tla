------------------------------ MODULE PeerStore ------------------------------
(***************************************************************************)
(* What a node promises about the peer configuration it is asked to        *)
(* change (peers.deploy and peers.remove).  The changes happen one at a    *)
(* time.  A change that ends "ok" leaves its peer as asked.  A change that *)
(* fails, or is cut off when the service stops, leaves its peer unsure:    *)
(* the old, the new, or a mixture of both.  BIRD reloads all peers at      *)
(* once, so that a mixture may still move when another peer is changed; a  *)
(* peer of which files and BIRD agree is touched by nobody but its own     *)
(* change.                                                                 *)
(***************************************************************************)
CONSTANTS
  Job, Name, Config, None, Mixed,
  Change   \* the requests: records with a name and a config, None to remove

VARIABLES
  busy,       \* the job that is changing the configuration, or None
  goal,       \* goal[j]: the change job j is to make, or None
  installed,  \* installed[n]: the configuration of peer n, or Mixed
  unsure      \* the names being changed, and those whose last change did not end ok

vars == <<busy, goal, installed, unsure>>

TypeOK ==
  /\ busy \in Job \union {None}
  /\ goal \in [Job -> Change \union {None}]
  /\ installed \in [Name -> Config \union {None, Mixed}]
  /\ unsure \subseteq Name

Init ==
  /\ busy = None
  /\ goal = [j \in Job |-> None]
  /\ installed = [n \in Name |-> None]
  /\ unsure = {}

Ask(j, c) ==
  /\ goal[j] = None
  /\ goal' = [goal EXCEPT ![j] = c]
  /\ UNCHANGED <<busy, installed, unsure>>

Begin(j) ==
  /\ busy = None
  /\ goal[j] # None
  /\ busy' = j
  /\ UNCHANGED <<goal, installed, unsure>>

\* Of the other peers, only those that are unsure and Mixed may move.
OthersStay(j) ==
  /\ installed' \in [Name -> Config \union {None, Mixed}]
  /\ \A n \in Name \ {goal[j].name} :
       n \notin unsure \/ installed[n] # Mixed => installed'[n] = installed[n]

Work(j) ==
  /\ busy = j
  /\ unsure' = unsure \union {goal[j].name}
  /\ OthersStay(j)
  /\ UNCHANGED <<busy, goal>>

Succeed(j) ==
  /\ busy = j
  /\ busy' = None
  /\ goal' = [goal EXCEPT ![j] = None]
  /\ unsure' = unsure \ {goal[j].name}
  /\ OthersStay(j)
  /\ installed'[goal[j].name] = goal[j].config

\* The peer stays unsure if the change had begun to touch it.
Fail(j) ==
  LET n == goal[j].name IN
  /\ busy = j
  /\ busy' = None
  /\ goal' = [goal EXCEPT ![j] = None]
  /\ OthersStay(j)
  /\ n \notin unsure => installed'[n] = installed[n]
  /\ UNCHANGED unsure

\* The service stops: the job that was changing the configuration, and all that waited, are gone.
Stop ==
  /\ busy' = None
  /\ goal' = [j \in Job |-> None]
  /\ UNCHANGED <<installed, unsure>>

Next ==
  \/ \E j \in Job : Begin(j) \/ Work(j) \/ Succeed(j) \/ Fail(j) \/ \E c \in Change : Ask(j, c)
  \/ Stop

Spec == Init /\ [][Next]_vars
=============================================================================
