# A verification project for dn42-autopeer

The repository is an automatic peering service for a dn42 network. A *backend* (FastAPI, SQLite or
another SQL database, a Telegram bot beside it) keeps users, nodes and peers. A *node service* (Go)
runs on every router; it keeps one websocket to the backend and does what the backend asks over it:
install a peer's WireGuard tunnel and BIRD session, remove them, answer looking-glass queries. This
directory holds TLA+ models of the parts whose correctness depends on interleavings and failures,
TLC runs that check them on small instances, and TLAPS proofs that the main results hold for any
number of nodes, connections, requests, jobs, workers, peers, accounts and admins.

## 1. Inventory

| component | source | state | operations | modelled in |
|---|---|---|---|---|
| Node hub | `app/node_ws.py` | `_connections`, `_runtime`, one `NodeConnection` with its `pending` futures and `send_lock` per websocket | `register`, `unregister`, `request`, `handle_message`, the websocket route | `NodeHub` |
| Node client | `internal/backend/client.go` | the current `wsConn`, the goroutines that run commands | `Run`, `runOnce`, `heartbeatLoop`, `handleRequest`, frames | `NodeHub` |
| Node service commands | `internal/api/server.go`, `internal/runner/runner.go` | `deployMu`, `sem`; on the router: two files per peer, its interface, what BIRD has loaded | `Command`: deploy, remove, status, looking glass | `NodeService` |
| Peer lifecycle | `app/peer/service.py`, `deploy.py`, `queries.py`, `app/db/` | the `peer_requests` table; per request a database session and a thread | create, update (with or without redeploy or move), redeploy, delete | `PeerBackend`, over nodes in `PeerLifecycle` and `PeerSystem` |
| Peer routes | `app/web/portal.py`, `app/web/admin.py`, `app/api/telegram.py` | none of their own | which operation is called with which arguments | `PeerBackend` |
| Node administration | `app/web/admin.py` | the `nodes` table; in the hub, what it remembers to have stored of a node | create, edit, delete, refresh key, reset token | `NodeAdmin` |
| Login and links | `app/auth/`, `app/web/pages.py`, `app/api/telegram.py`, `app/web/admin.py` | `auth_challenges`, `users`, `asn_identities`, `telegram_bindings` | issue and consume a challenge, log in by Kioubit or FindNOC, link, log out, pre-register, toggle admin, unlink | `Accounts` |
| Telegram bot | `app/bot/main.py` | FSM state and data per chat and user; the tasks of updates under way | wizards, `/cancel`, looking-glass commands and buttons | `BotWizard` |
| Looking glass | `app/lg/`, `app/web/lg.py` | the rate limiter's deques | query, summarise | node side only |
| Names, ports, rendering | `app/peer/config.py`, `validation.py` | none | pure functions over strings | `PeerNames`, but rendering |
| Settings, database set-up | `app/config.py`, `app/db/init_db.py`, `app/main.py`, `internal/config` | none after start | load, create tables, migrate columns | no |
| Launcher | `start.py` | child processes | start, stop | no |

How they interact:

* A web or bot request runs in a thread of the backend's pool. An operation on a peer commits the
  row, calls `request_node_sync`, which runs `NodeHub.request` on the event loop, and commits the
  result in a second transaction. No lock spans the call.
* `NodeHub.request` puts a future into the `pending` of the node's current connection, sends a frame
  and waits at most its timeout. The connection's handler resolves the future when the answer comes,
  or fails it when the connection is replaced or ends.
* The node starts a goroutine per request, so its commands run side by side. Changes serialise on
  `deployMu`; queries share a semaphore that refuses. The answer goes out on the link the request
  came in on, and is lost with it.
* A caller that was told "timed out" or "offline" knows nothing of the node: the command may run
  later. Nothing in the code reconciles a row with its node afterwards.
* The hub writes into the `nodes` rows that the admin pages edit, from threads of its own. Both load
  the whole row and write the columns they changed.
* A login is several requests of a user's browser, Kioubit and the bot, tied together by a challenge
  token, and up to four commits in the backend. Peers belong to the user a login leads to.

What is hard here, and where it is listed: `PROJECT.json` names forty hazards by line. In short:
two connections of one node alive at once; late answers; a dead link that only one end has noticed;
a failing database write inside the handler; partial failure and stops between the six steps of a
deploy; reloads that read all peers; check-then-insert; results written into rows that others have
changed; timeouts whose command still runs; moves between nodes; a key remembered as stored that is not;
challenges that two requests read; links and admin rights that change during a login; the bot's replies
that come in after the user has gone on; a number that is read off an older list.

What makes each component correct:

* Hub: online state is the registration, a registration is the newest connection, no request waits
  where nothing can end it, an answer goes to its own request only, every call returns.
* Node service: an `ok` deploy is the truth; a peer that no change is working on is consistent, and
  no other peer's change disturbs it; the cap on queries is neither exceeded nor eaten by leaks.
* Peer lifecycle: one peer per ASN and node; a row marked "deploying" is followed by a result; a row
  at rest that says "deployed" or "removed" is what the node has.
* Node administration: the row of an enabled node ends up with the node's key; saves and status writes
  undo nothing of each other; a node that has peers is not deleted.
* Accounts: one user per ASN; a Telegram account is linked only to an ASN it has shown; admin rights
  differ from what `LOCAL_ASN` gives only where an admin chose so; a consumed challenge is refused.
* Names: two peers of a node share a port only if their ASNs share the last five digits; a tunnel has two
  different ends.
* Bot: a step finds the answers of its own wizard's run; what is sent is what was answered, once; a
  button runs the query it was shown with.

## 2. Modules

| module | what it is |
|---|---|
| `NodeRPC` | abstract: what `NodeHub.request` promises its caller |
| `NodeHub` | detailed: hub, link and client; implements `NodeRPC` |
| `PeerStore` | abstract: what a node promises about the changes it is asked for |
| `NodeService` | detailed: dispatcher and runner on one node; implements `PeerStore` |
| `PeerBackend` | the backend's operations on peers, without anything of the nodes |
| `PeerLifecycle` | abstract in its nodes: `PeerBackend` over nodes whose calls end, fail, run late or never |
| `PeerSystem` | composed: `PeerBackend`, one channel `NodeRPC` and a `PeerStore` per node; implements `PeerLifecycle` |
| `BotWizard` | the bot's conversation with one user, over a backend that may answer anything |
| `NodeAdmin` | one node's row with all its writers: admin pages, hub, restarts |
| `Accounts` | users, challenges and Telegram links with the requests that read and write them |
| `PeerNames` | what is derived from ASNs, and the peers that have it |
| `NodeHubProofs`, `NodeServiceProofs`, `PeerLifecycleProofs`, `PeerSystemProofs`, `BotWizardProofs`, `NodeAdminProofs`, `AccountsProofs`, `PeerNamesProofs` | the theorems |
| `MCNodeHub`, `MCNodeService`, `MCPeerLifecycle`, `MCPeerSystem`, `MCBotWizard`, `MCNodeAdmin`, `MCAccounts` | symmetry sets and small constants for TLC |

The layers meet at the abstract modules:

```
NodeHub      implements  NodeRPC   \
                                     PeerSystem (with PeerBackend)  implements  PeerLifecycle
NodeService  implements  PeerStore /
```

`PeerLifecycle` says of a node call what its caller can know: it ends with the node's verdict, or without
one, and then may still run; a change that does not end ok may leave anything of its own peer and nothing of
another that was not left in a mixture. `PeerSystem` puts the real order of things in its place (a request is
opened in the channel, run by a goroutine of its node, which waits for the node's lock, works and returns; its
result travels back, or is lost) and implements it. `NodeAdmin` is the
hub again, seen from the row it writes: requests and futures are left out, and the status writes,
which are one step in `NodeHub`, have their query, their commit and their failure. `PeerNames` is the
data that `PeerBackend` abstracts to configurations.

### NodeHub

An action is the code between two awaits (backend) or between two blocking calls (node).

| code | actions |
|---|---|
| `runOnce`: dial, authenticate, hello | `Dial` |
| `heartbeatLoop` | `Heartbeat`; its failing write, like a failing read, is `ClientNotices` |
| the link | `ClientDrops`, `ServerDrops`, `ServerNotices`: each end closes on its own |
| process stop on the node | `NodeStops` |
| `register`: swap and `fail_pending` / close of the old / status write | `Register`, `ClosePrevious`, `Stored`; `RegisterFails` for a close or a write that raises |
| receive loop, `handle_message`, `record_seen` | `HandleResponse`, `HandleHeartbeat`, `Stored` or `PersistFails` |
| `finally: unregister` | `Unregister`, inside `ReadFails` and `PersistFails` |
| `request` | `Request_` or `Refuse`; `Transmit` and `SendReturns` (the frame goes out under `send_lock`) or `SendFails`; `TimerFires`; `Resume` |
| node: read loop, `handleRequest` | `StartCommand`, `Answer` |
| connection objects that nothing refers to | `Collect` (a `Conn` is used again) |

`Refuse` with "disabled" needs no condition on the hub: the row that `request` is given was read
earlier, by its caller. `TimerFires` may cancel a future that is resolved already, as `wait_for` does
when the timer is handled before the waiter is resumed. `runs`, `served` and `outcome` are history.

### NodeService

A job is a goroutine. Each external command, each rename and each `os.Remove` is a step and may
fail; one that fails or is killed by its timeout may have had its effect (`Effects`). Files,
interfaces and BIRD survive `Stop`, jobs and locks do not. `chownToGroup` follows the write of the
BIRD snippet in one action (`WriteBird`), with its own failing exit. `Down` ignores its result, as
the code does. `unsure` is history: the names a change has touched and not ended ok since.

### PeerBackend, PeerLifecycle, PeerSystem

A worker is a request's thread with its session.

| code | actions |
|---|---|
| `create_peer`, `update_peer`, `admin_redeploy_peer`: checks, and the row the session wants | `Create`, `Edit` (from the bot), `Save` (from the admin pages), `Redeploy` |
| flush and commit of the first transaction, with the snapshot the node call uses | `Flush`, `FlushFails` |
| `request_node_sync` | `CallReturns`, inside `NodeAnswers` and `GiveUp`, or `Answered`, `TimesOut` and `Refused` |
| load / commit of the second transaction | `Reread` / `Write` |
| `_teardown_orphan_on_old_node` | `OrphanOrEnd` |
| `delete_peer`: node call / commit | `Delete` / `DeleteRow` |
| the process | `BackendRestarts`, inside `Restart` |

`Merge` is what SQLAlchemy does: a session
updates the columns it changed, so two sessions' updates of one row mix by column. `FlushRefused` is
the database's refusal: a row that is gone, or `uq_peer_node_asn`. All peers of the model are of one
ASN; peers of different ASNs share no row, constraint or file. `doubtful`, `unsaved` and `cut` are
history: pairs of a peer and a node that the peer's row may be wrong about; peers saved without a
deployment; peers whose operation a restart of the backend cut off. A pair becomes doubtful when
the peer's operations overlap (with every node), when a call to the node does not end ok, and when a restart
cuts the operation off. It stops being so when the peer is created anew, or when an operation that will call
the peer's node (`Edit`, `Redeploy`, `Delete`, but not an admin's `Save`, which may call nobody) begins while
nobody else works on the peer and no abandoned call about it may still run on the node (`Renewed`); if that
operation's call fails, the pair is doubtful again. `QuietRowIsTrue` is about the pairs that are not
doubtful, so it says that a redeploy that runs alone and ends ok repairs its node.

The nodes of `PeerLifecycle` have three variables: what each has `installed`, the calls that are `late`
because their caller has gone, and the `verdict` that a call has come to when its answer has not arrived.
`NodeWorks` is any step of a command, `NodeEnds` and `LateEnds` its last one, and `LateLost` a node
that stops.

In `PeerSystem` `request_node_sync` is `Send` (the hub takes the request) or `Refused`, then `Answered` or
`TimesOut`; a node's command is `Receive`, `Lock`, `Work`, and `Succeed` or `Fail`; `NodeStops` and the
backend's `Restart` come when they like. Each of these is a step of `NodeRPC`, of one node's `PeerStore`, or
of both. `says` is the result in the answer, and `served` is the envelope around it: a command that fails
mostly answers an ok envelope with `ok: false` inside, and the row follows the inner one.

### BotWizard

aiogram handles every update in a task of its own and does not wait for the one before, so a user's
messages, taps and late replies interleave at the awaits of the backend and of Telegram. Its
`MemoryStorage` does not suspend: what a handler does between two awaits is an action.

| code | actions |
|---|---|
| `create_cmd`, `edit_cmd`, `delete_cmd`: clear and ask / store and show the first question | `Enter` / `Opened` |
| `cancel_cmd` | `Cancel` |
| `create_node_step`; `edit_choose_step`, `delete_choose_step` | `ChooseNode`; `ChoosePeer` |
| the steps that store one answer and go on | `AnswerField` |
| `create_bgp_extended_step`: store, preview / confirm | `AnswerBgp` / `Previewed` |
| `create_confirm_step`, `edit_mtu_step`, `delete_confirm_step`: clear and send | `ConfirmCreate`, `AnswerMtu`, `ConfirmDelete` |
| `run_lg`: ask for the nodes / token and query into the data / message with buttons | `LgCommand` / `LgNodes` / `LgMenu` |
| `lg_choose` | `Tap` |
| `call_backend` reports an error, or the list is empty | `Fails` |
| the last await of a handler | `Done` |
| the process | `Restart` |

A list of peers is what the backend answered to the latest `/editpeer` or `/deletepeer`: its order and
length differ between two commands (`PeerLists`), and `ChoosePeer` looks the typed number up in the one that
is stored. Text that a step rejects changes nothing and is no action. `answers`, `accepted` and `cancelled` are
history: what was answered since the first question, the form of the last preview that succeeded, and
that the last command was a `/cancel`. Groups, where only the looking glass works, have conversations
of their own, because the storage is keyed by chat and user.

### NodeAdmin

| code | actions |
|---|---|
| `_authenticate_node` | `Dial` |
| `register`: swap and close / status write | `Register` / `Load`, `Stored` or `StoreFails` |
| `record_seen`, `_persist_seen_if_needed` | `Heartbeat`, then `Load`, `Stored` or `StoreFails`; `Tick` is the interval |
| the route's `finally` | `Ends`, and inside `StoreFails` |
| `admin_create_node`, `admin_reset_node_token` | `CreateNode`, `ResetToken` |
| `admin_update_node`, `admin_refresh_node_pubkey`: load / ask the node / commit | `Update`, `Refresh` / `Fetch` / `Save` |
| `admin_delete_node`: look for peers / commit | `Delete` / `DeleteRow` |
| `create_peer`, `admin_create_peer`, a move by `update_peer` or `admin_update_peer`: find the node / write the row; `delete_peer` | `AddPeer` / `InsertPeer`; `RemovePeer` |
| the operator, the network, the processes | `Configure`, `Reconfigure`, `LinkDrops`, `BackendRestart` |

There is one row, created once: its name and the columns that only the update page writes are left
out, and so are the other nodes, which share nothing with it. `Merge` is the unit of work of
SQLAlchemy as in `PeerLifecycle`: a column that a session did not change keeps what others wrote. A connection that was
replaced may still have frames to be read, and its handler a write under way. `AddPeer` accepts a
disabled node, as the admin pages do. `raced` is history: that the deletion of the node and the creation of a peer on it overlapped.

### Accounts

A request is a thread with its session; each of its steps is a query or a commit.

| code | actions |
|---|---|
| `login_page`; `telegram_challenge` | `LoginPage`; `KioubitLogin` |
| `kioubit_callback`; `web_app_data` with `telegram_verify` | `Callback`; `WebAppData` |
| `consume_challenge`: checks / commit, then the comparison of accounts | `ReadChallenge` / `Consume` |
| `login_cmd`, `fnlogin_choose` with `telegram_findnoc_login` | `LoginCmd`, `Choose` |
| `_upsert_user_for_asn`: query / commit | `Lookup` / `Insert` or `Upsert` |
| the audit row | `Identity` |
| `bind_telegram`: query / commit | `Bind` / `LinkRow` |
| `telegram_logout` | `Logout` |
| `admin_create_peer`, where it adds a user | `PreRegister` |
| `admin_toggle_user_admin`: load / commit | `Toggle` / `SaveToggle` |
| `admin_unlink_telegram`: list / each `unbind_telegram` | `Unlink` / `UnlinkOne` |
| an exception, a refused INSERT or UPDATE, the end of the backend | `Fails` |

The envelope that Kioubit signs carries a token and an ASN; whoever opened the page of the token's
challenge showed the ASN, so the challenge's owner is the prover. The ASNs FindNOC lists for an
account are any set at any time. `prover` and `asn` of a link and `spent` are history: who showed which
ASN, and how often a challenge was consumed since it was issued. `LoginCmd` ends a login with no ASN in the
Kioubit challenge and asks for a choice where there are several.

### PeerNames

An ASN is a record of its last five digits and those before, because ports, names and suffixes are
cut from the end; an address is a network and a host number, and `Hex` is what becomes of decimal digits
that are read as hexadecimal ones. `Accepted` and `Ends` are `normalize_peer_input`; a listen port
that is out of range is 0 and makes the deployment fail, as the `ValueError` does. The backend takes any
ASN, and so does the module; `PortsDistinct` is what the code's docstring concludes, `PortsConflictByTail`
what holds.

## 3. Runs

| run | instance | what it asks |
|---|---|---|
| `hub` | 1 node, 3 connections, 1 request, 1 fault, fairness | `OnlineIffRegistered`, `SupersededIsClosed`, `PendingOnlyOnCurrent`, `NoStrandedRequest`, `OnlyOwnHandlerTakesOffline`, `ImplementsRPC`, `RequestsFinish`, `EventuallyServed` |
| `service` | 2 jobs, 2 peers, 1 configuration beside "absent" and "mixed", 1 slot, reload, fairness | `SettledAgree`, `SlotsInUse`, `DeployIsTrue`, `ImplementsStore`, `ChangesEnd` |
| `peers_operations` | 2 workers, 1 peer, 2 nodes, 2 configurations, all operations | `DeployingIsInProgress`, `QuietRowIsTrue` |
| `peers_races` | 2 workers, 2 peers, 1 node; create, delete; 1 late call, 1 restart, fairness | `OnePeerPerNode`, `QuietRowIsTrue`, `DeployingEnds` |
| `system` | 2 workers, 1 peer, 1 node, 2 requests; create, redeploy, delete; 1 restart of the backend, any of the node | `QuietRowIsTrue`, `ImplementsLifecycle` |
| `bot_wizards` | 2 tasks, 1 node, lists of one or both of 2 peers in any order, 2 menus, 2 queries, two choices for one address and for BGP | `DataIsAnswers`, `SendsWhatWasAnswered`, `TapRunsItsQuery` |
| `nodeadmin` | 2 connections, 1 worker, 2 keys, 1 fault, fairness | `NoOrphanPeer`, `ColumnsHaveOneWriter`, `KeyCatchesUp` |
| `accounts` | 2 users, 2 ASNs (one is `LOCAL_ASN`), 2 Telegram accounts, 1 challenge, 2 requests | `OneUserPerAsn`, `LinkIsProved`, `OnlyTogglesOverrule`, `ReplayIsRefused` |
| `hub_leak`, `peers_moved`, `bot_cancel`, `accounts_challenge` | minimal | four of the divergences of section 5 |

One run per component also checks the type invariant. Every passing run is exhaustive within its
bounds.

Why the bounds are enough:

* Three connections are the smallest number in which a connection replaces one that is itself still
  closing its predecessor; connections are reused, so the number of reconnections is not bounded.
  The one request, used once, may be sent and answered before, during and after every swap. That an answer
  never reaches another request is part of `Refinement`, which has any number of requests. A second node
  would bring nothing: the hub's state is kept per node, and the safety properties are also proved for any
  number of each.
* Two jobs are one change that runs and one that waits or queries; two peers are needed for a reload
  that reads another peer's half-done snippet. One configuration beside "absent" and "mixed" tells
  files that were written from files that were not; that an old one is told from a new one rests on the
  proofs, which have any number. With one slot and two jobs the semaphore is at its limit, and a job
  that is used again and again can pass over the other one, which is what `ChangesEnd` is about.
* Two workers give every pairwise overlap of operations on one peer, and two nodes every move; two
  peers on one node are what the unique constraint is about. `peers_races` has fewer operations, because a
  liveness property admits no reduction by symmetry here; how two deployments of one peer write
  its row is in `peers_operations`.
* In `system` two requests are one that is late, or cut off by a restart, and one that overtakes it. That
  a change of one peer moves the mixture another one has left would need a third request, for which the
  instance is too large; it is in `peers_races`, and in the proof that `PeerSystem` implements that.
  Requests are used once: a bound on how long TLC follows the system, not on what the theorems cover.
* Two tasks let a late reply, or a second command, meet every step of a wizard or of a query. Fields
  differ by place, so one value each would do; the address and BGP have two because a skipped address
  is read with a default. Two menus and two queries can be confused, and so can two peers; two lists of
  them can differ in order and in length, so that a number is another peer's or nobody's in the other one.
* In `nodeadmin` two connections are an old handler, perhaps with a write under way, and a new one; one
  admin worker meets both, and two keys are an old and a new one. The fault is a lost write, a broken
  link, a restart of the backend or a restart of the node with the other key; links also end without a fault, when they are replaced.
  Two admins who save the same node at once are left to the proof of `ColumnsHaveOneWriter`, which has any number.
* In `accounts` two requests are every pairwise overlap; two users and two ASNs can be confused and
  collide, and so can two accounts. One challenge at a time is enough, because it is issued again
  when it is dead: what is stale is a request that holds the old one, and `Held` keeps random tokens apart.
  `accounts_challenge` needs two requests and one of everything else.
* `PeerNames` has no run: what holds of it is proved.
* `MaxFaults`, `MaxLate` and `MaxRestarts` are the only bounds on counters; `spent` counts from 0 for each challenge that is issued. Everything else is reused: jobs,
  connections, peer ids, tasks and menus. Requests are used once, so that their history means something.

`nodeadmin` identifies states up to a renaming of the keys although it has a liveness property: the
formula and every fairness condition are the same for all keys, so a behaviour and its renamings fulfil
them alike. No run with a liveness property is reduced by a set that fairness tells apart.

Deadlock is checked in the hub, service, bot and accounts runs. In the peer runs it is not: a backend that
nobody asks anything may stand still, and in a run without deletes of orphaned ids the ids run out; in `PeerSystem` so do the requests. Nor in
`nodeadmin`, where nothing has to happen once the node is deleted.

### Fairness

* The event loop runs what is ready: weak fairness of `Register`, `ClosePrevious`, `Stored`,
  `ReadFails`, `Resume`, `TimerFires`. A socket write drains or fails: `SendReturns`, `SendFails`.
* `asyncio.Lock` wakes its waiters in order: strong fairness of `Transmit` and `SendFails`, which are
  enabled again and again while others hold the lock.
* A closed link is noticed: by the websocket keep-alive at the backend, by the heartbeat write every
  20 s at the node (`ClientNotices`, `ServerNotices`). The client dials again after 5 s (`Dial`).
* `Collect` stands for fresh objects: there is always another connection object to be had.
* On the node, external commands are killed after `command_timeout_seconds` (`ChangeStep`, `Birdc`,
  `EndQuery`), and Go's mutex hands itself to a waiter that has starved (`SF(Lock)`).
* In `NodeAdmin` the node dials when it has no link and sends a heartbeat every 20 s, the event loop runs
  the handlers, threads go on, node calls end and time passes (`Dial`, `Heartbeat`, `Ends`, `Register`,
  `Threads`, `Finish`, `Tick`). The admins and the operator need do nothing; `KeyCatchesUp` supposes
  that in the end they leave the node enabled and configured with its token.
* In `PeerLifecycle` threads go on and node calls end, which is what `RequestsFinish` says. `PeerSystem`
  states no fairness: its refinement is of the steps.

Nothing is assumed of the nodes' commands in the hub, of the nodes in the peer lifecycle, or that
anybody ever asks for anything.

## 4. Proofs

All theorems hold for every value of the constants that satisfies the named assumptions: `None` and
`Mixed` are no members of the other sets, limits are natural numbers, a request record is not
`None`, `LOCAL_ASN` is an ASN, and the bot's lists are non-empty sequences of peers. None of the sets is assumed finite; in `NodeServiceProofs` finiteness of `slots` is part of
the invariant, because the semaphore counts it.

**NodeHubProofs.** The properties are not inductive: that a late `unregister` is harmless rests on
which connection may stand where. The invariant adds, for connections (`ConnInv`), that a handler in
use knows its node, and that a registered connection is one of its own node, past the swap of its
`register` and not yet gone; for requests (`RequestInv`), that the coroutine's position, its
connection and its future fit together, and that only a registered connection holds pending ids; and
for the wire (`WireInv`), that a frame, a running command, an answer on its way and a resolved future are
stages of the same run, so that a request is run at most once and its verdict is the one served.
`WireInv` is what the refinement needs: `Answer` of `NodeRPC` may only report a run that has
finished. `ClosingInv` is for superseded connections: from
the swap on, an open connection that is not its node's registered one has a successor that is about to
close it, even while its own `register` goes on. `TypeCorrect`, `SupersededAreClosed`, `PendingIsCurrent`, `NoneStranded`, `OnlineIsRegistered`, `OfflineIsOwn` and
`Refinement` follow.

**NodeServiceProofs.** `LockInv` says that a job between `Lock` and its end is the holder, and thus
alone; `DoneInv` says what a job at each step has already put in place (at `up` both files are those of
the request, at `reload` the interface too); `SettledAgree` and `SlotInv` are carried along. `Settled`,
`Capped` and `DeployTrue` follow, and `StoreRefinement` maps the eight steps of a change to `Work`,
`Succeed` or `Fail` of `PeerStore`.

**PeerLifecycleProofs.** `WorkInv` says what a worker at each step holds (a subject, the row it
loaded, the row it wants, the call it waits for). `OnePeerPerNode` is inductive with it, since the
flush is where the database looks. `ProgressInv` strengthens `DeployingIsInProgress`: the worker that
is to overwrite the mark has not loaded the row yet, or has loaded it with the mark. A session that had
loaded another `deploy_status` might write the column back unchanged, which SQLAlchemy leaves out of
the UPDATE, and the mark would stay. `OnePeer`
and `Progress` follow.

`QuietInv`, in the same module, is for `QuietRowIsTrue`. It says of every peer that some node is sure of
(`Sure`: the pair is not doubtful): no late call about it is at a sure node, at most one worker is at work on
it, and either none is and its row is true of the sure nodes, or `StageOK` says what that worker has established
at its step and which of them (the one it calls, the one the peer moves away from) may still be wrong. The
frame lemmas (`PeerKept`, `OnlyOne`, `OwnPeer`) reduce each action to the peer of its own worker. A call that
fails takes its node out of the sure ones, and the operation goes on for the others; an operation that begins
alone brings its row's node in, as one that may still be wrong, whatever that node has (`BeginsQuietly`). A
flush that the database refuses would end an operation whose node may still be wrong, so the proof needs
`OnePeerPerNode`: only a create or a move can be refused, and neither begins with such a node. `QuietInv` was checked with TLC in the
passing runs of `PeerLifecycle` before it was proved.

**PeerSystemProofs.** That backend, channel and nodes together do what `PeerLifecycle` says. Under the
mapping, the late calls are those of the requests that are abandoned (nobody waits for them) and may still be
run or run on, and a worker's verdict is what the node's result for its request says. A node's `Lock` and
`Receive` are stutters, `Work` is `NodeWorks` of a call that is outstanding or late, `Succeed` and `Fail` are
`NodeEnds` or `LateEnds` according to whether the caller still waits, and a stop of the node is `LateLost`,
or a stutter for the callers, which will give up. `IInv` is what this rests on, in named parts that TLC
checked first: what was sent and what the channel has done fit together, and a result is there exactly when
the request was served (`ChannelInv`); a job's goal is that of the call its request was sent for, on that
call's node, once (`GoalInv`); the holder of a node's lock has a goal (`BusyInv`); a worker waits for a
request of its own call, and no two for one (`WaitInv`); and the part of `PeerLifecycleProofs` about workers
(`WorkInv`). `LifecycleRefinement` is the result, and with the theorem of `PeerLifecycleProofs` it gives
`QuietRowsAreTrue` for the composed system: a quiet row tells what the nodes, with their locks, partial
changes, lost answers and stops, really have, and a redeploy that runs alone and ends ok repairs its node once
no abandoned request about the peer can run there. `Refinement` of `NodeHubProofs` and
`StoreRefinement` of `NodeServiceProofs` show that the detailed modules are instances of the two abstract
parts; the system with the detailed modules put into it is not written down.

**BotWizardProofs.** `DataIsAnswers` is inductive with the types: a step stores its
answer when it moves the state forward, and whatever moves the state elsewhere (a first question, a
preview's reply, a clear) leaves nothing the new state would read from an older run.
`SendsWhatWasAnswered` follows from it for every step.
`TapRunsItsQuery` needs `TokenInv`, that whoever holds one token holds one query, and `PlaceInv`, that
a task holds a menu where it needs one. `Answered`, `SentOnce` and `OwnQuery` are the results.

**NodeAdminProofs.** `PeerInv` says that while a peer is there or about to be inserted the node exists and
nobody is deleting it, unless that overlapped (`raced`); `NoOrphanPeer` follows. `TaskInv` says that an
update or a refresh holds the row it loaded; with it every step is shown to fulfil `ColumnsHaveOneWriter`,
whatever became of the row since it was loaded.

**AccountsProofs.** `JobInv` says what a request has established at each step: a user that exists and has
its ASN from `upsert` on, an audited one from `bind` on, and as the prover the account it serves once the
challenge is consumed. `ChallengeInv` says that an unused challenge was not consumed since it was issued. With them
`LinkIsProved` and the uniqueness of ASNs are inductive, and every step is shown to fulfil
`OnlyTogglesOverrule` (`OnlyTogglesDo`: a commit of a login either writes the derived flag or leaves the one
that is there, whatever the row became since it was loaded) and `ReplayIsRefused` (`ReplaysAreRefused`).

**PeerNamesProofs.** Decimal digits that are read as hexadecimal ones are told apart digit by digit
(`HexInjective`), so that two dn42 ASNs have different link-local addresses: a tunnel whose addresses
are both derived has two different ends (`DerivedEndsDiffer`). The docstring of `wireguard_listen_port`
says that one peer per ASN and node keeps ports apart. For any ASNs, the invariant that a node has one peer of
an ASN gives that two deployed peers of a node conflict exactly if their ASNs share the last five digits
(`TailsDecidePorts`); `PortsMayConflict` is a step of `create_peer` after which the docstring's sentence
(`PortsDistinct`) is false, whenever such an ASN asks for a peer; and among a node's peers that are dn42's,
whatever other peers it has, the sentence is true (`PortsOfDn42Distinct`).

Checked by TLC only:
the liveness properties `RequestsFinish`, `EventuallyServed`, `ChangesEnd`, `DeployingEnds` and `KeyCatchesUp`,
since the prover handles neither fairness nor ENABLED.

## 5. Where code and documents differ

Four runs end in a counterexample, each against a sentence of the repository (quoted in
`PROJECT.json`):

1. `hub_leak`: `register` is called outside the route's `try`. If its status write fails, or the close of
   the replaced socket with anything but `RuntimeError`, the node stays registered and online on a
   connection nobody reads.
2. `peers_moved`: an admin save that moves a peer tears it down on the old node without deploying it
   on the new one, though the docstring of the teardown says that has happened.
3. `bot_cancel`: the reply to a preview brings back the wizard that `/cancel` has ended meanwhile.
4. `accounts_challenge`: `docs/auth-flow.md:46-47` says of challenge tokens that they "are consumed exactly
   once". `consume_challenge` checks `consumed_at` in one query and sets it in a commit, so two requests
   that carry one envelope at the same time both consume it. What does hold is `ReplayIsRefused`: an
   envelope that comes in after the commit is refused.

Three more have no run of their own:

* The docstring of `wireguard_listen_port` (`app/peer/validation.py:203`) concludes from one peer per ASN and
  node that ports do not conflict, but AS4242420090 and AS20090 both get port 20090: the theorem
  `PortsMayConflict`.
* `README.md:316` says "Admin access is granted only when the verified ASN equals `LOCAL_ASN`", and
  `docs/auth-flow.md:302-303` that `is_admin` comes from that. `admin_toggle_user_admin`
  (`app/web/admin.py:673-691`) grants it to any user and takes it from any other than the admin who asks: one
  `Toggle` and `SaveToggle` of `Accounts`, which `OnlyTogglesOverrule` names as the only way to a
  difference.
* `docs/auth-flow.md:36-42` says "On every login, the backend recomputes" `is_admin`, and that it "is
  refreshed on login". `_upsert_user_for_asn` (`app/auth/service.py:64-75`) computes it, but the session
  writes it only if it differs from what was loaded: when an admin's toggle commits between the query and the
  commit of a login, the login ends without having refreshed it. `Upsert` does this, and
  `OnlyTogglesOverrule` says what remains true of that overlap: the login may leave the admin's choice, but
  never brings back what an admin took back.

What the code leaves open and no document denies is in the models, and the properties say where they end:
a node deleted while a peer is created on it (`raced` of `NodeAdmin`), rows whose operations overlapped or
whose call did not end ok, until an operation runs alone (`doubtful`), and a remove that answers ok although
`wg-quick down` failed (`Down`).

## 6. Not modelled, and why

* Payload decoding, target validation and rendering: text, abstracted to success or failure.
* What heartbeats carry beside the key: samples of the system's load, which no step reads.
* The name, address and dn42 fields of a node: one page writes them, and they are read where a
  configuration is rendered. Two nodes of one name are refused by the page and by a constraint.
* Session cookies: they keep a user id, and users are never deleted.
* The looking glass' rate limiter: each call is one step under one lock.
* A router reboot, which loses interfaces and keeps files, and operators who edit files by hand.
* "database is locked" from SQLite under contention: every transaction of the peer operations
  either commits or is refused by a constraint.
* `peers.status` reads two tools one after the other; a torn read is accepted.
* `/listpeers` of the bot, which reads. The wording
  of messages; which updates Telegram repeats after a restart.
* A deploy that fails after its first rename may answer `applied: false`; the flag is a constant of each
  return statement and nothing reads it.
* The signature check of Kioubit's envelopes and the requests to FindNOC: what they answer is an input; templates, styles and scripts; the launcher.

## 7. Plan

Done, in this order: `NodeHub` with `NodeRPC`, because everything else goes through it; `NodeService`
with `PeerStore`; `PeerLifecycle`; `BotWizard`; `NodeAdmin`, which takes the hub's status writes
apart; `Accounts`; `PeerNames`; proofs of each.

`PeerLifecycle` was split into the backend and its nodes, and `PeerSystem` put on top; then `doubtful` was
made a set of pairs that a later operation clears.

Next: that an edit or a delete of the bot reaches only a peer of the ASN linked when it runs, though the
wizard listed the peers earlier: `BotWizard` over `Accounts`.
