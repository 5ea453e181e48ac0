# JudoAssistant: a TLA+ verification project

JudoAssistant runs a judo tournament from several computers. One **hub** holds
the tournament and its file. **Score** and **kiosk** applications connect to the
hub over TCP, and a web server publishes a copy. Every change is an *action*
that can be redone and undone. Actions are applied optimistically on the
computer where they are made, ordered by the hub's network server, and undone
from a menu.

This directory has TLA+ modules of that system, TLC configurations that check
them on small instances, and TLAPS proofs of what matters most.

## 1. Inventory

| Part | Source (under `src/src/`) | State | Operations |
|---|---|---|---|
| StoreManager | `ui/store_managers/store_manager.cpp` | confirmed and unconfirmed action lists, pending undos, redo list, `mUndoActionId`, `mSyncing`, the tournament | sync, confirmSync, dispatch, undo, redo, receiveAction, receiveActionConfirm, receiveUndo, receiveUndoConfirm, receiveSync |
| MasterStoreManager | `ui/store_managers/master_store_manager.cpp` | dirty flag, server state | startServer, read, write, resetTournament |
| NetworkServer | `ui/network/network_server.cpp` | its own tournament, action stack, participants | start, stop, accept, postSync, postAction, postUndo, join, leave, deliverAction |
| NetworkParticipant | `ui/network/network_participant.cpp`, `core/network/network_connection.cpp` | write queue, `mIsSyncing` | start, deliver, readMessage |
| NetworkClient | `ui/network/network_client.cpp` | connection state, unconfirmed actions, `mQuitPosted` | connect, disconnect, postAction, connectJoin, connectSynchronizeClocks, connectSync, connectIdle |
| ClientStoreManager, ClientWindow | `ui/store_managers/client_store_manager.cpp`, `ui/widgets/client_window.cpp` | connection state as the UI knows it, retry timer | connect, disconnect, the connection signals, retryTimerHit |
| Match events | `core/actions/match_event_action.cpp` and its subclasses | match state, category status counters | redo, undo, nested draw actions |
| Rulesets | `core/rulesets/` | scores, osaekomi, clock | award, cancel, pause, resume, winner |
| Draw systems | `core/draw_systems/` | players and matches of a draw | initCategory, updateCategory, getResults |
| Tatamis | `core/stores/tatami/` | blocks in groups, match order, status | move, recompute, updateStatus |
| Editing actions | `core/actions/` | players, categories, memberships | about sixty actions |
| WebClient | `ui/web/web_client.cpp` | connection state, write queue | login, registerWebName, disconnect, deliver |
| Web server | `web/` | loaded tournaments, participants, files, database | acquire, get, sync, dispatch, undo, load, save, quit |
| Qt models and widgets | `ui/models/`, `ui/widgets/` | presentation | – |

The hard behaviours are where two threads or two computers meet:

* The UI thread and the worker thread of an application talk through two FIFO
  queues. A user can act at any point between a message and its answer.
* A remote action is slipped in below local actions that are not confirmed yet.
* Opening another tournament makes everything in flight obsolete.
* Connections break. A client reconnects with actions nobody acknowledged.
* Both lists are bounded, and the bound is reached while undos are pending.

`PROJECT.json` lists each of these as a hazard at the line where it bites,
with the properties that cover it, or with a note where none does yet.

## 2. Modules

```
StoreManager     operators: one per StoreManager method
   |
  Hub            UI thread + worker thread of the hub        MCHub
   |   \
   |    HubInvariant   the inductive invariant
   |        \
   |         LineProofs, ListProofs, ConfirmProofs, UndoProofs, HubProofs
   |
Replication      Hub + participants, TCP streams, clients    MCReplication
```

### StoreManager.tla

A StoreManager's control state is a record `sm` (one field per member variable),
its tournament a value `t`. A method `m` is an operator `m(sm, ...)` for the
record and, where it touches the tournament, `mOn(t, sm, ...)`.

* An **action** is its `ClientActionId`. The code draws the number at random;
  here numbers are fresh. That random numbers do not collide is assumed.
* A **tournament** is `[base, applied, inOrder]`: what it was created as, the
  actions done on it in order, and whether every undo so far was of the latest
  action. An action's `undoImpl` restores what its `redoImpl` saved, so it is
  only right on the tournament its redo left; `inOrder` records that.
* An entry of a list carries `done`, the code's `Action::mDone`.
* `undoEnabled` and `redoEnabled` are the values last emitted by
  `undoStatusChanged` and `redoStatusChanged`, that is, the menu items.
* `alive` becomes FALSE where the code throws or an assertion fails. Taking the
  front of an empty list counts as that.

The loops over lists are split into what they do to the entries
(`UndoneFrom`, `Redone`) and to the tournament (`UnrollFrom`, `Replay`).

### Hub.tla

`toWorker` holds the functions the UI thread has posted to the worker's
`io_context`, `toUI` the queued Qt signals of the NetworkServer. Every user
operation, signal handler and posted function is one action. The server is a
record with its tournament (behind the stack) and its action stack.

The menu items guard `Undo` and `Redo`, as in the code: the hub's user cannot
trigger a disabled item. A redo is a dispatch of a fresh clone under a new
number. The server may fail to start, which only raises a message box. Applications
connected to the hub are environment: `DeliverAction` pushes an action
of theirs whenever the server has been open.

`stopServer()` is never called by the user interface. The server is stopped
when the application exits, so its `STOPPED` signal is never handled and has no
action.

### Replication.tla

Extends Hub. An action of Hub that touches participants is conjoined with its
effect on the connections (`RServerSync`, `RServerAction`, `RServerUndo`,
`RServerStop`, `ParticipantAction`); the rest leave the connections alone. A
connection has two FIFO streams, the state of the participant that reads it,
and who has closed it. Connections are kept in a sequence: an old one can still
be read by the server after its client has opened another. A broken connection
lets what was written be read, or not.

A client has a UI thread and a worker thread like the hub, with the same
StoreManager operators. Undo and redo are not available in clients
(`ClientStoreManager::canUndo` and `canRedo` are false).

`CPostConnect` sends a client whose worker is still busy with another connection to
a phase `overlap` that has no successor: the code would replace the socket under
the handlers of the first connection, and what follows is left open. It takes a
user who reconnects between the two signals of one disconnect (see
`shutdown_is_not_loss`) and once more after the second. The passing runs have no
disconnect followed by a connect, so they never get there.

### What is abstracted

* The write queue of an application and the TCP stream after it are one
  sequence. Completion of single writes is not visible, except of the write
  that ends a disconnect, because a signal follows it.
* Handshake and clock request are written together by the client.
* Messages decode; nothing is said about corrupt ones.
* The clock offset and the match times are left out.
* Clients do not exit. Exit of the hub is `Quit` and `ServerStop`; waiting for
  the worker thread is left out.

## 3. Runs

All runs set `CHECK_DEADLOCK FALSE`: an application whose users do nothing is
idle, and the bounds end what users do.

| Run | Configuration | Question | Result |
|---|---|---|---|
| `hub` | `MCHub.cfg` | are lists, pending undos, tournament, menus and server consistent under all interleavings, and does the invariant used by the proofs hold? | holds |
| `hub_liveness` | `MCHubLive.cfg` | is every action confirmed, and every sync? | holds |
| `replication_sync` | `MCReplicationSync.cfg` | one client while the hub opens another tournament; does the composition implement `Hub!Spec`? | holds |
| `replication_reconnect` | `MCReplicationReconnect.cfg` | a connection breaks, the client reconnects and sends again | holds |
| `replication_two_clients` | `MCReplicationTwo.cfg` | two clients act at the same time | holds |
| `replication_liveness` | `MCReplicationLive.cfg` | do connection attempts end, do participants leave? | holds |
| `hub_server_behind` | `MCHubServerBehindUI.cfg` | is the server's tournament behind the hub's? | violated |
| `hub_undo_menu` | `MCHubUndoMenuOffersUndo.cfg` | does the Undo item offer what can be undone? | violated |
| `client_confirm_order` | `MCReplicationClientsNeverFail.cfg` | do confirmations reach clients in order? | violated |
| `client_agreement` | `MCReplicationClientsAgree.cfg` | do clients end with the server's tournament? | violated |
| `applied_once` | `MCReplicationAppliedOnce.cfg` | is every action applied once? | violated |
| `shutdown_is_not_loss` | `MCReplicationShutdownIsNotLoss.cfg` | is a disconnect reported once? | violated |

### What the violated runs show

Each states what a comment, message or exception of the code says.

* **A trimmed action cannot be undone on the server.** The stack is full, a push
  trims an action, then the undo the hub's user made meanwhile arrives.
  `postUndo` finds nothing. The hub has undone the action, the server keeps it.
  `ServerAgrees` shows that this is the only way the two differ.
* **Undo stays disabled after a sync.** `sync()` emits
  `undoStatusChanged(false)` and keeps `mUndoActionId`. The next dispatch finds
  an identifier and does not emit `true`.
* **"Received confirmation in wrong order".** A client's worker handles a SYNC
  and posts the signal. Before the UI thread handles it, its user acts. The
  action is sent and acknowledged, but `receiveSync` has emptied the list.
* **A client loses its own action.** As above with a second SYNC, which clears
  the worker's list: the acknowledgement is ignored as one for a "recovery
  message", but the client no longer holds the action and all others do.
* **A resent action is applied twice.** The connection breaks with the
  action unread. The client reconnects before the server reads the old
  connection, gets a stack without the action and sends it again.
* **A disconnect is reported as a loss, too.** The last write clears
  `mQuitPosted` before the cancelled read is handled. With a retry interval set,
  the client then reconnects by itself.

Two more disagreements were met and have no run of their own. A client that joins
while the hub syncs is sent two SYNC messages; `mIsSyncing` is a flag, so the
first acknowledgement ends the syncing of both (this is how `client_agreement`
comes about). And if no file is given and the port cannot be opened, no sync is ever
posted, so that the server does trimmed actions on the empty tournament it was
created with (`ServerAgrees` compares the two only after a sync).

`ClientsFollow` is what does hold of clients: with nothing in flight they hold
all foreign actions as the server does, and none the server does not hold.

### Bounds

Every bound is a named constant with a guard.

* `MAX_ACTION_STACK_SIZE` is 1 or 2 instead of 100 and `REDO_LIST_MAX_SIZE` 1 or
  2 instead of 20, so that both limits are reached and passed in a few steps.
  Three dispatches with a stack of 2 give a trim with an undo pending on a
  trimmed, a confirmed and an unconfirmed action.
* `MaxDispatch`, `MaxRemote`, `MaxSyncs`: two syncs after start-up are needed for
  overlapping confirmations, and are the most the state space allows.
* `MaxConns` 2 with `MaxBreaks` 1 gives a connection that broke beside its
  successor. `MaxConns` 1 is used where reconnecting is not the question.
* `MaxQuits`, `MaxDisconnects` switch exit and disconnecting on where they are
  the question.

The proofs need none of these bounds, except that they are natural numbers.
Clients are interchangeable, so `replication_two_clients` uses their
permutations as symmetry. The runs with temporal properties do not.

### Fairness

`FairSpec` and `FairRSpec` assume weak fairness of each event loop: a thread with
a posted function, a queued signal or a readable socket eventually
handles it, because `io_context::run` and Qt's event loop do nothing else. Users,
retry timers and the network owe nothing: no fairness is assumed of dispatching,
connecting, disconnecting, or breaking.

## 4. Proofs

TLAPS checks the following for every set of clients, every list limit and
every bound (`HubProofs.tla`).

| Theorem | States |
|---|---|
| `Inductive` | `Spec => []IInv` |
| `TypeCorrect` | `Spec => []TypeOK` |
| `HubNeverFails` | `Spec => []NeverFails` |
| `UndoneExactly` | `Spec => []UndoneIffPending` |
| `RedoMenu` | `Spec => []RedoMenuExact` |
| `SyncingCounts` | `Spec => []SyncingExact` |

The assumptions are those named in the modules: `StackSizeAssumption`,
`RedoSizeAssumption`, `NoActionAssumption`, `HubIdAssumption`,
`BoundsAssumption`.

**The argument.** `NeverFails` is not inductive. Whether the next confirmation
matches the front of the unconfirmed list depends on every message on its way.
Put the queued signals and the posted functions in one line,
`InFlight == toUI \o toWorker`. A call joins its end. The worker turns the call
at the border into its answer without moving it. The UI thread takes answers
off the front. So a step of the worker changes the line in only one way: it
renames a message, or inserts an action of a participant. `IInv` says of the
line and the lists (`HubInvariant.tla`):

* `SyncsExact`: the syncs in the line are the latest `mSyncing` ones, in order;
* `ActionsExact`: own actions stand in the line in the order of dispatch, and
  those after the last sync are exactly the unconfirmed list;
* `UndosExact`: an undo after the last sync is pending, there is one for each
  action, and it comes after its action;
* `ListsOK`: an entry is done unless its undo is pending, the unconfirmed list
  holds the latest own actions, the confirmed ones are older, and the Undo menu
  item is only enabled when its action is there and done.

A confirmation that reaches the UI thread with `mSyncing = 0` has no sync behind
it, so it is the first own action of the line, which is the front of the list.
With `mSyncing > 0` it is ignored, and the list is the part of the line after
the last sync.

**Layout.** `LineProofs` has the lemmas about a line (append, take the front,
rename in place, insert). `ListProofs` has those about entries, dispatch, sync
and redo. `ConfirmProofs` has received actions and confirmations including the
trim. `UndoProofs` has undo. `HubProofs` has one step lemma per action and the
theorems.

**Only model-checked.** `UndoesLatestOwn`, `UndoneInOrder`,
`TournamentFollowsLists`, `ServerAgrees`, `TrimmedStaysForever`, all properties of
`Replication`, and that `RSpec` implements `Hub!Spec`. Liveness under fairness is
out of the prover's reach, and so is induction over data: the tournament
is computed by folds over lists, whose value for every list cannot be proved.

## 5. Plan

1. *Done.* StoreManager, Hub, Replication; the inductive invariant of the hub.
2. Model, in this order:
   * `MatchEvents`: match, category counters and nested draw actions under redo
     and undo (`match_event_action.cpp`, its subclasses, `match_store.cpp`), with
     the uninitialised `mDidSave` as a nondeterministic choice;
   * `Ruleset`: scores, osaekomi and clock of one match under the rulesets;
   * `DrawSystems`: match orders and rankings as pure operators checked against
     the round-robin definition, and `updateCategory` for double pools and best
     of three;
   * `Tatamis`: locations, moves, and group status against the match status;
   * `Memberships`: players, categories and matches under the editing actions;
   * `TournamentFile`: dirty flag, autosave, truncating write, backup rotation;
   * `WebServer`, `WebClient`: acquiring, loading, saving and undoing a
     LoadedTournament under its strand; the client's connection life cycle;
   * `WriteQueue`: completions, exit of clients, and waiting for the worker.
3. Abstract specifications: a tournament log that Hub implements; a match result
   that `MatchEvents` implements.
4. Prove: `RSpec => Spec` (needs the typing of messages in connections),
   `UndoesLatestOwn`, the counters of `MatchEvents`, and the status of a block
   group.

## 6. Not modelled

Qt models, widgets and dialogs (presentation), CSV import and validators
(parsing), the JSON encoder (formatting), message encoding and compression
(libraries), logging. The parts of the plan above are listed in `PROJECT.json`
as `not_modelled` with their hazards.
