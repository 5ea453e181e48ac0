-------------------------------- MODULE Hub --------------------------------
(***************************************************************************)
(* The hub application: the MasterStoreManager on the UI thread and the    *)
(* NetworkServer on the worker thread.  The UI thread calls the server by  *)
(* posting to the worker's io_context, the server answers with queued Qt   *)
(* signals; both are FIFO.                                                 *)
(*                                                                         *)
(* The applications connected to the server are the environment here: an   *)
(* action of theirs may reach the server whenever a participant can be     *)
(* connected.  Replication.tla adds the participants and the clients to    *)
(* the same actions.                                                       *)
(***************************************************************************)
EXTENDS StoreManager

CONSTANTS
    HubId,          \* the hub's own ClientId
    MaxDispatch,    \* bound: actions the hub's user dispatches or redoes
    MaxRemote,      \* bound: actions received from participants
    MaxSyncs,       \* bound: syncs after which the user opens no other tournament
    MaxQuits        \* bound: whether the user quits the application (0 or 1)

ASSUME HubIdAssumption == HubId \in ClientIds
ASSUME BoundsAssumption == {MaxDispatch, MaxRemote, MaxSyncs, MaxQuits} \subseteq Nat

VARIABLES
    sm,            \* the StoreManager of the UI thread
    tournament,    \* its mTournament
    running,       \* the UI thread is in its event loop
    toWorker,      \* functions posted to the worker's io_context
    toUI,          \* queued signals of the NetworkServer
    server,        \* the NetworkServer: [state, opened, tournament, stack]
    dispatched,    \* actions dispatched by the hub so far
    remote,        \* actions received from participants so far
    syncs          \* tournaments posted so far

uiVars == <<sm, tournament, running>>
queues == <<toWorker, toUI>>
counters == <<dispatched, remote, syncs>>
vars == <<uiVars, queues, server, counters>>

RemoteIds == [client : ClientIds \ {HubId}, n : 1 .. MaxRemote]

-----------------------------------------------------------------------------
\* Calls and signals.  A sync carries its number, so that a signal can be told
\* from the one before; the code's syncConfirmed has no argument.
PostSync(t, n) == [type |-> "sync", tournament |-> t, n |-> n]
PostAction(id) == [type |-> "action", id |-> id]
PostUndo(id) == [type |-> "undo", id |-> id]
PostStart == [type |-> "start"]
PostStop == [type |-> "stop"]

ActionReceived(id) == [type |-> "actionReceived", id |-> id]
ActionConfirmReceived(id) == [type |-> "actionConfirm", id |-> id]
UndoConfirmReceived(id) == [type |-> "undoConfirm", id |-> id]
SyncConfirmed(n) == [type |-> "syncConfirmed", n |-> n]
StateStarted == [type |-> "stateStarted"]

NextOwnId == [client |-> HubId, n |-> dispatched + 1]

\* HubApplication opens the file it was given, if any, and starts the server.
\* The server's tournament is created empty, not as a copy of the hub's;
\* opened remembers that the server has accepted connections.
Init ==
    /\ \E fileGiven \in BOOLEAN :
          /\ sm = IF fileGiven THEN sync(NewStoreManager) ELSE NewStoreManager
          /\ tournament = NewTournament(1)
          /\ toWorker = IF fileGiven THEN <<PostSync(NewTournament(1), 1), PostStart>>
                                      ELSE <<PostStart>>
          /\ syncs = IF fileGiven THEN 1 ELSE 0
    /\ running = TRUE
    /\ toUI = <<>>
    /\ server = [state |-> "STOPPED", opened |-> FALSE,
                 tournament |-> NewTournament(0), stack |-> <<>>]
    /\ dispatched = 0
    /\ remote = 0

-----------------------------------------------------------------------------
(***************************************************************************)
(* UI thread: the user.                                                    *)
(***************************************************************************)
UIRuns == sm.alive /\ running

Dispatch ==
    /\ UIRuns
    /\ dispatched < MaxDispatch
    /\ sm' = dispatch(sm, NextOwnId)
    /\ tournament' = dispatchOn(tournament, NextOwnId)
    /\ toWorker' = Append(toWorker, PostAction(NextOwnId))
    /\ dispatched' = dispatched + 1
    /\ UNCHANGED <<running, toUI, server, remote, syncs>>

\* The Redo menu item: the last undone action is dispatched again, as a new one.
Redo ==
    /\ UIRuns
    /\ sm.redoEnabled
    /\ dispatched < MaxDispatch
    /\ sm' = redo(sm, NextOwnId)
    /\ tournament' = dispatchOn(tournament, NextOwnId)
    /\ toWorker' = Append(toWorker, PostAction(NextOwnId))
    /\ dispatched' = dispatched + 1
    /\ UNCHANGED <<running, toUI, server, remote, syncs>>

\* The Undo menu item.
Undo ==
    /\ UIRuns
    /\ sm.undoEnabled
    /\ sm' = undo(sm, HubId)
    /\ tournament' = undoOn(tournament, sm, sm.undoActionId)
    /\ toWorker' = IF Known(sm, sm.undoActionId)
                   THEN Append(toWorker, PostUndo(sm.undoActionId)) ELSE toWorker
    /\ UNCHANGED <<running, toUI, server, counters>>

Sync(t) ==
    /\ sm' = sync(sm)
    /\ tournament' = t
    /\ toWorker' = Append(toWorker, PostSync(t, syncs + 1))
    /\ syncs' = syncs + 1
    /\ UNCHANGED <<running, server, dispatched, remote>>

\* resetTournament() and a read() that succeeds: another tournament.
ResetTournament ==
    /\ UIRuns
    /\ syncs < MaxSyncs
    /\ Sync(NewTournament(syncs + 2))
    /\ UNCHANGED toUI

\* The application exits: the destructor stops the server and waits for the
\* worker; no signal is handled any more.
Quit ==
    /\ UIRuns
    /\ MaxQuits > 0
    /\ running' = FALSE
    /\ toWorker' = Append(toWorker, PostStop)
    /\ UNCHANGED <<sm, tournament, toUI, server, counters>>

-----------------------------------------------------------------------------
(***************************************************************************)
(* UI thread: the signals of the server.                                   *)
(***************************************************************************)
Signal(type) == UIRuns /\ toUI # <<>> /\ Head(toUI).type = type /\ toUI' = Tail(toUI)

ReceiveAction ==
    /\ Signal("actionReceived")
    /\ sm' = receiveAction(sm, Head(toUI).id)
    /\ tournament' = receiveActionOn(tournament, sm, Head(toUI).id)
    /\ UNCHANGED <<running, toWorker, server, counters>>

ReceiveActionConfirm ==
    /\ Signal("actionConfirm")
    /\ sm' = receiveActionConfirm(sm, Head(toUI).id)
    /\ UNCHANGED <<tournament, running, toWorker, server, counters>>

ReceiveUndoConfirm ==
    /\ Signal("undoConfirm")
    /\ sm' = receiveUndoConfirm(sm, Head(toUI).id)
    /\ UNCHANGED <<tournament, running, toWorker, server, counters>>

ConfirmSync ==
    /\ Signal("syncConfirmed")
    /\ sm' = confirmSync(sm)
    /\ UNCHANGED <<tournament, running, toWorker, server, counters>>

\* A server that started is given the tournament as it stands.
ChangeNetworkServerState ==
    /\ Signal("stateStarted")
    /\ Sync(tournament)

-----------------------------------------------------------------------------
(***************************************************************************)
(* Worker thread: the posted functions.                                    *)
(***************************************************************************)
Posted(type) == toWorker # <<>> /\ Head(toWorker).type = type /\ toWorker' = Tail(toWorker)

Emit(signal) == toUI' = Append(toUI, signal)

\* Faulty variant: the trimmed action is not redone.
pushForgets(s, id) ==
    LET pushed == Append(s.stack, id)
    IN  [s EXCEPT !.stack = IF Len(pushed) > MAX_ACTION_STACK_SIZE THEN Tail(pushed) ELSE pushed]

\* Push an action; past the limit the oldest one is redone on the tournament.
push(s, id) ==
    LET pushed == Append(s.stack, id)
    IN  IF Len(pushed) > MAX_ACTION_STACK_SIZE
        THEN [s EXCEPT !.stack = Tail(pushed),
                       !.tournament = redoImpl(@, Head(pushed))]
        ELSE [s EXCEPT !.stack = pushed]

erase(s, id) == [s EXCEPT !.stack = Remove(@, id)]

\* Faulty variant: a sync is confirmed only by a server that is started.
ServerSyncIfStarted ==
    /\ Posted("sync")
    /\ server' = [server EXCEPT !.tournament = Head(toWorker).tournament, !.stack = <<>>]
    /\ IF server.state = "STARTED" THEN Emit(SyncConfirmed(Head(toWorker).n))
                                   ELSE UNCHANGED toUI
    /\ UNCHANGED <<uiVars, counters>>

ServerSync ==
    /\ Posted("sync")
    /\ server' = [server EXCEPT !.tournament = Head(toWorker).tournament, !.stack = <<>>]
    /\ Emit(SyncConfirmed(Head(toWorker).n))
    /\ UNCHANGED <<uiVars, counters>>

\* Faulty variant: no confirmation when an action is trimmed.
ServerActionTrimsSilently ==
    /\ Posted("action")
    /\ server' = push(server, Head(toWorker).id)
    /\ IF Len(server.stack) < MAX_ACTION_STACK_SIZE
       THEN Emit(ActionConfirmReceived(Head(toWorker).id)) ELSE UNCHANGED toUI
    /\ UNCHANGED <<uiVars, counters>>

ServerAction ==
    /\ Posted("action")
    /\ server' = push(server, Head(toWorker).id)
    /\ Emit(ActionConfirmReceived(Head(toWorker).id))
    /\ UNCHANGED <<uiVars, counters>>

\* An undo is confirmed also when the action is no longer on the stack.
ServerUndo ==
    /\ Posted("undo")
    /\ server' = IF Head(toWorker).id \in ToSet(server.stack)
                 THEN erase(server, Head(toWorker).id) ELSE server
    /\ Emit(UndoConfirmReceived(Head(toWorker).id))
    /\ UNCHANGED <<uiVars, counters>>

\* The acceptor may fail to open its port, which only raises a message box.
ServerStart ==
    /\ Posted("start")
    /\ \/ /\ server.state = "STOPPED"
          /\ server' = [server EXCEPT !.state = "STARTED", !.opened = TRUE]
          /\ Emit(StateStarted)
       \/ UNCHANGED <<server, toUI>>
    /\ UNCHANGED <<uiVars, counters>>

ServerStop ==
    /\ Posted("stop")
    /\ server' = [server EXCEPT !.state = "STOPPED"]
    /\ UNCHANGED <<uiVars, toUI, counters>>

\* A participant's action.  It can come from a participant of a server that
\* has been stopped, whose connection is still being read, and a client that
\* reconnects can send an action again.
DeliverAction(id) ==
    /\ remote < MaxRemote
    /\ server.opened
    /\ server' = push(server, id)
    /\ Emit(ActionReceived(id))
    /\ remote' = remote + 1
    /\ UNCHANGED <<uiVars, toWorker, dispatched, syncs>>

-----------------------------------------------------------------------------
UserNext == Dispatch \/ Redo \/ Undo \/ ResetTournament \/ Quit

SignalNext == \/ ReceiveAction \/ ReceiveActionConfirm \/ ReceiveUndoConfirm
              \/ ConfirmSync \/ ChangeNetworkServerState

WorkerNext == ServerSync \/ ServerAction \/ ServerUndo \/ ServerStart \/ ServerStop

ParticipantNext == \E id \in RemoteIds : DeliverAction(id)

Next == UserNext \/ SignalNext \/ WorkerNext \/ ParticipantNext

Spec == Init /\ [][Next]_vars

\* Both event loops run for as long as the application does.
FairSpec == Spec /\ WF_vars(SignalNext) /\ WF_vars(WorkerNext)

-----------------------------------------------------------------------------
(***************************************************************************)
(* Properties.                                                             *)
(***************************************************************************)
IsSeq(q) == q \in Seq(Range(q))

IsCall(m) ==
    /\ m.type \in {"sync", "action", "undo", "start", "stop"}
    /\ m.type = "sync" => m.n \in Nat
    /\ m.type \in {"action", "undo"} => m.id \in ActionIds

IsSignal(m) ==
    /\ m.type \in {"syncConfirmed", "actionConfirm", "undoConfirm", "actionReceived",
                   "stateStarted"}
    /\ m.type = "syncConfirmed" => m.n \in Nat
    /\ m.type \in {"actionConfirm", "undoConfirm", "actionReceived"} => m.id \in ActionIds

\* The variables have their types: every list, queue and counter of the UI thread
\* and every message between the threads.  What the server holds is compared with
\* the hub's tournament by ServerAgrees.
TypeOK ==
    /\ sm \in SMType
    /\ running \in BOOLEAN
    /\ IsSeq(toWorker) /\ \A i \in DOMAIN toWorker : IsCall(toWorker[i])
    /\ IsSeq(toUI) /\ \A i \in DOMAIN toUI : IsSignal(toUI[i])
    /\ dispatched \in Nat /\ remote \in Nat /\ syncs \in Nat

\* No method of the hub's StoreManager throws or fails an assertion: every
\* confirmation is for the oldest unconfirmed action, every undo finds its
\* action still done, no counter is decremented below zero.
NeverFails == sm.alive

\* The actions that are undone are exactly those whose undo is pending, and
\* mUndoneUnconfirmedActions counts the ones on the unconfirmed list, so that
\* receiveAction's position is the number of done confirmed actions.
UndoneExact(s) ==
    /\ \A i \in DOMAIN s.confirmed :
          s.confirmed[i].done <=> s.confirmed[i].id \notin s.unconfirmedUndos
    /\ \A i \in DOMAIN s.unconfirmed :
          s.unconfirmed[i].done <=> s.unconfirmed[i].id \notin s.unconfirmedUndos
    /\ s.unconfirmedUndos \subseteq Ids(s.confirmed) \cup Ids(s.unconfirmed)
    /\ s.undoneUnconfirmed = Cardinality(s.unconfirmedUndos \cap Ids(s.unconfirmed))
UndoneIffPending == UndoneExact(sm)

\* Undo always takes back the user's latest action that is still done.
UndoesLatestOwn ==
    LET latest == LastOwnDone(sm.confirmed \o sm.unconfirmed, HubId)
    IN  latest # NoAction => sm.undoActionId = latest

\* Actions are only ever undone in the reverse order of their redo.
UndoneInOrder == tournament.inOrder

\* What is done on the lists, in list order, is what was last done to the
\* tournament.
TournamentFollowsLists ==
    IsSuffix(DoneIds(sm.confirmed) \o DoneIds(sm.unconfirmed), tournament.applied)

\* mSyncing counts the syncs on their way to the server and back: they are
\* the latest sm.syncing ones.
InFlight == toUI \o toWorker
SyncsInFlight == {InFlight[i].n : i \in {j \in DOMAIN InFlight :
                                            InFlight[j].type \in {"sync", "syncConfirmed"}}}
SyncingExact ==
    /\ sm.syncing \in 0 .. syncs
    /\ SyncsInFlight = syncs - sm.syncing + 1 .. syncs

\* The Redo menu item is enabled exactly when there is something to redo.
RedoMenuExact == sm.redoEnabled <=> canRedo(sm)

Quiescent == running /\ toWorker = <<>> /\ toUI = <<>>

\* When nothing is in flight, everything is confirmed, and the server's stack
\* on top of its tournament is the hub's tournament, but for actions of the
\* hub that the server had trimmed before their undo arrived.
ServerAgrees ==
    LET applied == tournament.applied
        below == SubSeq(applied, 1, Len(applied) - Len(server.stack))
        trimmed == server.tournament.applied
    IN  Quiescent => /\ sm.unconfirmed = <<>> /\ sm.unconfirmedUndos = {}
                     /\ IsSuffix(server.stack, applied)
                     /\ below = SelectSeq(trimmed, LAMBDA id : id \in ToSet(below))
                     /\ \A id \in ToSet(trimmed) \ ToSet(below) : id.client = HubId
                     /\ syncs > 0 => server.tournament.base = tournament.base

\* The server's tournament is behind the hub's: what it has applied for good is
\* the beginning of what the hub has applied.
ServerBehindUI ==
    Quiescent /\ syncs > 0 => IsPrefix(server.tournament.applied, tournament.applied)

\* The Undo menu item is enabled when there is an own action to undo.
UndoMenuOffersUndo ==
    LastOwnDone(sm.confirmed \o sm.unconfirmed, HubId) # NoAction => sm.undoEnabled

\* What has left the confirmed list is never undone again.
TrimmedStays ==
    LET kept(s, t) == Len(t.applied) - Len(DoneIds(s.confirmed) \o DoneIds(s.unconfirmed))
    IN  syncs' = syncs => IsPrefix(SubSeq(tournament.applied, 1, kept(sm, tournament)),
                                   tournament'.applied)
TrimmedStaysForever == [][TrimmedStays]_vars

\* Every dispatched action is confirmed, or dropped with its tournament.
EventuallyConfirmed ==
    \A n \in 1 .. MaxDispatch :
        LET id == [client |-> HubId, n |-> n]
        IN  id \in Ids(sm.unconfirmed) ~> (id \notin Ids(sm.unconfirmed) \/ ~running)

\* Received actions are not ignored for ever: every sync is confirmed.
SyncsSettle == sm.syncing > 0 ~> (sm.syncing = 0 \/ ~running)

=============================================================================
