---------------------------- MODULE Replication ----------------------------
(***************************************************************************)
(* The hub and the score and kiosk applications connected to it: the       *)
(* actions of Hub.tla with the NetworkParticipants they deliver messages   *)
(* to, the TCP connections, and the NetworkClient and ClientStoreManager   *)
(* of every client.                                                        *)
(***************************************************************************)
EXTENDS Hub

CONSTANTS
    MaxClientDispatch,  \* bound: actions each client's user dispatches
    MaxConns,           \* bound: connections opened
    MaxBreaks,          \* bound: connections that break
    MaxDisconnects      \* bound: connections opened up to which a user disconnects

ASSUME ReplicationBoundsAssumption ==
    {MaxClientDispatch, MaxConns, MaxBreaks, MaxDisconnects} \subseteq Nat

VARIABLES
    csm,          \* the StoreManager of every client's UI thread
    ctournament,  \* its mTournament
    cstatus,      \* mNetworkClientState as the client's UI thread knows it
    cretry,       \* mRetryTimer of the client's window runs
    ctoWorker,    \* functions posted to the client's worker
    ctoUI,        \* queued signals of the NetworkClient
    net,          \* the NetworkClient: [state, phase, conn, quitPosted, unconfirmed]
    conns,        \* the connections, oldest first, with the server's participants
    cdispatched,  \* actions dispatched by every client so far
    breaks        \* connections broken so far

clientVars == <<csm, ctournament, cstatus, cretry, ctoWorker, ctoUI, net, cdispatched>>
rvars == <<vars, clientVars, conns, breaks>>

Clients == ClientIds \ {HubId}

\* A connection: the client's end of the TCP stream and the participant that
\* serves it.  link tells who closed it; part is what the participant reads
\* next (handshake, clock request, messages); member: it is in mParticipants.
NewConn(c) == [client |-> c, link |-> "open", up |-> <<>>, down |-> <<>>,
               part |-> "accepting", isSyncing |-> TRUE, member |-> FALSE]

Msg(type) == [type |-> type]
IdMsg(type, id) == [type |-> type, id |-> id]
SyncMsg(t, stack) == [type |-> "SYNC", tournament |-> t, stack |-> stack]

RInit ==
    /\ Init
    /\ csm = [c \in Clients |-> NewStoreManager]
    /\ ctournament = [c \in Clients |-> NewTournament(0)]
    /\ cstatus = [c \in Clients |-> "NOT_CONNECTED"]
    /\ cretry = [c \in Clients |-> FALSE]
    /\ ctoWorker = [c \in Clients |-> <<>>]
    /\ ctoUI = [c \in Clients |-> <<>>]
    /\ net = [c \in Clients |-> [state |-> "NOT_CONNECTED", phase |-> "none", conn |-> 0,
                                 quitPosted |-> FALSE, unconfirmed |-> <<>>]]
    /\ conns = <<>>
    /\ cdispatched = [c \in Clients |-> 0]
    /\ breaks = 0

-----------------------------------------------------------------------------
(***************************************************************************)
(* The server's side of the connections.                                   *)
(***************************************************************************)
\* What is written to a connection that is not open any more is lost.
Write(conn, dir, msgs) ==
    IF conn.link = "open" THEN [conn EXCEPT ![dir] = @ \o msgs] ELSE conn

Deliver(cs, msg) ==
    [k \in DOMAIN cs |-> IF cs[k].member THEN Write(cs[k], "down", <<msg>>) ELSE cs[k]]

\* Faulty variant: a participant that is syncing is not sent another sync.
SyncIfNotSyncing(conn, t) ==
    IF conn.member /\ ~conn.isSyncing
    THEN [Write(conn, "down", <<SyncMsg(t, <<>>)>>) EXCEPT !.isSyncing = TRUE] ELSE conn

SyncParticipant(conn, t) ==
    IF conn.member
    THEN [Write(conn, "down", <<SyncMsg(t, <<>>)>>) EXCEPT !.isSyncing = TRUE] ELSE conn

RServerSync ==
    /\ ServerSync
    /\ conns' = [k \in DOMAIN conns |-> SyncParticipant(conns[k], Head(toWorker).tournament)]
    /\ UNCHANGED <<clientVars, breaks>>

RServerAction ==
    /\ ServerAction
    /\ conns' = Deliver(conns, IdMsg("ACTION", Head(toWorker).id))
    /\ UNCHANGED <<clientVars, breaks>>

\* Faulty variants: the undo of an action that is no longer on the stack is
\* delivered; it is not confirmed.
RServerUndoDelivers ==
    /\ ServerUndo
    /\ conns' = Deliver(conns, IdMsg("UNDO", Head(toWorker).id))
    /\ UNCHANGED <<clientVars, breaks>>


\* Only deliver if action is not already undone.
RServerUndo ==
    /\ ServerUndo
    /\ conns' = IF Head(toWorker).id \in ToSet(server.stack)
                THEN Deliver(conns, IdMsg("UNDO", Head(toWorker).id)) ELSE conns
    /\ UNCHANGED <<clientVars, breaks>>

\* Participants are told to quit and forgotten, but still read.
RServerStop ==
    /\ ServerStop
    /\ conns' = IF server.state # "STARTED" THEN conns
                ELSE [k \in DOMAIN conns |-> [Deliver(conns, Msg("QUIT"))[k] EXCEPT !.member = FALSE]]
    /\ UNCHANGED <<clientVars, breaks>>

\* Close the server's end; what was written can still be read.
Kick(conn) ==
    [conn EXCEPT !.part = "none", !.member = FALSE, !.up = <<>>,
                 !.link = IF @ = "open" THEN "serverClosed" ELSE @]

Readable(k) == conns[k].part # "none" /\ conns[k].up # <<>>

\* Faulty variant: the actions on the stack are left out of the first sync.
WelcomeWithoutStack(conn) ==
    [Write(conn, "down", <<Msg("CLOCK_SYNC"), SyncMsg(server.tournament, <<>>)>>)
        EXCEPT !.part = "joined", !.member = TRUE]

\* The answer to a clock request: the time, the tournament, and join().
Welcome(conn) ==
    [Write(conn, "down", <<Msg("CLOCK_SYNC"), SyncMsg(server.tournament, server.stack)>>)
        EXCEPT !.part = "joined", !.member = TRUE]

\* NetworkConnection::asyncAccept and NetworkParticipant::start: anything but
\* the expected message ends the connection.
ParticipantStart(k) ==
    /\ Readable(k)
    /\ conns[k].part \in {"accepting", "starting"}
    /\ LET read == [conns[k] EXCEPT !.up = Tail(@)]
           type == Head(conns[k].up).type
       IN  conns' = [conns EXCEPT ![k] =
               CASE read.part = "accepting" /\ type = "HANDSHAKE"
                      -> [read EXCEPT !.part = "starting"]
                 [] read.part = "starting" /\ type = "CLOCK_SYNC_REQUEST"
                      -> Welcome(read)
                 [] OTHER -> Kick(conns[k])]
    /\ UNCHANGED <<vars, clientVars, breaks>>

\* NetworkParticipant::readMessage.
ParticipantQuit(k) ==
    /\ Readable(k) /\ conns[k].part = "joined" /\ Head(conns[k].up).type = "QUIT"
    /\ conns' = [conns EXCEPT ![k] = Kick(@)]
    /\ UNCHANGED <<vars, clientVars, breaks>>

ParticipantSyncAck(k) ==
    /\ Readable(k) /\ conns[k].part = "joined" /\ Head(conns[k].up).type = "SYNC_ACK"
    /\ conns' = [conns EXCEPT ![k].up = Tail(@), ![k].isSyncing = FALSE]
    /\ UNCHANGED <<vars, clientVars, breaks>>

\* Faulty variant: the other participants are not told.
RelayToSender(cs, k, id) ==
    IF cs[k].member THEN [cs EXCEPT ![k] = Write(@, "down", <<IdMsg("ACTION_ACK", id)>>)]
    ELSE cs

\* deliverAction: the sender gets an acknowledgement, the others the action.
Relay(cs, k, id) ==
    [j \in DOMAIN cs |->
        IF j = k /\ cs[j].member THEN Write(cs[j], "down", <<IdMsg("ACTION_ACK", id)>>)
        ELSE Deliver(cs, IdMsg("ACTION", id))[j]]

ParticipantAction(k) ==
    /\ Readable(k) /\ conns[k].part = "joined" /\ Head(conns[k].up).type = "ACTION"
    /\ LET id == Head(conns[k].up).id
           read == [conns EXCEPT ![k].up = Tail(@)]
       IN  \/ conns[k].isSyncing /\ conns' = read /\ UNCHANGED vars
           \/ ~conns[k].isSyncing /\ DeliverAction(id) /\ conns' = Relay(read, k, id)
    /\ UNCHANGED <<clientVars, breaks>>

\* Faulty variant: the end of the stream is not taken for an error.
ParticipantErrorUnlessEnd(k) ==
    /\ conns[k].part # "none"
    /\ conns[k].link = "broken"
    /\ conns' = [conns EXCEPT ![k] = Kick(@)]
    /\ UNCHANGED <<vars, clientVars, breaks>>

\* A read or a write fails: the participant leaves.
ParticipantError(k) ==
    /\ conns[k].part # "none"
    /\ \/ conns[k].link = "broken"
       \/ conns[k].link = "clientClosed" /\ conns[k].up = <<>>
    /\ conns' = [conns EXCEPT ![k] = Kick(@)]
    /\ UNCHANGED <<vars, clientVars, breaks>>

ConnectionBreaks(k) ==
    /\ breaks < MaxBreaks
    /\ conns[k].link = "open"
    /\ conns' = [conns EXCEPT ![k].link = "broken"]
    /\ breaks' = breaks + 1
    /\ UNCHANGED <<vars, clientVars>>

ServerNext ==
    \/ RServerSync \/ RServerAction \/ RServerUndo \/ RServerStop
    \/ \E k \in DOMAIN conns :
          \/ ParticipantStart(k) \/ ParticipantQuit(k) \/ ParticipantSyncAck(k)
          \/ ParticipantAction(k) \/ ParticipantError(k)

-----------------------------------------------------------------------------
(***************************************************************************)
(* A client's UI thread: the user, then the signals of the NetworkClient.  *)
(***************************************************************************)
\* There is nothing to act on before a tournament was received.  An action
\* can be dispatched while the client is not connected.
CDispatch(c) ==
    LET id == [client |-> c, n |-> cdispatched[c] + 1]
    IN  /\ csm[c].alive
        /\ ctournament[c].base # 0
        /\ cdispatched[c] < MaxClientDispatch
        /\ csm' = [csm EXCEPT ![c] = dispatch(@, id)]
        /\ ctournament' = [ctournament EXCEPT ![c] = dispatchOn(@, id)]
        /\ ctoWorker' = [ctoWorker EXCEPT ![c] = Append(@, PostAction(id))]
        /\ cdispatched' = [cdispatched EXCEPT ![c] = @ + 1]
        /\ UNCHANGED <<vars, cstatus, cretry, ctoUI, net, conns, breaks>>

\* ClientStoreManager::connect, called by the connect dialog, which stops the
\* retry timer, and by the timer.
Connect(c) ==
    /\ csm[c].alive
    /\ cstatus[c] = "NOT_CONNECTED"
    /\ Len(conns) < MaxConns
    /\ cstatus' = [cstatus EXCEPT ![c] = "CONNECTING"]
    /\ ctoWorker' = [ctoWorker EXCEPT ![c] = Append(@, Msg("connect"))]
    /\ UNCHANGED <<vars, csm, ctournament, ctoUI, net, cdispatched, conns, breaks>>

CConnect(c) == Connect(c) /\ cretry' = [cretry EXCEPT ![c] = FALSE]

CRetryTimerHit(c) == cretry[c] /\ Connect(c) /\ UNCHANGED cretry

CDisconnect(c) ==
    /\ csm[c].alive
    /\ cstatus[c] = "CONNECTED"
    /\ Len(conns) <= MaxDisconnects
    /\ cstatus' = [cstatus EXCEPT ![c] = "DISCONNECTING"]
    /\ ctoWorker' = [ctoWorker EXCEPT ![c] = Append(@, Msg("disconnect"))]
    /\ UNCHANGED <<vars, csm, ctournament, cretry, ctoUI, net, cdispatched, conns, breaks>>

CSignal(c, type) ==
    /\ csm[c].alive
    /\ ctoUI[c] # <<>>
    /\ Head(ctoUI[c]).type = type
    /\ ctoUI' = [ctoUI EXCEPT ![c] = Tail(@)]
    /\ UNCHANGED <<vars, ctoWorker, net, cdispatched, conns, breaks>>

CReceiveAction(c) ==
    /\ CSignal(c, "actionReceived")
    /\ csm' = [csm EXCEPT ![c] = receiveAction(@, Head(ctoUI[c]).id)]
    /\ ctournament' = [ctournament EXCEPT ![c] = receiveActionOn(@, csm[c], Head(ctoUI[c]).id)]
    /\ UNCHANGED <<cstatus, cretry>>

CReceiveActionConfirm(c) ==
    /\ CSignal(c, "actionConfirm")
    /\ csm' = [csm EXCEPT ![c] = receiveActionConfirm(@, Head(ctoUI[c]).id)]
    /\ UNCHANGED <<ctournament, cstatus, cretry>>

CReceiveUndo(c) ==
    /\ CSignal(c, "undoReceived")
    /\ csm' = [csm EXCEPT ![c] = receiveUndo(@, Head(ctoUI[c]).id, c)]
    /\ ctournament' = [ctournament EXCEPT ![c] = receiveUndoOn(@, csm[c], Head(ctoUI[c]).id)]
    /\ UNCHANGED <<cstatus, cretry>>

\* The signal carries the tournament with the actions of both lists done.
DoneEntries(ids) == [i \in DOMAIN ids |-> Entry(ids[i])]

CReceiveSync(c) ==
    LET s == Head(ctoUI[c])
    IN  /\ CSignal(c, "syncReceived")
        /\ csm' = [csm EXCEPT ![c] = receiveSync(@, s.tournament.base # ctournament[c].base,
                                                 DoneEntries(s.confirmed),
                                                 DoneEntries(s.unconfirmed), c)]
        /\ ctournament' = [ctournament EXCEPT ![c] = s.tournament]
        /\ UNCHANGED <<cstatus, cretry>>

\* loseConnection, after which the window may start its retry timer (if it was
\* given an interval); shutdownConnection and failConnectionAttempt;
\* succeedConnectionAttempt, which stops the timer.
CLose(c) ==
    /\ CSignal(c, "connectionLost")
    /\ cstatus' = [cstatus EXCEPT ![c] = "NOT_CONNECTED"]
    /\ \E retry \in {TRUE, cretry[c]} : cretry' = [cretry EXCEPT ![c] = retry]
    /\ UNCHANGED <<csm, ctournament>>

CShutdownOrFail(c) ==
    /\ CSignal(c, "connectionShutdown") \/ CSignal(c, "attemptFailed")
    /\ cstatus' = [cstatus EXCEPT ![c] = "NOT_CONNECTED"]
    /\ UNCHANGED <<csm, ctournament, cretry>>

CSucceed(c) ==
    /\ CSignal(c, "attemptSucceeded")
    /\ cstatus' = [cstatus EXCEPT ![c] = "CONNECTED"]
    /\ cretry' = [cretry EXCEPT ![c] = FALSE]
    /\ UNCHANGED <<csm, ctournament>>

-----------------------------------------------------------------------------
(***************************************************************************)
(* A client's worker thread: the NetworkClient.                            *)
(***************************************************************************)
uiOnly == <<csm, ctournament, cstatus, cretry, cdispatched>>

CPosted(c, type) ==
    /\ ctoWorker[c] # <<>>
    /\ Head(ctoWorker[c]).type = type
    /\ ctoWorker' = [ctoWorker EXCEPT ![c] = Tail(@)]

CEmit(c, signals) == ctoUI' = [ctoUI EXCEPT ![c] = @ \o signals]

\* deliver(): an open connection's stream is the write queue's end.
Send(c, msgs) ==
    IF net[c].conn = 0 THEN conns
    ELSE [conns EXCEPT ![net[c].conn] = Write(@, "up", msgs)]

CPostAction(c) ==
    LET id == Head(ctoWorker[c]).id
    IN  /\ CPosted(c, "action")
        /\ net' = [net EXCEPT ![c].unconfirmed = Append(@, id)]
        /\ conns' = Send(c, <<IdMsg("ACTION", id)>>)
        /\ UNCHANGED <<vars, uiOnly, ctoUI, breaks>>

\* A connect() while a connection is being made or open would replace the
\* socket under the handlers of the first; what follows is left open ("overlap").
CPostConnect(c) ==
    /\ CPosted(c, "connect")
    /\ net' = [net EXCEPT ![c].state = "CONNECTING", ![c].quitPosted = FALSE,
                          ![c].phase = IF @ = "none" THEN "connecting" ELSE "overlap"]
    /\ UNCHANGED <<vars, uiOnly, ctoUI, conns, breaks>>


CPostDisconnect(c) ==
    /\ CPosted(c, "disconnect")
    /\ \/ /\ net[c].state = "CONNECTED"
          /\ net' = [net EXCEPT ![c].state = "DISCONNECTING", ![c].quitPosted = TRUE]
          /\ conns' = Send(c, <<Msg("QUIT")>>)
       \/ /\ net[c].state # "CONNECTED"
          /\ UNCHANGED <<net, conns>>
    /\ UNCHANGED <<vars, uiOnly, ctoUI, breaks>>

\* killConnection() and the signal that follows it.
Killed(conn) == [conn EXCEPT !.down = <<>>, !.link = IF @ = "open" THEN "clientClosed" ELSE @]

KillConnection(c, signals) ==
    /\ net' = [net EXCEPT ![c].state = "NOT_CONNECTED", ![c].phase = "none", ![c].conn = 0]
    /\ conns' = IF net[c].conn = 0 THEN conns ELSE [conns EXCEPT ![net[c].conn] = Killed(@)]
    /\ CEmit(c, signals)
    /\ UNCHANGED <<vars, uiOnly, ctoWorker, breaks>>

\* The socket connects only while the hub's acceptor is open.
CConnected(c) ==
    /\ net[c].phase = "connecting"
    /\ \/ /\ server.state = "STARTED"
          /\ Len(conns) < MaxConns
          /\ conns' = Append(conns, NewConn(c))
          /\ net' = [net EXCEPT ![c].conn = Len(conns) + 1, ![c].phase = "join"]
          /\ UNCHANGED <<vars, uiOnly, ctoUI, ctoWorker, breaks>>
       \/ KillConnection(c, <<Msg("attemptFailed")>>)

\* connectJoin and connectSynchronizeClocks: the handshake is answered and the
\* clock request written.
CJoin(c) ==
    /\ net[c].phase = "join"
    /\ net' = [net EXCEPT ![c].phase = "clock"]
    /\ conns' = Send(c, <<Msg("HANDSHAKE"), Msg("CLOCK_SYNC_REQUEST")>>)
    /\ UNCHANGED <<vars, uiOnly, ctoUI, ctoWorker, breaks>>

CRead(c, phases, type) ==
    /\ net[c].phase \in phases
    /\ conns[net[c].conn].down # <<>>
    /\ Head(conns[net[c].conn].down).type = type

Received(c) == Head(conns[net[c].conn].down)

\* The message is taken off the stream and msgs are written in answer.
Answer(c, msgs) ==
    conns' = [conns EXCEPT ![net[c].conn] =
                 Write([@ EXCEPT !.down = Tail(@)], "up", msgs)]

CReadClock(c) ==
    /\ CRead(c, {"clock"}, "CLOCK_SYNC")
    /\ net' = [net EXCEPT ![c].phase = "sync"]
    /\ Answer(c, <<>>)
    /\ UNCHANGED <<vars, uiOnly, ctoUI, ctoWorker, breaks>>

SyncReceived(t, confirmed, unconfirmed) ==
    [type |-> "syncReceived", confirmed |-> confirmed, unconfirmed |-> unconfirmed,
     tournament |-> [t EXCEPT !.applied = @ \o confirmed \o unconfirmed]]

\* Faulty variant: nothing is sent again.
ResendNothing(ids) == <<>>

Resend(ids) == [i \in DOMAIN ids |-> IdMsg("ACTION", ids[i])]

\* connectSync: the unconfirmed actions the server does not have are done on
\* the tournament received and sent again.
CConnectSync(c) ==
    /\ CRead(c, {"sync"}, "SYNC")
    /\ LET s == Received(c)
           resent == SelectSeq(net[c].unconfirmed, LAMBDA id : id \notin ToSet(s.stack))
       IN  /\ net' = [net EXCEPT ![c].unconfirmed = resent, ![c].state = "CONNECTED",
                                 ![c].phase = "idle"]
           /\ Answer(c, <<Msg("SYNC_ACK")>> \o Resend(resent))
           /\ CEmit(c, <<SyncReceived(s.tournament, s.stack, resent),
                         Msg("attemptSucceeded")>>)
    /\ UNCHANGED <<vars, uiOnly, ctoWorker, breaks>>

\* connectIdle: once a quit is posted no further message is read.
AfterRead(c) == IF net[c].quitPosted THEN "draining" ELSE "idle"

CReadSync(c) ==
    /\ CRead(c, {"idle"}, "SYNC")
    /\ net' = [net EXCEPT ![c].unconfirmed = <<>>, ![c].phase = AfterRead(c)]
    /\ Answer(c, <<Msg("SYNC_ACK")>>)
    /\ CEmit(c, <<SyncReceived(Received(c).tournament, Received(c).stack, <<>>)>>)
    /\ UNCHANGED <<vars, uiOnly, ctoWorker, breaks>>

CReadAction(c) ==
    /\ CRead(c, {"idle"}, "ACTION")
    /\ net' = [net EXCEPT ![c].phase = AfterRead(c)]
    /\ Answer(c, <<>>)
    /\ CEmit(c, <<ActionReceived(Received(c).id)>>)
    /\ UNCHANGED <<vars, uiOnly, ctoWorker, breaks>>

\* An acknowledgement of an action not on the list is ignored.
CReadAck(c) ==
    /\ CRead(c, {"idle"}, "ACTION_ACK")
    /\ LET id == Received(c).id
       IN  /\ net' = [net EXCEPT ![c].unconfirmed = Remove(@, id), ![c].phase = AfterRead(c)]
           /\ CEmit(c, IF id \in ToSet(net[c].unconfirmed)
                       THEN <<ActionConfirmReceived(id)>> ELSE <<>>)
    /\ Answer(c, <<>>)
    /\ UNCHANGED <<vars, uiOnly, ctoWorker, breaks>>

CReadUndo(c) ==
    /\ CRead(c, {"idle"}, "UNDO")
    /\ net' = [net EXCEPT ![c].phase = AfterRead(c)]
    /\ Answer(c, <<>>)
    /\ CEmit(c, <<IdMsg("undoReceived", Received(c).id)>>)
    /\ UNCHANGED <<vars, uiOnly, ctoWorker, breaks>>

CReadQuit(c) ==
    /\ CRead(c, {"clock", "sync", "idle"}, "QUIT")
    /\ KillConnection(c, <<Msg(IF net[c].phase = "idle" THEN "connectionShutdown"
                                                        ELSE "attemptFailed")>>)

\* A read or write fails.  Once a quit is posted a failed read is ignored, and
\* the write that fails or ends kills the connection.
CError(c) ==
    /\ net[c].phase \in {"join", "clock", "sync", "idle"}
    /\ conns[net[c].conn].link \in {"broken", "serverClosed"}
    /\ \/ /\ ~net[c].quitPosted
          /\ KillConnection(c, <<Msg(IF net[c].phase = "idle" THEN "connectionLost"
                                                              ELSE "attemptFailed")>>)
       \/ /\ net[c].quitPosted
          /\ net' = [net EXCEPT ![c].phase = "draining"]
          /\ UNCHANGED <<vars, uiOnly, ctoUI, ctoWorker, conns, breaks>>

\* The last write after disconnect() ends.  If it succeeds mQuitPosted is
\* reset, so that a read that was still waiting reports a lost connection.
CQuitWritten(c) ==
    /\ net[c].phase \in {"idle", "draining"}
    /\ net[c].quitPosted
    /\ KillConnection(c,
           CASE conns[net[c].conn].link # "open" -> <<Msg("connectionLost")>>
             [] net[c].phase = "draining" -> <<Msg("connectionShutdown")>>
             [] OTHER -> <<Msg("connectionShutdown"), Msg("connectionLost")>>)

-----------------------------------------------------------------------------
\* Steps of the hub that touch no connection.
HubNext == (UserNext \/ SignalNext \/ ServerStart) /\ UNCHANGED <<clientVars, conns, breaks>>

ClientUserNext(c) == CDispatch(c) \/ CConnect(c) \/ CRetryTimerHit(c) \/ CDisconnect(c)

ClientUINext(c) ==
    \/ CReceiveAction(c) \/ CReceiveActionConfirm(c) \/ CReceiveUndo(c) \/ CReceiveSync(c)
    \/ CLose(c) \/ CShutdownOrFail(c) \/ CSucceed(c)

ClientWorkerNext(c) ==
    \/ CPostAction(c) \/ CPostConnect(c) \/ CPostDisconnect(c)
    \/ CConnected(c) \/ CJoin(c) \/ CReadClock(c) \/ CConnectSync(c)
    \/ CReadSync(c) \/ CReadAction(c) \/ CReadAck(c) \/ CReadUndo(c) \/ CReadQuit(c)
    \/ CError(c) \/ CQuitWritten(c)

RNext ==
    \/ HubNext
    \/ ServerNext
    \/ \E k \in DOMAIN conns : ConnectionBreaks(k)
    \/ \E c \in Clients : ClientUserNext(c) \/ ClientUINext(c) \/ ClientWorkerNext(c)

RSpec == RInit /\ [][RNext]_rvars

\* Every thread runs its event loop; users and networks owe nothing.
FairRSpec ==
    /\ RSpec
    /\ WF_rvars(SignalNext /\ UNCHANGED <<clientVars, conns, breaks>>)
    /\ WF_rvars(ServerNext \/ (ServerStart /\ UNCHANGED <<clientVars, conns, breaks>>))
    /\ \A c \in Clients : WF_rvars(ClientUINext(c)) /\ WF_rvars(ClientWorkerNext(c))

-----------------------------------------------------------------------------
(***************************************************************************)
(* Properties.                                                             *)
(***************************************************************************)
\* No client fails: every confirmation a client's StoreManager receives is for
\* its oldest unconfirmed action ("Received confirmation in wrong order").
ClientsNeverFail == \A c \in Clients : csm[c].alive

\* An undo of the server always finds its action on the client's confirmed
\* list (the assertion in StoreManager::receiveUndo).
UndoFindsAction ==
    \A c \in Clients :
        csm[c].alive /\ ctoUI[c] # <<>> /\ Head(ctoUI[c]).type = "undoReceived"
           => Head(ctoUI[c]).id \in Ids(csm[c].confirmed)

\* Clients, too, undo actions in the reverse order of their redo.
ClientsUndoInOrder == \A c \in Clients : ctournament[c].inOrder

ClientQuiescent(c) ==
    /\ Quiescent
    /\ csm[c].alive /\ ctoWorker[c] = <<>> /\ ctoUI[c] = <<>>
    /\ net[c].phase = "idle" /\ ~net[c].quitPosted
    /\ LET conn == conns[net[c].conn]
       IN  conn.link = "open" /\ conn.up = <<>> /\ conn.down = <<>>

ServerContent == server.tournament.applied \o server.stack

\* When nothing is in flight, a connected client has nothing unconfirmed, holds
\* the actions of all others as the server does, and none of its own that the
\* server does not hold.
ClientsFollow ==
    \A c \in Clients :
        LET held == ctournament[c].applied
            Foreign(ids) == SelectSeq(ids, LAMBDA id : id.client # c)
        IN  ClientQuiescent(c) => /\ Foreign(held) = Foreign(ServerContent)
                                  /\ ToSet(held) \subseteq ToSet(ServerContent)
                                  /\ ctournament[c].base = server.tournament.base
                                  /\ csm[c].unconfirmed = <<>> /\ net[c].unconfirmed = <<>>

\* What a connected client takes for confirmed is what the server holds, but
\* for what a sync or an undo on its way to the client will take away.
UnderWay(c, down, signal) ==
    \/ \E i \in DOMAIN conns[net[c].conn].down : conns[net[c].conn].down[i] = down
    \/ \E i \in DOMAIN ctoUI[c] : ctoUI[c][i] = signal
SyncUnderWay(c) ==
    \/ \E i \in DOMAIN conns[net[c].conn].down : conns[net[c].conn].down[i].type = "SYNC"
    \/ \E i \in DOMAIN ctoUI[c] : ctoUI[c][i].type = "syncReceived"
ConfirmedIsOnServer ==
    \A c \in Clients :
        csm[c].alive /\ net[c].phase = "idle" /\ conns[net[c].conn].link = "open"
        /\ conns[net[c].conn].member /\ ~SyncUnderWay(c)
           => \A id \in Ids(csm[c].confirmed) :
                 id \in ToSet(ServerContent)
                 \/ UnderWay(c, IdMsg("UNDO", id), IdMsg("undoReceived", id))

\* When nothing is in flight, a connected client holds the server's tournament:
\* an acknowledgement that is not for an unconfirmed action is one for a
\* "recovery message", an action the client has got by the sync.
ClientsAgree ==
    \A c \in Clients : ClientQuiescent(c) => ctournament[c].applied = ServerContent

\* No action is done twice: a client that reconnects sends again only what the
\* server has not already applied.
AppliedOnce ==
    \A i, j \in DOMAIN ServerContent : i # j => ServerContent[i] # ServerContent[j]

\* A client that was told that its connection was shut down is not told that
\* it was lost as well, which would start the retry timer.
ShutdownIsNotLoss ==
    \A c \in Clients : \A i \in 1 .. Len(ctoUI[c]) - 1 :
        ctoUI[c][i].type = "connectionShutdown" => ctoUI[c][i + 1].type # "connectionLost"


\* The server forgets the participant of every connection that has ended.
ParticipantsLeave ==
    \A k \in 1 .. MaxConns :
        (k \in DOMAIN conns /\ conns[k].link # "open")
           ~> (k \in DOMAIN conns /\ conns[k].part = "none")

=============================================================================
