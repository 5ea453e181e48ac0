----------------------------- MODULE HubProofs -----------------------------
(***************************************************************************)
(* The hub's StoreManager never throws and never fails an assertion,       *)
(* whatever the interleaving of its two threads, the limits of its lists   *)
(* and the number of actions, syncs and participants.                      *)
(***************************************************************************)
EXTENDS LineProofs, ConfirmProofs, UndoProofs

\* The parts of the invariant a step leaves alone or brings about.
Line(s, u, w, latest, posted) ==
    LineOK(u \o w, posted - s.syncing, posted, Oldest(s, latest), latest, s.unconfirmedUndos)

\* The invariant, part by part.
LEMMA InvariantParts ==
    IInv <=> /\ TypeOK /\ ListsOK(sm, dispatched) /\ (sm.redoEnabled <=> canRedo(sm))
             /\ sm.syncing <= syncs /\ Line(sm, toUI, toWorker, dispatched, syncs)
             /\ RemoteSignals
BY DEF IInv, Line, InFlight, RedoMenuExact

\* The numbers the invariant speaks of: own actions confirmed and posted, syncs
\* confirmed and posted.
LEMMA NumberFacts ==
    ASSUME IInv
    PROVE  /\ sm \in SMType /\ sm.syncing \in Nat /\ syncs \in Nat /\ dispatched \in Nat
           /\ syncs - sm.syncing \in Nat /\ sm.syncing <= syncs
           /\ Oldest(sm, dispatched) \in Nat /\ Oldest(sm, dispatched) <= dispatched
<1>1. /\ sm \in SMType /\ sm.syncing \in Nat /\ syncs \in Nat /\ dispatched \in Nat
      /\ sm.syncing <= syncs /\ sm.unconfirmed \in Seq(Entries)
  BY DEF IInv, TypeOK, SMType
<1>2. Oldest(sm, dispatched) \in Nat
  BY DEF IInv, ListsOK, UnconfirmedAreLatest
<1>3. Len(sm.unconfirmed) \in Nat
  BY <1>1, ListFacts
<1>4. Oldest(sm, dispatched) <= dispatched
  BY <1>1, <1>2, <1>3 DEF Oldest
<1> QED BY <1>1, <1>2, <1>4

-----------------------------------------------------------------------------
(***************************************************************************)
(* What the steps do to the queues' types.                                 *)
(***************************************************************************)
\* A call appended to the worker's queue keeps its type.
LEMMA PostedTypes ==
    ASSUME TypeOK, NEW m, IsCall(m)
    PROVE  /\ IsSeq(Append(toWorker, m))
           /\ \A i \in DOMAIN Append(toWorker, m) : IsCall(Append(toWorker, m)[i])
BY QueueAppend DEF TypeOK

\* A signal appended to the UI thread's queue keeps its type; if it is no own
\* action's, the received actions are still the participants'.
LEMMA EmittedTypes ==
    ASSUME TypeOK, NEW e, IsSignal(e)
    PROVE  /\ IsSeq(Append(toUI, e))
           /\ \A i \in DOMAIN Append(toUI, e) : IsSignal(Append(toUI, e)[i])
           /\ (RemoteSignals /\ (e.type = "actionReceived" => e.id.client # HubId))
                 => \A i \in DOMAIN Append(toUI, e) :
                       Append(toUI, e)[i].type = "actionReceived"
                          => Append(toUI, e)[i].id.client # HubId
<1>1. /\ IsSeq(Append(toUI, e))
      /\ DOMAIN Append(toUI, e) = DOMAIN toUI \cup {Len(toUI) + 1}
      /\ \A i \in DOMAIN toUI : Append(toUI, e)[i] = toUI[i]
      /\ Append(toUI, e)[Len(toUI) + 1] = e
  BY QueueAppend DEF TypeOK
<1> QED BY <1>1 DEF TypeOK, RemoteSignals

\* The worker's queue without its first call.
LEMMA HandledTypes ==
    ASSUME TypeOK, toWorker # <<>>
    PROVE  /\ IsSeq(Tail(toWorker)) /\ \A i \in DOMAIN Tail(toWorker) : IsCall(Tail(toWorker)[i])
           /\ IsCall(Head(toWorker))
BY QueueTail DEF TypeOK

\* The UI thread's queue without its first signal.
LEMMA TakenTypes ==
    ASSUME TypeOK, toUI # <<>>
    PROVE  /\ IsSeq(Tail(toUI)) /\ \A i \in DOMAIN Tail(toUI) : IsSignal(Tail(toUI)[i])
           /\ IsSignal(Head(toUI))
           /\ RemoteSignals => /\ Head(toUI).type = "actionReceived"
                                     => Head(toUI).id.client # HubId
                               /\ \A i \in DOMAIN Tail(toUI) :
                                     Tail(toUI)[i].type = "actionReceived"
                                        => Tail(toUI)[i].id.client # HubId
<1>1. /\ IsSeq(Tail(toUI))
      /\ \A i \in DOMAIN Tail(toUI) : i + 1 \in DOMAIN toUI /\ Tail(toUI)[i] = toUI[i + 1]
      /\ 1 \in DOMAIN toUI /\ Head(toUI) = toUI[1]
  BY QueueTail DEF TypeOK
<1> QED BY <1>1 DEF TypeOK, RemoteSignals

-----------------------------------------------------------------------------
(***************************************************************************)
(* Init.                                                                   *)
(***************************************************************************)
\* The hub starts with empty lists and at most one sync posted, that of the file
\* it was given.
LEMMA InitInvariant == Init => IInv
<1> SUFFICES ASSUME Init PROVE IInv
  OBVIOUS
<1>1. dispatched = 0 /\ remote = 0 /\ running = TRUE /\ toUI = <<>>
  BY DEF Init
<1>2. PICK fileGiven \in BOOLEAN :
         /\ sm = IF fileGiven THEN sync(NewStoreManager) ELSE NewStoreManager
         /\ toWorker = IF fileGiven THEN <<PostSync(NewTournament(1), 1), PostStart>>
                                    ELSE <<PostStart>>
         /\ syncs = IF fileGiven THEN 1 ELSE 0
  BY DEF Init
<1>3. /\ ListsOK(NewStoreManager, 0) /\ Oldest(NewStoreManager, 0) = 0
      /\ NewStoreManager.syncing = 0 /\ NewStoreManager.unconfirmedUndos = {}
      /\ ~NewStoreManager.redoEnabled /\ ~canRedo(NewStoreManager)
  BY NewLists DEF NewStoreManager, canRedo
<1>4. /\ ListsOK(sync(NewStoreManager), 0) /\ Oldest(sync(NewStoreManager), 0) = 0
      /\ sync(NewStoreManager).syncing = 1 /\ sync(NewStoreManager).unconfirmedUndos = {}
      /\ ~sync(NewStoreManager).redoEnabled /\ ~canRedo(sync(NewStoreManager))
  BY <1>3, SyncLists
<1>5. /\ ListsOK(sm, 0) /\ Oldest(sm, 0) = 0 /\ sm.syncing = syncs
      /\ sm.unconfirmedUndos = {} /\ (sm.redoEnabled <=> canRedo(sm))
      /\ syncs \in 0 .. 1
  BY <1>2, <1>3, <1>4
<1>6. IsSeq(toUI) /\ DOMAIN toUI = {}
  <2>1. <<>> \in Seq({}) /\ DOMAIN <<>> = {}
    OBVIOUS
  <2>2. IsSeq(<<>>)
    BY <2>1, QueueOf
  <2> QED BY <1>1, <2>1, <2>2
<1>7. /\ PostStart.type = "start" /\ PostSync(NewTournament(1), 1).type = "sync"
      /\ PostSync(NewTournament(1), 1).n = 1
  BY DEF PostStart, PostSync
<1>8. CASE ~fileGiven
  <2>1. toWorker = <<PostStart>> /\ syncs = 0
    BY <1>2, <1>8
  <2>2. toUI \o toWorker = <<PostStart>>
    BY <1>1, <2>1
  <2>3. toWorker \in Seq({PostStart}) /\ DOMAIN toWorker = {1} /\ toWorker[1] = PostStart
    BY <2>1
  <2>4. IsSeq(toWorker) /\ \A i \in DOMAIN toWorker : IsCall(toWorker[i])
    BY <1>7, <2>3, QueueOf DEF IsCall
  <2>5. LineOK(<<PostStart>>, 0, 0, 0, 0, {})
    <3> DEFINE L == <<PostStart>>
    <3>1. DOMAIN L = {1} /\ L[1].type = "start"
      BY <1>7
    <3> HIDE DEF L
    <3>2. LineOK(L, 0, 0, 0, 0, {})
      BY <3>1 DEF LineOK, SyncsExact, ActionsExact, UndosExact, IsAct, IsSyn, IsUnd
    <3> QED BY <3>2 DEF L
  <2>6. Line(sm, toUI, toWorker, dispatched, syncs)
    BY <1>1, <1>5, <2>1, <2>2, <2>5 DEF Line
  <2> QED BY <1>1, <1>5, <1>6, <2>1, <2>4, <2>6, InvariantParts
          DEF TypeOK, RemoteSignals, ListsOK
<1>9. CASE fileGiven
  <2> DEFINE m == PostSync(NewTournament(1), 1)
  <2>1. toWorker = <<m, PostStart>> /\ syncs = 1
    BY <1>2, <1>9
  <2>2. toUI \o toWorker = <<m, PostStart>>
    BY <1>1, <2>1
  <2>3. /\ toWorker \in Seq({m, PostStart}) /\ DOMAIN toWorker = {1, 2}
        /\ toWorker[1] = m /\ toWorker[2] = PostStart
    BY <2>1
  <2>4. IsSeq(toWorker) /\ \A i \in DOMAIN toWorker : IsCall(toWorker[i])
    BY <1>7, <2>3, QueueOf DEF IsCall
  <2>5. LineOK(toWorker, 0, 1, 0, 0, {})
    <3>1. /\ ~IsAct(toWorker[1]) /\ ~IsUnd(toWorker[1]) /\ IsSyn(toWorker[1])
          /\ toWorker[1].n = 1
          /\ ~IsAct(toWorker[2]) /\ ~IsUnd(toWorker[2]) /\ ~IsSyn(toWorker[2])
      BY <1>7, <2>3 DEF IsAct, IsSyn, IsUnd
    <3> QED BY <2>3, <3>1 DEF LineOK, SyncsExact, ActionsExact, UndosExact
  <2>6. Line(sm, toUI, toWorker, dispatched, syncs)
    BY <1>1, <1>5, <2>1, <2>2, <2>5 DEF Line
  <2> QED BY <1>1, <1>5, <1>6, <2>1, <2>4, <2>6, InvariantParts
          DEF TypeOK, RemoteSignals, ListsOK
<1> QED BY <1>8, <1>9

-----------------------------------------------------------------------------
(***************************************************************************)
(* The steps of the user.                                                  *)
(***************************************************************************)
\* An action of the hub joins the line and the unconfirmed list.
LEMMA OwnActionPosted ==
    ASSUME IInv, NEW s, ListsOK(s, dispatched + 1),
           Oldest(s, dispatched + 1) = Oldest(sm, dispatched),
           s.unconfirmedUndos = sm.unconfirmedUndos, s.syncing = sm.syncing,
           s.redoEnabled <=> canRedo(s),
           sm' = s, toWorker' = Append(toWorker, PostAction(NextOwnId)),
           dispatched' = dispatched + 1, UNCHANGED <<running, toUI, remote, syncs>>
    PROVE  IInv'
<1> DEFINE m == PostAction(NextOwnId)
           L == toUI \o toWorker
           M == toUI \o Append(toWorker, m)
           p == Len(toUI) + Len(toWorker) + 1
<1>1. TypeOK /\ IsSeq(toUI) /\ IsSeq(toWorker) /\ remote \in Nat /\ running \in BOOLEAN
  BY DEF IInv, TypeOK
<1>2. NextOwnId = OwnId(dispatched + 1) /\ OwnId(dispatched + 1) \in ActionIds
  BY NumberFacts, OwnIds DEF NextOwnId, OwnId
<1>3. m.type = "action" /\ m.id = OwnId(dispatched + 1) /\ IsCall(m) /\ IsAct(m)
  BY <1>2 DEF PostAction, IsCall, IsAct
<1> HIDE DEF m
<1>4. Without(M, L, p) /\ (\A i \in DOMAIN L : i < p) /\ M[p] = m
  BY <1>1, LinePost
<1> HIDE DEF L, M, p
<1>5. LineOK(L, syncs - sm.syncing, syncs, Oldest(sm, dispatched), dispatched,
             sm.unconfirmedUndos)
  BY DEF IInv, InFlight, L
<1>6. LineOK(M, syncs - sm.syncing, syncs, Oldest(sm, dispatched), dispatched + 1,
             sm.unconfirmedUndos)
  BY <1>3, <1>4, <1>5, NumberFacts, ActionJoins
<1>7. M = (toUI \o toWorker)'
  BY DEF M, m
<1>8. TypeOK'
  <2>1. s \in SMType
    BY DEF ListsOK
  <2>2. /\ IsSeq(Append(toWorker, m))
        /\ \A i \in DOMAIN Append(toWorker, m) : IsCall(Append(toWorker, m)[i])
    BY <1>1, <1>3, PostedTypes
  <2>3. dispatched + 1 \in Nat
    BY NumberFacts
  <2> QED BY <1>1, <2>1, <2>2, <2>3, NumberFacts DEF TypeOK, m
<1>9. LineOK(InFlight, syncs - sm.syncing, syncs, Oldest(sm, dispatched), dispatched,
             sm.unconfirmedUndos)'
  BY <1>6, <1>7 DEF InFlight
<1> QED BY <1>8, <1>9, NumberFacts DEF IInv, RedoMenuExact, RemoteSignals

\* dispatch() keeps the invariant.
LEMMA DispatchStep == IInv /\ Dispatch => IInv'
<1> SUFFICES ASSUME IInv, Dispatch PROVE IInv'
  OBVIOUS
<1> DEFINE s == dispatch(sm, OwnId(dispatched + 1))
<1>1. NextOwnId = OwnId(dispatched + 1)
  BY DEF NextOwnId, OwnId
<1>2. ListsOK(sm, dispatched) /\ dispatched \in Nat /\ (sm.redoEnabled <=> canRedo(sm))
  BY NumberFacts DEF IInv, RedoMenuExact
<1>3. /\ ListsOK(s, dispatched + 1)
      /\ Oldest(s, dispatched + 1) = Oldest(sm, dispatched)
      /\ s.unconfirmedUndos = sm.unconfirmedUndos /\ s.syncing = sm.syncing
      /\ s.redoList = sm.redoList /\ s.redoEnabled = sm.redoEnabled
  BY <1>2, DispatchLists
<1>4. /\ sm' = s /\ toWorker' = Append(toWorker, PostAction(NextOwnId))
      /\ dispatched' = dispatched + 1 /\ UNCHANGED <<running, toUI, remote, syncs>>
  BY <1>1 DEF Dispatch
<1> HIDE DEF s
<1>5. s.redoEnabled <=> canRedo(s)
  BY <1>2, <1>3 DEF canRedo
<1> QED BY <1>3, <1>4, <1>5, OwnActionPosted

\* The Redo menu item posts a new action, as dispatch() does.
LEMMA RedoStep == IInv /\ Redo => IInv'
<1> SUFFICES ASSUME IInv, Redo PROVE IInv'
  OBVIOUS
<1> DEFINE s == redo(sm, OwnId(dispatched + 1))
<1>1. NextOwnId = OwnId(dispatched + 1)
  BY DEF NextOwnId, OwnId
<1>2. ListsOK(sm, dispatched) /\ dispatched \in Nat /\ sm.redoEnabled /\ canRedo(sm)
  BY NumberFacts DEF IInv, RedoMenuExact, Redo
<1>3. /\ ListsOK(s, dispatched + 1)
      /\ Oldest(s, dispatched + 1) = Oldest(sm, dispatched)
      /\ s.unconfirmedUndos = sm.unconfirmedUndos /\ s.syncing = sm.syncing
      /\ s.redoEnabled <=> canRedo(s)
  BY <1>2, RedoLists
<1>4. /\ sm' = s /\ toWorker' = Append(toWorker, PostAction(NextOwnId))
      /\ dispatched' = dispatched + 1 /\ UNCHANGED <<running, toUI, remote, syncs>>
  BY <1>1 DEF Redo
<1> HIDE DEF s
<1> QED BY <1>3, <1>4, OwnActionPosted

\* The undo of an own action joins the line and the pending undos.
LEMMA UndoStep == IInv /\ Undo => IInv'
<1> SUFFICES ASSUME IInv, Undo PROVE IInv'
  OBVIOUS
<1> DEFINE s == undo(sm, HubId)
           id == sm.undoActionId
           m == PostUndo(id)
           L == toUI \o toWorker
           M == toUI \o Append(toWorker, m)
           p == Len(toUI) + Len(toWorker) + 1
<1>1. /\ TypeOK /\ IsSeq(toUI) /\ IsSeq(toWorker) /\ remote \in Nat /\ running \in BOOLEAN
      /\ ListsOK(sm, dispatched) /\ dispatched \in Nat /\ (sm.redoEnabled <=> canRedo(sm))
  BY DEF IInv, TypeOK, RedoMenuExact
<1>2. /\ ListsOK(s, dispatched) /\ Oldest(s, dispatched) = Oldest(sm, dispatched)
      /\ Known(sm, id) /\ IsOwn(id, dispatched) /\ id \notin sm.unconfirmedUndos
      /\ id \in ActionIds
      /\ s.unconfirmedUndos = sm.unconfirmedUndos \cup {id} /\ s.syncing = sm.syncing
      /\ s.redoEnabled <=> canRedo(s)
  <2>1. sm.undoEnabled
    BY DEF Undo
  <2> QED BY <1>1, <2>1, UndoLists
<1>3. /\ sm' = s /\ toWorker' = Append(toWorker, m)
      /\ UNCHANGED <<running, toUI, dispatched, remote, syncs>>
  BY <1>2 DEF Undo, counters
<1>4. m.type = "undo" /\ m.id = id /\ IsCall(m) /\ IsUnd(m)
  BY <1>2 DEF PostUndo, IsCall, IsUnd
<1> HIDE DEF m, s, id
<1>5. Without(M, L, p) /\ (\A i \in DOMAIN L : i < p) /\ M[p] = m
  BY <1>1, LinePost
<1> HIDE DEF L, M, p
<1>6. LineOK(L, syncs - sm.syncing, syncs, Oldest(sm, dispatched), dispatched,
             sm.unconfirmedUndos)
  BY DEF IInv, InFlight, L
<1>7. LineOK(M, syncs - sm.syncing, syncs, Oldest(sm, dispatched), dispatched,
             sm.unconfirmedUndos \cup {id})
  BY <1>2, <1>4, <1>5, <1>6, NumberFacts, UndoJoins
<1>8. M = (toUI \o toWorker)'
  BY <1>3 DEF M
<1>9. TypeOK'
  <2>1. s \in SMType
    BY <1>2 DEF ListsOK
  <2>2. /\ IsSeq(Append(toWorker, m))
        /\ \A i \in DOMAIN Append(toWorker, m) : IsCall(Append(toWorker, m)[i])
    BY <1>1, <1>4, PostedTypes
  <2> QED BY <1>1, <1>3, <2>1, <2>2, NumberFacts DEF TypeOK
<1>10. LineOK(InFlight, syncs - sm.syncing, syncs, Oldest(sm, dispatched), dispatched,
              sm.unconfirmedUndos)'
  BY <1>2, <1>3, <1>7, <1>8 DEF InFlight
<1> QED BY <1>2, <1>3, <1>9, <1>10, NumberFacts DEF IInv, RedoMenuExact, RemoteSignals

\* A sync joins the line, whose signals are u, and empties the lists.
LEMMA SyncPosted ==
    ASSUME IInv, NEW t, Sync(t), NEW u, toUI' = u, IsSeq(u),
           \A i \in DOMAIN u : IsSignal(u[i]),
           \A i \in DOMAIN u : u[i].type = "actionReceived" => u[i].id.client # HubId,
           LineOK(u \o toWorker, syncs - sm.syncing, syncs, Oldest(sm, dispatched), dispatched,
                  sm.unconfirmedUndos)
    PROVE  IInv'
<1> DEFINE s == sync(sm)
           m == PostSync(t, syncs + 1)
           L == u \o toWorker
           M == u \o Append(toWorker, m)
           p == Len(u) + Len(toWorker) + 1
<1>1. /\ TypeOK /\ IsSeq(toUI) /\ IsSeq(toWorker) /\ remote \in Nat /\ running \in BOOLEAN
      /\ ListsOK(sm, dispatched) /\ dispatched \in Nat
  BY DEF IInv, TypeOK
<1>2. /\ ListsOK(s, dispatched) /\ Oldest(s, dispatched) = dispatched
      /\ s.unconfirmedUndos = {} /\ s.syncing = sm.syncing + 1
      /\ ~canRedo(s) /\ ~s.redoEnabled
  BY <1>1, SyncLists
<1>3. /\ sm' = s /\ toWorker' = Append(toWorker, m) /\ syncs' = syncs + 1
      /\ UNCHANGED <<running, dispatched, remote>>
  BY DEF Sync
<1>4. m.type = "sync" /\ m.n = syncs + 1 /\ IsCall(m) /\ IsSyn(m)
  BY NumberFacts DEF PostSync, IsCall, IsSyn
<1> HIDE DEF m, s
<1>5. Without(M, L, p) /\ (\A i \in DOMAIN L : i < p) /\ M[p] = m
  BY <1>1, LinePost
<1> HIDE DEF M, p
<1>6. syncs - sm.syncing <= syncs
  BY NumberFacts
<1>7. LineOK(M, syncs - sm.syncing, syncs + 1, dispatched, dispatched, {})
  BY <1>4, <1>5, <1>6, NumberFacts, SyncJoins
<1>8. M = (toUI \o toWorker)'
  BY <1>3 DEF M
<1>9. TypeOK'
  <2>1. s \in SMType
    BY <1>2 DEF ListsOK
  <2>2. /\ IsSeq(Append(toWorker, m))
        /\ \A i \in DOMAIN Append(toWorker, m) : IsCall(Append(toWorker, m)[i])
    BY <1>1, <1>4, PostedTypes
  <2>3. syncs + 1 \in Nat
    BY NumberFacts
  <2> QED BY <1>1, <1>3, <2>1, <2>2, <2>3 DEF TypeOK
<1>10. syncs' - sm'.syncing = syncs - sm.syncing /\ sm'.syncing <= syncs'
  BY <1>2, <1>3, NumberFacts
<1>11. LineOK(InFlight, syncs - sm.syncing, syncs, Oldest(sm, dispatched), dispatched,
              sm.unconfirmedUndos)'
  BY <1>2, <1>3, <1>7, <1>8, <1>10 DEF InFlight
<1> QED BY <1>2, <1>3, <1>9, <1>10, <1>11 DEF IInv, RedoMenuExact, RemoteSignals

\* resetTournament() and read() post a sync; the signals stay queued.
LEMMA ResetTournamentStep == IInv /\ ResetTournament => IInv'
<1> SUFFICES ASSUME IInv, ResetTournament PROVE IInv'
  OBVIOUS
<1>1. /\ IsSeq(toUI) /\ \A i \in DOMAIN toUI : IsSignal(toUI[i])
      /\ \A i \in DOMAIN toUI : toUI[i].type = "actionReceived" => toUI[i].id.client # HubId
      /\ LineOK(toUI \o toWorker, syncs - sm.syncing, syncs, Oldest(sm, dispatched), dispatched,
                sm.unconfirmedUndos)
  BY DEF IInv, TypeOK, RemoteSignals, InFlight
<1>2. Sync(NewTournament(syncs + 2)) /\ toUI' = toUI
  BY DEF ResetTournament
<1> QED BY <1>1, <1>2, SyncPosted

\* The stop posted at exit stands for nothing in the lists.
LEMMA QuitStep == IInv /\ Quit => IInv'
<1> SUFFICES ASSUME IInv, Quit PROVE IInv'
  OBVIOUS
<1> DEFINE m == PostStop
           L == toUI \o toWorker
           M == toUI \o Append(toWorker, m)
           p == Len(toUI) + Len(toWorker) + 1
<1>1. TypeOK /\ IsSeq(toUI) /\ IsSeq(toWorker) /\ remote \in Nat
  BY DEF IInv, TypeOK
<1>2. /\ running' = FALSE /\ toWorker' = Append(toWorker, m)
      /\ UNCHANGED <<sm, toUI, dispatched, remote, syncs>>
  BY DEF Quit, counters
<1>3. m.type = "stop" /\ IsCall(m) /\ IsOther(m)
  BY DEF PostStop, IsCall, IsOther, IsAct, IsSyn, IsUnd
<1> HIDE DEF m
<1>4. Without(M, L, p) /\ M[p] = m
  BY <1>1, LinePost
<1> HIDE DEF L, M, p
<1>5. LineOK(L, syncs - sm.syncing, syncs, Oldest(sm, dispatched), dispatched,
             sm.unconfirmedUndos)
  BY DEF IInv, InFlight, L
<1>6. LineOK(M, syncs - sm.syncing, syncs, Oldest(sm, dispatched), dispatched,
             sm.unconfirmedUndos)
  BY <1>3, <1>4, <1>5, OtherLeaves
<1>7. M = (toUI \o toWorker)'
  BY <1>2 DEF M
<1>8. TypeOK'
  <2>1. /\ IsSeq(Append(toWorker, m))
        /\ \A i \in DOMAIN Append(toWorker, m) : IsCall(Append(toWorker, m)[i])
    BY <1>1, <1>3, PostedTypes
  <2> QED BY <1>1, <1>2, <2>1, NumberFacts DEF TypeOK
<1>9. LineOK(InFlight, syncs - sm.syncing, syncs, Oldest(sm, dispatched), dispatched,
             sm.unconfirmedUndos)'
  BY <1>2, <1>6, <1>7 DEF InFlight
<1> QED BY <1>2, <1>8, <1>9 DEF IInv, RedoMenuExact, RemoteSignals

-----------------------------------------------------------------------------
(***************************************************************************)
(* The signals the UI thread handles.                                      *)
(***************************************************************************)
\* The first signal is taken off the line, which is N without it.
LEMMA SignalHandled ==
    ASSUME IInv, toUI # <<>>, toUI' = Tail(toUI),
           UNCHANGED <<running, toWorker, dispatched, remote, syncs>>,
           ListsOK(sm', dispatched), sm'.redoEnabled <=> canRedo(sm'), sm'.syncing <= syncs,
           NEW N, FirstTaken(toUI, toWorker, N),
           LineOK(N, syncs - sm'.syncing, syncs, Oldest(sm', dispatched), dispatched,
                  sm'.unconfirmedUndos)
    PROVE  IInv'
<1>1. /\ TypeOK /\ IsSeq(toUI) /\ IsSeq(toWorker) /\ remote \in Nat /\ running \in BOOLEAN
      /\ RemoteSignals
  BY DEF IInv, TypeOK
<1>2. LineOK(Tail(toUI) \o toWorker, syncs - sm'.syncing, syncs, Oldest(sm', dispatched),
             dispatched, sm'.unconfirmedUndos)
  BY <1>1, LineTake
<1>3. /\ IsSeq(Tail(toUI)) /\ \A i \in DOMAIN Tail(toUI) : IsSignal(Tail(toUI)[i])
      /\ \A i \in DOMAIN Tail(toUI) :
            Tail(toUI)[i].type = "actionReceived" => Tail(toUI)[i].id.client # HubId
  BY <1>1, TakenTypes
<1>4. TypeOK'
  BY <1>1, <1>3, NumberFacts DEF TypeOK, ListsOK
<1>5. LineOK(InFlight, syncs - sm.syncing, syncs, Oldest(sm, dispatched), dispatched,
             sm.unconfirmedUndos)'
  BY <1>2 DEF InFlight
<1> QED BY <1>3, <1>4, <1>5 DEF IInv, RedoMenuExact, RemoteSignals

\* What a handler finds: the line is in order and its first message is the signal.
LEMMA SignalAtFront ==
    ASSUME IInv, NEW type, Signal(type)
    PROVE  /\ toUI # <<>> /\ toUI' = Tail(toUI) /\ Head(toUI).type = type
           /\ IsSignal(Head(toUI))
           /\ type = "actionReceived" => Head(toUI).id.client # HubId
           /\ \E N : FirstTaken(toUI, toWorker, N)
           /\ LineOK(toUI \o toWorker, syncs - sm.syncing, syncs, Oldest(sm, dispatched),
                     dispatched, sm.unconfirmedUndos)
           /\ ListsOK(sm, dispatched) /\ (sm.redoEnabled <=> canRedo(sm))
<1>1. TypeOK /\ IsSeq(toUI) /\ IsSeq(toWorker) /\ RemoteSignals
  BY DEF IInv, TypeOK
<1>2. toUI # <<>> /\ toUI' = Tail(toUI) /\ Head(toUI).type = type
  BY DEF Signal
<1>3. IsSignal(Head(toUI)) /\ (type = "actionReceived" => Head(toUI).id.client # HubId)
  BY <1>1, <1>2, TakenTypes
<1>4. \E N : FirstTaken(toUI, toWorker, N)
  BY <1>1, <1>2, LineTake
<1> QED BY <1>2, <1>3, <1>4 DEF IInv, InFlight, RedoMenuExact

\* A participant's action touches no own action, and no message stands for it.
LEMMA ReceiveActionStep == IInv /\ ReceiveAction => IInv'
<1> SUFFICES ASSUME IInv, ReceiveAction PROVE IInv'
  OBVIOUS
<1> DEFINE e == Head(toUI)
           s == receiveAction(sm, e.id)
<1>1. Signal("actionReceived") /\ sm' = s
  BY DEF ReceiveAction
<1>2. UNCHANGED <<running, toWorker, dispatched, remote, syncs>>
  BY DEF ReceiveAction, counters
<1>3. e.type = "actionReceived" /\ e.id \in ActionIds /\ e.id.client # HubId /\ IsOther(e)
  BY <1>1, SignalAtFront DEF IsSignal, IsOther, IsAct, IsSyn, IsUnd
<1>4. PICK N : FirstTaken(toUI, toWorker, N)
  BY <1>1, SignalAtFront
<1>5. /\ ListsOK(s, dispatched) /\ Oldest(s, dispatched) = Oldest(sm, dispatched)
      /\ s.unconfirmedUndos = sm.unconfirmedUndos /\ s.syncing = sm.syncing
      /\ s.redoList = sm.redoList /\ s.redoEnabled = sm.redoEnabled
  BY <1>1, <1>3, SignalAtFront, NumberFacts, ReceiveActionLists
<1> HIDE DEF e, s
<1>6. s.redoEnabled <=> canRedo(s)
  BY <1>1, <1>5, SignalAtFront DEF canRedo
<1>7. LineOK(N, syncs - sm.syncing, syncs, Oldest(sm, dispatched), dispatched,
             sm.unconfirmedUndos)
  <2>1. Without(toUI \o toWorker, N, 1) /\ (toUI \o toWorker)[1] = e
    BY <1>4 DEF FirstTaken, e
  <2> QED BY <1>1, <1>3, <2>1, SignalAtFront, OtherLeaves
<1> QED BY <1>1, <1>2, <1>4, <1>5, <1>6, <1>7, SignalAtFront, SignalHandled, NumberFacts

\* The confirmation of an action: stale if a sync is under way, otherwise that
\* of the oldest unconfirmed action.
LEMMA ReceiveActionConfirmStep == IInv /\ ReceiveActionConfirm => IInv'
<1> SUFFICES ASSUME IInv, ReceiveActionConfirm PROVE IInv'
  OBVIOUS
<1> DEFINE e == Head(toUI)
           L == toUI \o toWorker
           o == Oldest(sm, dispatched)
<1>1. Signal("actionConfirm") /\ sm' = receiveActionConfirm(sm, e.id)
  BY DEF ReceiveActionConfirm
<1>2. UNCHANGED <<running, toWorker, dispatched, remote, syncs>>
  BY DEF ReceiveActionConfirm, counters
<1>3. IsAct(e)
  BY <1>1, SignalAtFront DEF IsAct
<1>4. PICK N : FirstTaken(toUI, toWorker, N)
  BY <1>1, SignalAtFront
<1>5. Without(L, N, 1) /\ (\A i \in DOMAIN N : 1 < i) /\ L[1] = e
  BY <1>4 DEF FirstTaken
<1>6. LineOK(L, syncs - sm.syncing, syncs, o, dispatched, sm.unconfirmedUndos)
  BY <1>1, SignalAtFront
<1> HIDE DEF e, L, o
<1>7. o \in Nat
  BY NumberFacts DEF o
<1>8. CASE sm.syncing > 0
  <2>1. sm' = sm
    BY <1>1, <1>8 DEF receiveActionConfirm
  <2>2. syncs - sm.syncing < syncs
    BY <1>8, NumberFacts
  <2>3. LineOK(N, syncs - sm.syncing, syncs, o, dispatched, sm.unconfirmedUndos)
    BY <1>3, <1>5, <1>6, <1>7, <2>2, NumberFacts, StaleLeaves
  <2> QED BY <1>1, <1>2, <1>4, <2>1, <2>3, SignalAtFront, SignalHandled, NumberFacts DEF o
<1>9. CASE ~(sm.syncing > 0)
  <2>1. syncs - sm.syncing = syncs
    BY <1>9, NumberFacts
  <2>2. /\ o < dispatched /\ e.id = OwnId(o + 1)
        /\ LineOK(N, syncs, syncs, o + 1, dispatched, sm.unconfirmedUndos)
    <3>1. LineOK(L, syncs, syncs, o, dispatched, sm.unconfirmedUndos)
      BY <1>6, <2>1
    <3> QED BY <1>3, <1>5, <1>7, <3>1, NumberFacts, ActionLeaves
  <2> DEFINE s == receiveActionConfirm(sm, OwnId(o + 1))
  <2>3. /\ ListsOK(s, dispatched) /\ Oldest(s, dispatched) = o + 1
        /\ s.unconfirmedUndos = sm.unconfirmedUndos /\ s.syncing = sm.syncing
        /\ s.redoList = sm.redoList /\ s.redoEnabled = sm.redoEnabled
    BY <1>1, <1>9, <2>2, SignalAtFront, NumberFacts, ReceiveActionConfirmLists DEF o
  <2>4. sm' = s
    BY <1>1, <2>2
  <2> HIDE DEF s
  <2>5. s.redoEnabled <=> canRedo(s)
    BY <1>1, <2>3, SignalAtFront DEF canRedo
  <2> QED BY <1>1, <1>2, <1>4, <2>1, <2>2, <2>3, <2>4, <2>5, SignalAtFront, SignalHandled,
             NumberFacts
<1> QED BY <1>8, <1>9

\* The confirmation of an undo: stale if a sync is under way, otherwise that of
\* a pending undo whose action is confirmed.
LEMMA ReceiveUndoConfirmStep == IInv /\ ReceiveUndoConfirm => IInv'
<1> SUFFICES ASSUME IInv, ReceiveUndoConfirm PROVE IInv'
  OBVIOUS
<1> DEFINE e == Head(toUI)
           L == toUI \o toWorker
           o == Oldest(sm, dispatched)
<1>1. Signal("undoConfirm") /\ sm' = receiveUndoConfirm(sm, e.id)
  BY DEF ReceiveUndoConfirm
<1>2. UNCHANGED <<running, toWorker, dispatched, remote, syncs>>
  BY DEF ReceiveUndoConfirm, counters
<1>3. IsUnd(e)
  BY <1>1, SignalAtFront DEF IsUnd
<1>4. PICK N : FirstTaken(toUI, toWorker, N)
  BY <1>1, SignalAtFront
<1>5. Without(L, N, 1) /\ (\A i \in DOMAIN N : 1 < i) /\ L[1] = e
  BY <1>4 DEF FirstTaken
<1>6. LineOK(L, syncs - sm.syncing, syncs, o, dispatched, sm.unconfirmedUndos)
  BY <1>1, SignalAtFront
<1> HIDE DEF e, L, o
<1>7. o \in Nat
  BY NumberFacts DEF o
<1>8. CASE sm.syncing > 0
  <2>1. sm' = sm
    BY <1>1, <1>8 DEF receiveUndoConfirm
  <2>2. syncs - sm.syncing < syncs
    BY <1>8, NumberFacts
  <2>3. LineOK(N, syncs - sm.syncing, syncs, o, dispatched, sm.unconfirmedUndos)
    BY <1>3, <1>5, <1>6, <1>7, <2>2, NumberFacts, StaleLeaves
  <2> QED BY <1>1, <1>2, <1>4, <2>1, <2>3, SignalAtFront, SignalHandled, NumberFacts DEF o
<1>9. CASE ~(sm.syncing > 0)
  <2>1. syncs - sm.syncing = syncs
    BY <1>9, NumberFacts
  <2>2. /\ IsOwn(e.id, o) /\ e.id \in sm.unconfirmedUndos
        /\ LineOK(N, syncs, syncs, o, dispatched, sm.unconfirmedUndos \ {e.id})
    <3>1. LineOK(L, syncs, syncs, o, dispatched, sm.unconfirmedUndos)
      BY <1>6, <2>1
    <3> QED BY <1>3, <1>5, <1>7, <3>1, NumberFacts, UndoLeaves
  <2> DEFINE s == receiveUndoConfirm(sm, e.id)
  <2>3. /\ ListsOK(s, dispatched) /\ Oldest(s, dispatched) = o
        /\ s.unconfirmedUndos = sm.unconfirmedUndos \ {e.id} /\ s.syncing = sm.syncing
        /\ s.redoList = sm.redoList /\ s.redoEnabled = sm.redoEnabled
    BY <1>1, <1>9, <2>2, SignalAtFront, NumberFacts, ReceiveUndoConfirmLists DEF o
  <2>4. sm' = s
    BY <1>1
  <2> HIDE DEF s
  <2>5. s.redoEnabled <=> canRedo(s)
    BY <1>1, <2>3, SignalAtFront DEF canRedo
  <2> QED BY <1>1, <1>2, <1>4, <2>1, <2>2, <2>3, <2>4, <2>5, SignalAtFront, SignalHandled,
             NumberFacts
<1> QED BY <1>8, <1>9

\* The confirmation of a sync: there is one under way, the oldest of them.
LEMMA ConfirmSyncStep == IInv /\ ConfirmSync => IInv'
<1> SUFFICES ASSUME IInv, ConfirmSync PROVE IInv'
  OBVIOUS
<1> DEFINE e == Head(toUI)
           L == toUI \o toWorker
           o == Oldest(sm, dispatched)
           a == syncs - sm.syncing
           s == confirmSync(sm)
<1>1. Signal("syncConfirmed") /\ sm' = s
  BY DEF ConfirmSync
<1>2. UNCHANGED <<running, toWorker, dispatched, remote, syncs>>
  BY DEF ConfirmSync, counters
<1>3. IsSyn(e)
  BY <1>1, SignalAtFront DEF IsSyn
<1>4. PICK N : FirstTaken(toUI, toWorker, N)
  BY <1>1, SignalAtFront
<1>5. Without(L, N, 1) /\ (\A i \in DOMAIN N : 1 < i) /\ L[1] = e
  BY <1>4 DEF FirstTaken
<1>6. LineOK(L, a, syncs, o, dispatched, sm.unconfirmedUndos)
  BY <1>1, SignalAtFront
<1>7. o \in Nat /\ a \in Nat
  BY NumberFacts
<1> HIDE DEF e, L, o
<1>8. a < syncs /\ LineOK(N, a + 1, syncs, o, dispatched, sm.unconfirmedUndos)
  <2> HIDE DEF a
  <2> QED BY <1>3, <1>5, <1>6, <1>7, NumberFacts, SyncLeaves
<1>9. sm.syncing > 0
  BY <1>8, NumberFacts
<1>10. /\ ListsOK(s, dispatched) /\ Oldest(s, dispatched) = o
       /\ s.unconfirmedUndos = sm.unconfirmedUndos /\ s.syncing = sm.syncing - 1
       /\ s.redoList = sm.redoList /\ s.redoEnabled = sm.redoEnabled
  BY <1>1, <1>9, SignalAtFront, ConfirmSyncLists DEF o
<1> HIDE DEF s
<1>11. syncs - s.syncing = a + 1 /\ s.syncing <= syncs
  BY <1>10, NumberFacts
<1>12. s.redoEnabled <=> canRedo(s)
  BY <1>1, <1>10, SignalAtFront DEF canRedo
<1> HIDE DEF a
<1> QED BY <1>1, <1>2, <1>4, <1>8, <1>10, <1>11, <1>12, SignalAtFront, SignalHandled

\* The signal that the server has started is answered by a sync.
LEMMA ChangeNetworkServerStateStep == IInv /\ ChangeNetworkServerState => IInv'
<1> SUFFICES ASSUME IInv, ChangeNetworkServerState PROVE IInv'
  OBVIOUS
<1> DEFINE e == Head(toUI)
           u == Tail(toUI)
<1>1. Signal("stateStarted") /\ Sync(tournament)
  BY DEF ChangeNetworkServerState
<1>2. IsOther(e)
  BY <1>1, SignalAtFront DEF IsOther, IsAct, IsSyn, IsUnd
<1>3. PICK N : FirstTaken(toUI, toWorker, N)
  BY <1>1, SignalAtFront
<1>4. LineOK(N, syncs - sm.syncing, syncs, Oldest(sm, dispatched), dispatched,
             sm.unconfirmedUndos)
  <2>1. Without(toUI \o toWorker, N, 1) /\ (toUI \o toWorker)[1] = e
    BY <1>3 DEF FirstTaken
  <2> HIDE DEF e
  <2> QED BY <1>1, <1>2, <2>1, SignalAtFront, OtherLeaves
<1>5. TypeOK /\ IsSeq(toUI) /\ IsSeq(toWorker) /\ RemoteSignals
  BY DEF IInv, TypeOK
<1>6. LineOK(u \o toWorker, syncs - sm.syncing, syncs, Oldest(sm, dispatched), dispatched,
             sm.unconfirmedUndos)
  BY <1>1, <1>3, <1>4, <1>5, SignalAtFront, LineTake
<1>7. /\ IsSeq(u) /\ \A i \in DOMAIN u : IsSignal(u[i])
      /\ \A i \in DOMAIN u : u[i].type = "actionReceived" => u[i].id.client # HubId
      /\ toUI' = u
  BY <1>1, <1>5, SignalAtFront, TakenTypes
<1> HIDE DEF u
<1> QED BY <1>1, <1>6, <1>7, SyncPosted

-----------------------------------------------------------------------------
(***************************************************************************)
(* The posted functions the worker thread runs, and the participants.      *)
(***************************************************************************)
\* A call is answered in place: its signal is the last of the queued ones.
LEMMA Answered ==
    ASSUME IInv, toWorker # <<>>, toWorker' = Tail(toWorker), NEW e, IsSignal(e),
           e.type # "actionReceived", SameKind(Head(toWorker), e), Emit(e),
           UNCHANGED <<uiVars, counters>>
    PROVE  IInv'
<1>1. /\ TypeOK /\ IsSeq(toUI) /\ IsSeq(toWorker) /\ remote \in Nat /\ running \in BOOLEAN
      /\ RemoteSignals
  BY DEF IInv, TypeOK
<1>2. /\ toUI' = Append(toUI, e)
      /\ UNCHANGED <<sm, running, dispatched, remote, syncs>>
  BY DEF Emit, uiVars, counters
<1>3. LineOK(Append(toUI, e) \o Tail(toWorker), syncs - sm.syncing, syncs,
             Oldest(sm, dispatched), dispatched, sm.unconfirmedUndos)
  BY <1>1, LineAnswer DEF IInv, InFlight
<1>4. /\ IsSeq(Append(toUI, e))
      /\ \A i \in DOMAIN Append(toUI, e) : IsSignal(Append(toUI, e)[i])
      /\ \A i \in DOMAIN Append(toUI, e) :
            Append(toUI, e)[i].type = "actionReceived" => Append(toUI, e)[i].id.client # HubId
  BY <1>1, EmittedTypes
<1>5. IsSeq(Tail(toWorker)) /\ \A i \in DOMAIN Tail(toWorker) : IsCall(Tail(toWorker)[i])
  BY <1>1, HandledTypes
<1>6. TypeOK'
  BY <1>1, <1>2, <1>4, <1>5, NumberFacts DEF TypeOK
<1>7. LineOK(InFlight, syncs - sm.syncing, syncs, Oldest(sm, dispatched), dispatched,
             sm.unconfirmedUndos)'
  BY <1>2, <1>3 DEF InFlight
<1> QED BY <1>2, <1>4, <1>6, <1>7 DEF IInv, RedoMenuExact, RemoteSignals

\* A call that is none of the hub's syncs, actions and undos has no answer.
LEMMA Unanswered ==
    ASSUME IInv, toWorker # <<>>, toWorker' = Tail(toWorker), IsOther(Head(toWorker)),
           UNCHANGED <<uiVars, toUI, counters>>
    PROVE  IInv'
<1>1. TypeOK /\ IsSeq(toUI) /\ IsSeq(toWorker) /\ remote \in Nat /\ running \in BOOLEAN
  BY DEF IInv, TypeOK
<1>2. UNCHANGED <<sm, running, toUI, dispatched, remote, syncs>>
  BY DEF uiVars, counters
<1>3. LineOK(toUI \o Tail(toWorker), syncs - sm.syncing, syncs,
             Oldest(sm, dispatched), dispatched, sm.unconfirmedUndos)
  BY <1>1, LineSilence DEF IInv, InFlight
<1>4. IsSeq(Tail(toWorker)) /\ \A i \in DOMAIN Tail(toWorker) : IsCall(Tail(toWorker)[i])
  BY <1>1, HandledTypes
<1>5. TypeOK'
  BY <1>1, <1>2, <1>4, NumberFacts DEF TypeOK
<1>6. LineOK(InFlight, syncs - sm.syncing, syncs, Oldest(sm, dispatched), dispatched,
             sm.unconfirmedUndos)'
  BY <1>2, <1>3 DEF InFlight
<1> QED BY <1>2, <1>5, <1>6 DEF IInv, RedoMenuExact, RemoteSignals

\* Each posted function, whether or not it has an answer, keeps the invariant.
LEMMA WorkerStep == IInv /\ WorkerNext => IInv'
<1> SUFFICES ASSUME IInv, WorkerNext PROVE IInv'
  OBVIOUS
<1> DEFINE m == Head(toWorker)
<1>0. ASSUME toWorker # <<>> PROVE IsCall(m)
  BY <1>0, HandledTypes DEF IInv
<1>1. CASE ServerSync
  <2> DEFINE e == SyncConfirmed(m.n)
  <2>1. /\ toWorker # <<>> /\ m.type = "sync" /\ toWorker' = Tail(toWorker) /\ Emit(e)
        /\ UNCHANGED <<uiVars, counters>>
    BY <1>1 DEF ServerSync, Posted
  <2>2. m.n \in Nat
    BY <1>0, <2>1 DEF IsCall
  <2> HIDE DEF m
  <2>3. e.type = "syncConfirmed" /\ e.n = m.n
    BY DEF SyncConfirmed
  <2> HIDE DEF e
  <2>4. IsSignal(e) /\ SameKind(m, e) /\ e.type # "actionReceived"
    BY <2>1, <2>2, <2>3 DEF IsSignal, SameKind, IsAct, IsSyn, IsUnd
  <2> QED BY <2>1, <2>4, Answered DEF m
<1>2. CASE ServerAction
  <2> DEFINE e == ActionConfirmReceived(m.id)
  <2>1. /\ toWorker # <<>> /\ m.type = "action" /\ toWorker' = Tail(toWorker) /\ Emit(e)
        /\ UNCHANGED <<uiVars, counters>>
    BY <1>2 DEF ServerAction, Posted
  <2>2. m.id \in ActionIds
    BY <1>0, <2>1 DEF IsCall
  <2> HIDE DEF m
  <2>3. e.type = "actionConfirm" /\ e.id = m.id
    BY DEF ActionConfirmReceived
  <2> HIDE DEF e
  <2>4. IsSignal(e) /\ SameKind(m, e) /\ e.type # "actionReceived"
    BY <2>1, <2>2, <2>3 DEF IsSignal, SameKind, IsAct, IsSyn, IsUnd
  <2> QED BY <2>1, <2>4, Answered DEF m
<1>3. CASE ServerUndo
  <2> DEFINE e == UndoConfirmReceived(m.id)
  <2>1. /\ toWorker # <<>> /\ m.type = "undo" /\ toWorker' = Tail(toWorker) /\ Emit(e)
        /\ UNCHANGED <<uiVars, counters>>
    BY <1>3 DEF ServerUndo, Posted
  <2>2. m.id \in ActionIds
    BY <1>0, <2>1 DEF IsCall
  <2> HIDE DEF m
  <2>3. e.type = "undoConfirm" /\ e.id = m.id
    BY DEF UndoConfirmReceived
  <2> HIDE DEF e
  <2>4. IsSignal(e) /\ SameKind(m, e) /\ e.type # "actionReceived"
    BY <2>1, <2>2, <2>3 DEF IsSignal, SameKind, IsAct, IsSyn, IsUnd
  <2> QED BY <2>1, <2>4, Answered DEF m
<1>4. CASE ServerStart
  <2> DEFINE e == StateStarted
  <2>1. /\ toWorker # <<>> /\ m.type = "start" /\ toWorker' = Tail(toWorker)
        /\ Emit(e) \/ UNCHANGED toUI
        /\ UNCHANGED <<uiVars, counters>>
    BY <1>4 DEF ServerStart, Posted
  <2> HIDE DEF m
  <2>2. e.type = "stateStarted"
    BY DEF StateStarted
  <2> HIDE DEF e
  <2>3. IsSignal(e) /\ SameKind(m, e) /\ e.type # "actionReceived" /\ IsOther(m)
    BY <2>1, <2>2 DEF IsSignal, SameKind, IsOther, IsAct, IsSyn, IsUnd
  <2>4. CASE Emit(e)
    BY <2>1, <2>3, <2>4, Answered DEF m
  <2>5. CASE UNCHANGED toUI
    BY <2>1, <2>3, <2>5, Unanswered DEF m
  <2> QED BY <2>1, <2>4, <2>5
<1>5. CASE ServerStop
  <2>1. /\ toWorker # <<>> /\ m.type = "stop" /\ toWorker' = Tail(toWorker)
        /\ UNCHANGED <<uiVars, toUI, counters>>
    BY <1>5 DEF ServerStop, Posted
  <2>2. IsOther(m)
    BY <2>1 DEF IsOther, IsAct, IsSyn, IsUnd
  <2> QED BY <2>1, <2>2, Unanswered
<1> QED BY <1>1, <1>2, <1>3, <1>4, <1>5 DEF WorkerNext

\* The signal of a participant's action comes between the hub's own messages.
LEMMA ParticipantStep == IInv /\ ParticipantNext => IInv'
<1> SUFFICES ASSUME IInv, NEW id \in RemoteIds, DeliverAction(id) PROVE IInv'
  BY DEF ParticipantNext
<1> DEFINE e == ActionReceived(id)
<1>1. /\ TypeOK /\ IsSeq(toUI) /\ IsSeq(toWorker) /\ remote \in Nat /\ running \in BOOLEAN
      /\ RemoteSignals
  BY DEF IInv, TypeOK
<1>2. /\ toUI' = Append(toUI, e) /\ remote' = remote + 1
      /\ UNCHANGED <<sm, running, toWorker, dispatched, syncs>>
  BY DEF DeliverAction, Emit, uiVars
<1>3. id \in ActionIds /\ id.client # HubId
  BY BoundsAssumption DEF RemoteIds, ActionIds
<1>4. e.type = "actionReceived" /\ e.id = id
  BY DEF ActionReceived
<1> HIDE DEF e
<1>5. IsSignal(e) /\ IsOther(e)
  BY <1>3, <1>4 DEF IsSignal, IsOther, IsAct, IsSyn, IsUnd
<1>6. LineOK(Append(toUI, e) \o toWorker, syncs - sm.syncing, syncs,
             Oldest(sm, dispatched), dispatched, sm.unconfirmedUndos)
  BY <1>1, <1>5, LineSignal DEF IInv, InFlight
<1>7. /\ IsSeq(Append(toUI, e))
      /\ \A i \in DOMAIN Append(toUI, e) : IsSignal(Append(toUI, e)[i])
      /\ \A i \in DOMAIN Append(toUI, e) :
            Append(toUI, e)[i].type = "actionReceived" => Append(toUI, e)[i].id.client # HubId
  BY <1>1, <1>3, <1>4, <1>5, EmittedTypes
<1>8. TypeOK'
  <2>1. remote' \in Nat
    BY <1>1, <1>2
  <2> QED BY <1>1, <1>2, <1>7, <2>1, NumberFacts DEF TypeOK
<1>9. LineOK(InFlight, syncs - sm.syncing, syncs, Oldest(sm, dispatched), dispatched,
             sm.unconfirmedUndos)'
  BY <1>2, <1>6 DEF InFlight
<1> QED BY <1>2, <1>7, <1>8, <1>9 DEF IInv, RedoMenuExact, RemoteSignals

\* A step that changes none of the variables.
LEMMA StutteringStep == IInv /\ UNCHANGED vars => IInv'
<1> SUFFICES ASSUME IInv, UNCHANGED vars PROVE IInv'
  OBVIOUS
<1>1. UNCHANGED <<sm, running, toWorker, toUI, dispatched, remote, syncs>>
  BY DEF vars, uiVars, queues, counters
<1>2. TypeOK' /\ RemoteSignals' /\ RedoMenuExact'
  BY <1>1 DEF IInv, TypeOK, RemoteSignals, RedoMenuExact
<1>3. InFlight' = InFlight
  BY <1>1 DEF InFlight
<1> QED BY <1>1, <1>2, <1>3 DEF IInv

-----------------------------------------------------------------------------
(***************************************************************************)
(* The theorems.                                                           *)
(***************************************************************************)
\* The messages between the hub's two threads mirror the StoreManager's lists
\* in every reachable state: each unconfirmed action, pending undo and sync
\* under way has its message, in the order it was posted.
THEOREM Inductive == Spec => []IInv
<1>1. IInv /\ [Next]_vars => IInv'
  BY DispatchStep, RedoStep, UndoStep, ResetTournamentStep, QuitStep, ReceiveActionStep,
     ReceiveActionConfirmStep, ReceiveUndoConfirmStep, ConfirmSyncStep,
     ChangeNetworkServerStateStep, WorkerStep, ParticipantStep, StutteringStep
     DEF Next, UserNext, SignalNext
<1> QED BY InitInvariant, <1>1, PTL DEF Spec

\* The hub's variables always have their types; mUndoneUnconfirmedActions and
\* mSyncing in particular never go below zero.
THEOREM TypeCorrect == Spec => []TypeOK
<1>1. IInv => TypeOK
  BY DEF IInv
<1> QED BY Inductive, <1>1, PTL

\* No method of the hub's StoreManager ever throws or fails an assertion:
\* confirmations come in the order of the unconfirmed list, an undo finds its
\* action still done.
THEOREM HubNeverFails == Spec => []NeverFails
<1>1. IInv => NeverFails
  BY DEF IInv, ListsOK, NeverFails
<1> QED BY Inductive, <1>1, PTL

\* An action on the hub's lists is undone exactly while its undo is pending,
\* and mUndoneUnconfirmedActions counts the undone unconfirmed ones, on which
\* receiveAction's position rests.
THEOREM UndoneExactly == Spec => []UndoneIffPending
<1>1. IInv => UndoneIffPending
  BY DEF IInv, ListsOK, UndoneIffPending
<1> QED BY Inductive, <1>1, PTL

\* The Redo menu item is enabled exactly when there is an action to redo.
THEOREM RedoMenu == Spec => []RedoMenuExact
<1>1. IInv => RedoMenuExact
  BY DEF IInv
<1> QED BY Inductive, <1>1, PTL

\* mSyncing is the number of syncs on their way to the server and back, which
\* are the latest ones, so that the signals ignored meanwhile are those of an
\* earlier tournament.
THEOREM SyncingCounts == Spec => []SyncingExact
<1>1. ASSUME IInv PROVE SyncingExact
  <2> DEFINE first == syncs - sm.syncing + 1
  <2>1. sm.syncing \in 0 .. syncs
    BY <1>1, NumberFacts
  <2>2. SyncsExact(InFlight, first, syncs)
    BY <1>1 DEF IInv, LineOK
  <2>3. SyncsInFlight = first .. syncs
    <3> HIDE DEF first
    <3>1. \A n \in SyncsInFlight : n \in first .. syncs
      BY <2>2 DEF SyncsExact, SyncsInFlight, IsSyn
    <3>2. \A n \in first .. syncs : n \in SyncsInFlight
      BY <2>2 DEF SyncsExact, SyncsInFlight, IsSyn
    <3> QED BY <3>1, <3>2
  <2> QED BY <2>1, <2>3 DEF SyncingExact
<1> QED BY Inductive, <1>1, PTL

=============================================================================
