---------------------------- MODULE HubInvariant ----------------------------
(***************************************************************************)
(* The inductive invariant behind NeverFails: how the messages in flight   *)
(* between the two threads of the hub mirror the lists of the              *)
(* StoreManager.  The line of messages is InFlight: the queued signals,    *)
(* then the posted functions.  What the UI thread posts joins its end, the *)
(* worker turns a call into its answer in place, and the UI thread takes   *)
(* signals off its front.                                                  *)
(***************************************************************************)
EXTENDS Hub

IsAct(m) == m.type \in {"action", "actionConfirm"}
IsSyn(m) == m.type \in {"sync", "syncConfirmed"}
IsUnd(m) == m.type \in {"undo", "undoConfirm"}

OwnId(n) == [client |-> HubId, n |-> n]
IsOwn(id, latest) == id.n \in 1 .. latest /\ id = OwnId(id.n)

SyncAfter(L, i) == \E j \in DOMAIN L : i < j /\ IsSyn(L[j])

\* The syncs in a line are those numbered first to last, in order.
SyncsExact(L, first, last) ==
    /\ \A i \in DOMAIN L : IsSyn(L[i]) => L[i].n \in first .. last
    /\ \A n \in first .. last : \E i \in DOMAIN L : IsSyn(L[i]) /\ L[i].n = n
    /\ \A i, j \in DOMAIN L : i < j /\ IsSyn(L[i]) /\ IsSyn(L[j]) => L[i].n < L[j].n

\* Own actions stand in the line in the order of their dispatch; the ones after
\* the last sync are exactly those numbered above oldest.
ActionsExact(L, oldest, latest) ==
    /\ \A i \in DOMAIN L :
          IsAct(L[i]) => /\ IsOwn(L[i].id, latest)
                         /\ L[i].id.n <= oldest <=> SyncAfter(L, i)
    /\ \A n \in oldest + 1 .. latest : \E i \in DOMAIN L : IsAct(L[i]) /\ L[i].id = OwnId(n)
    /\ \A i, j \in DOMAIN L : i < j /\ IsAct(L[i]) /\ IsAct(L[j]) => L[i].id.n < L[j].id.n

\* An undo after the last sync is pending, and there is one for each action; it
\* follows its action if that is still in the line.
UndosExact(L, oldest, latest, undos) ==
    /\ \A i \in DOMAIN L :
          IsUnd(L[i]) =>
             /\ IsOwn(L[i].id, latest)
             /\ SyncAfter(L, i) \/ L[i].id \in undos
             /\ L[i].id.n > oldest => \E j \in DOMAIN L : /\ j < i /\ IsAct(L[j])
                                                          /\ L[j].id = L[i].id
    /\ \A i, j \in DOMAIN L :
          i < j /\ IsUnd(L[i]) /\ IsUnd(L[j]) /\ L[i].id = L[j].id => SyncAfter(L, i)

LineOK(L, confirmed, posted, oldest, latest, undos) ==
    /\ SyncsExact(L, confirmed + 1, posted)
    /\ ActionsExact(L, oldest, latest)
    /\ UndosExact(L, oldest, latest, undos)

-----------------------------------------------------------------------------
(***************************************************************************)
(* The StoreManager, of which the actions numbered up to latest have been  *)
(* dispatched.                                                             *)
(***************************************************************************)
Oldest(s, latest) == latest - Len(s.unconfirmed)

\* The unconfirmed list holds the latest own actions, in order.
UnconfirmedAreLatest(s, latest) ==
    /\ Oldest(s, latest) \in Nat
    /\ \A i \in DOMAIN s.unconfirmed : s.unconfirmed[i].id = OwnId(Oldest(s, latest) + i)

\* The confirmed list has each own action once, all older than the unconfirmed.
ConfirmedAreOlder(s, latest) ==
    /\ \A i \in DOMAIN s.confirmed :
          s.confirmed[i].id.client = HubId => IsOwn(s.confirmed[i].id, Oldest(s, latest))
    /\ \A i, j \in DOMAIN s.confirmed :
          s.confirmed[i].id.client = HubId /\ s.confirmed[i].id = s.confirmed[j].id => i = j

\* Only own actions are undone, and only finitely many.
PendingUndosAreOwn(s, latest) ==
    /\ IsFiniteSet(s.unconfirmedUndos)
    /\ \A id \in s.unconfirmedUndos : IsOwn(id, latest)

\* The Undo menu item is only enabled when its action is there and done.
UndoMenuSafe(s) ==
    s.undoEnabled => /\ Known(s, s.undoActionId)
                     /\ s.undoActionId \notin s.unconfirmedUndos
                     /\ s.undoActionId.client = HubId

ListsOK(s, latest) ==
    /\ s \in SMType
    /\ s.alive
    /\ UndoneExact(s)
    /\ UnconfirmedAreLatest(s, latest)
    /\ ConfirmedAreOlder(s, latest)
    /\ PendingUndosAreOwn(s, latest)
    /\ UndoMenuSafe(s)

-----------------------------------------------------------------------------
\* The signals of participants' actions carry no id of the hub.
RemoteSignals ==
    \A i \in DOMAIN toUI : toUI[i].type = "actionReceived" => toUI[i].id.client # HubId

\* The inductive invariant.
IInv ==
    /\ TypeOK
    /\ ListsOK(sm, dispatched)
    /\ RedoMenuExact
    /\ sm.syncing <= syncs
    /\ LineOK(InFlight, syncs - sm.syncing, syncs, Oldest(sm, dispatched), dispatched,
              sm.unconfirmedUndos)
    /\ RemoteSignals

=============================================================================
