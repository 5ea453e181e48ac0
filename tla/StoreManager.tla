---------------------------- MODULE StoreManager ----------------------------
(***************************************************************************)
(* The optimistic action log every application keeps on its UI thread      *)
(* (src/src/ui/store_managers/store_manager.cpp).                          *)
(*                                                                         *)
(* A StoreManager applies the user's actions to its tournament at once,    *)
(* keeps them on the unconfirmed list until its network interface confirms *)
(* them, and keeps the actions everybody agreed on on the confirmed list.  *)
(* A remote action is slipped in below the unconfirmed ones by undoing     *)
(* them, applying the remote action and redoing them.                      *)
(*                                                                         *)
(* The module has no variables: a StoreManager's control state is a record *)
(* sm, its tournament a value t, and every method is a pair of operators,  *)
(* one giving the next sm and one giving the next t.  Hub.tla and          *)
(* Replication.tla hold them in variables and call them.                   *)
(***************************************************************************)
EXTENDS Integers, Sequences, FiniteSets, SequencesExt

CONSTANTS
    ClientIds,               \* the ClientIds of the applications
    NoAction,                \* std::nullopt of mUndoActionId
    MAX_ACTION_STACK_SIZE,   \* longest confirmed list (100 in the code)
    REDO_LIST_MAX_SIZE       \* longest redo list (20 in the code)

\* A ClientActionId is the application's id and an id it has not used before.
ActionIds == [client : ClientIds, n : Nat]

ASSUME StackSizeAssumption == MAX_ACTION_STACK_SIZE \in Nat \ {0}
ASSUME RedoSizeAssumption == REDO_LIST_MAX_SIZE \in Nat \ {0}
ASSUME NoActionAssumption == NoAction \notin ActionIds

-----------------------------------------------------------------------------
(***************************************************************************)
(* Tournaments and actions.  The content of a tournament is the tournament *)
(* it was created or loaded as (base) and the actions done on it since, in *)
(* order.  An Action's undo restores what its redo saw, so it is only      *)
(* right on the tournament its redo left behind: undoing anything but the  *)
(* latest action clears inOrder for good.                                  *)
(***************************************************************************)
NewTournament(base) == [base |-> base, applied |-> <<>>, inOrder |-> TRUE]

redoImpl(t, id) == [t EXCEPT !.applied = Append(@, id)]

undoImpl(t, id) ==
    IF t.applied # <<>> /\ Last(t.applied) = id
    THEN [t EXCEPT !.applied = Front(@)]
    ELSE [t EXCEPT !.applied = Remove(@, id), !.inOrder = FALSE]

-----------------------------------------------------------------------------
(***************************************************************************)
(* Lists of actions: an entry is an action with its mDone flag.            *)
(***************************************************************************)
Entries == [id : ActionIds, done : BOOLEAN]

Entry(id) == [id |-> id, done |-> TRUE]

Ids(list) == {list[i].id : i \in DOMAIN list}

\* The entry of an id, as mConfirmedActionMap and mUnconfirmedActionMap find it.
PosOf(list, id) == CHOOSE i \in DOMAIN list : list[i].id = id

DoneIds(list) == LET done == SelectSeq(list, LAMBDA e : e.done)
                 IN  [i \in DOMAIN done |-> done[i].id]

\* The latest action of client me that is still done, which is what Undo undoes.
LastOwnDone(list, me) ==
    LET own == {i \in DOMAIN list : list[i].done /\ list[i].id.client = me}
        IsLast(i) == i \in own /\ \A j \in own : j <= i
    IN  IF \E i \in own : IsLast(i) THEN list[CHOOSE i \in own : IsLast(i)].id ELSE NoAction

\* The loops over a list: undo what is done, last to first, from position k
\* on, and redo what no pending undo covers, first to last.
UndoneFrom(list, k) ==
    [i \in DOMAIN list |-> IF i >= k THEN [list[i] EXCEPT !.done = FALSE]
                                     ELSE list[i]]

Redone(list, undos) ==
    [i \in DOMAIN list |-> IF list[i].id \in undos
                           THEN list[i] ELSE [list[i] EXCEPT !.done = TRUE]]

UnrollFrom(t, list, k) ==
    FoldRight(LAMBDA e, acc : IF e.done THEN undoImpl(acc, e.id) ELSE acc,
              SubSeq(list, k, Len(list)), t)

\* Faulty variant: redoes also what a pending undo covers.
ReplayForgetsUndos(t, list, undos) ==
    FoldLeft(LAMBDA acc, e : IF e.done THEN acc ELSE redoImpl(acc, e.id), t, list)

Replay(t, list, undos) ==
    FoldLeft(LAMBDA acc, e : IF e.id \in undos \/ e.done THEN acc
                             ELSE redoImpl(acc, e.id),
             t, list)

-----------------------------------------------------------------------------
(***************************************************************************)
(* The control state.  undoEnabled and redoEnabled are the values last     *)
(* given to undoStatusChanged and redoStatusChanged (the state of the Undo *)
(* and Redo menu items); redoList is the length of mRedoList; alive is     *)
(* cleared when a method throws or fails an assertion.                     *)
(***************************************************************************)
SMType == [confirmed : Seq(Entries),
           unconfirmed : Seq(Entries),
           redoList : Nat,
           unconfirmedUndos : SUBSET ActionIds,
           undoneUnconfirmed : Nat,
           undoActionId : ActionIds \cup {NoAction},
           syncing : Nat,
           undoEnabled : BOOLEAN,
           redoEnabled : BOOLEAN,
           alive : BOOLEAN]

NewStoreManager ==
    [confirmed |-> <<>>, unconfirmed |-> <<>>, redoList |-> 0,
     unconfirmedUndos |-> {}, undoneUnconfirmed |-> 0,
     undoActionId |-> NoAction, syncing |-> 0,
     undoEnabled |-> FALSE, redoEnabled |-> FALSE, alive |-> TRUE]

Failed(sm) == [sm EXCEPT !.alive = FALSE]

canUndo(sm) == sm.undoActionId # NoAction
canRedo(sm) == sm.redoList > 0

-----------------------------------------------------------------------------
\* Faulty variant: the redo list is not cleared.
syncKeepsRedoList(sm) ==
    [sm EXCEPT !.syncing = @ + 1, !.confirmed = <<>>, !.unconfirmed = <<>>,
               !.unconfirmedUndos = {}, !.undoneUnconfirmed = 0,
               !.redoEnabled = FALSE, !.undoEnabled = FALSE]

\* sync(tournament): the caller replaces the tournament and posts a copy of it.
sync(sm) ==
    [sm EXCEPT !.syncing = @ + 1,
               !.confirmed = <<>>,
               !.unconfirmed = <<>>,
               !.redoList = 0,
               !.unconfirmedUndos = {},
               !.undoneUnconfirmed = 0,
               !.redoEnabled = FALSE,
               !.undoEnabled = FALSE]

\* Faulty variant: mSyncing as a flag.
confirmSyncAll(sm) == [sm EXCEPT !.syncing = 0]

confirmSync(sm) == [sm EXCEPT !.syncing = @ - 1]

dispatch(sm, id) ==
    [sm EXCEPT !.unconfirmed = Append(@, Entry(id)),
               !.undoActionId = id,
               !.undoEnabled = IF canUndo(sm) THEN @ ELSE TRUE]

dispatchOn(t, id) == redoImpl(t, id)

redo(sm, id) ==
    IF ~canRedo(sm) THEN Failed(sm)
    ELSE LET popped == dispatch([sm EXCEPT !.redoList = @ - 1], id)
         IN  [popped EXCEPT !.redoEnabled = IF popped.redoList = 0 THEN FALSE ELSE @]

\* Faulty variant: the newest action leaves the list.
popActionListBack(sm) ==
    IF ~Last(sm.confirmed).done THEN sm ELSE [sm EXCEPT !.confirmed = Front(@)]

\* The oldest confirmed action leaves the list for good, unless it is undone.
popActionListFront(sm) ==
    LET front == Head(sm.confirmed)
        undoable == sm.undoActionId = front.id
    IN  IF ~front.done THEN sm
        ELSE [sm EXCEPT !.confirmed = Tail(@),
                        !.undoActionId = IF undoable THEN NoAction ELSE @,
                        !.undoEnabled = IF undoable THEN FALSE ELSE @]

confirm(sm, entry) ==
    LET pushed == [sm EXCEPT !.confirmed = Append(@, entry)]
    IN  IF Len(pushed.confirmed) > MAX_ACTION_STACK_SIZE
        THEN popActionListFront(pushed) ELSE pushed

receiveAction(sm, id) ==
    IF sm.syncing > 0 THEN sm
    ELSE LET rolledBack == [sm EXCEPT !.unconfirmed = UndoneFrom(@, 1)]
         IN  [confirm(rolledBack, Entry(id)) EXCEPT
                 !.unconfirmed = Redone(@, sm.unconfirmedUndos)]

\* Faulty variant: the unconfirmed actions are not undone first.
receiveActionOnTop(t, sm, id) == IF sm.syncing > 0 THEN t ELSE redoImpl(t, id)

receiveActionOn(t, sm, id) ==
    IF sm.syncing > 0 THEN t
    ELSE Replay(redoImpl(UnrollFrom(t, sm.unconfirmed, 1), id),
                UndoneFrom(sm.unconfirmed, 1), sm.unconfirmedUndos)

\* Faulty variants: the confirmation of an action dropped by a sync is not
\* ignored; the counter is decremented for done actions, too.
receiveActionConfirmAlways(sm, id) ==
    IF sm.unconfirmed = <<>> \/ Head(sm.unconfirmed).id # id THEN Failed(sm)
    ELSE confirm([sm EXCEPT !.unconfirmed = Tail(@)], Head(sm.unconfirmed))

receiveActionConfirmDecrements(sm, id) ==
    IF sm.syncing > 0 THEN sm
    ELSE IF sm.unconfirmed = <<>> \/ Head(sm.unconfirmed).id # id THEN Failed(sm)
    ELSE confirm([sm EXCEPT !.unconfirmed = Tail(@), !.undoneUnconfirmed = @ - 1],
                 Head(sm.unconfirmed))

\* "Received confirmation in wrong order" is thrown when the confirmed action
\* is not the oldest unconfirmed one; front() of an empty list is undefined.
receiveActionConfirm(sm, id) ==
    IF sm.syncing > 0 THEN sm
    ELSE IF sm.unconfirmed = <<>> \/ Head(sm.unconfirmed).id # id THEN Failed(sm)
    ELSE LET front == Head(sm.unconfirmed)
             popped == [sm EXCEPT !.unconfirmed = Tail(@),
                                  !.undoneUnconfirmed = IF front.done THEN @ ELSE @ - 1]
         IN  IF ~front.done /\ ~(sm.undoneUnconfirmed > 0) THEN Failed(sm)
             ELSE confirm(popped, front)

receiveUndo(sm, id, me) ==
    IF sm.syncing > 0 THEN sm
    ELSE IF id \notin Ids(sm.confirmed) THEN Failed(sm)
    ELSE LET k == PosOf(sm.confirmed, id)
             wasDone == sm.confirmed[k].done
             undos == IF wasDone THEN sm.unconfirmedUndos
                                 ELSE sm.unconfirmedUndos \ {id}
             rest == RemoveAt(UndoneFrom(sm.confirmed, k), k)
             undoId == IF sm.undoActionId = id
                       THEN LastOwnDone(SubSeq(rest, 1, k - 1), me)
                       ELSE sm.undoActionId
         IN  IF wasDone <=> id \in sm.unconfirmedUndos THEN Failed(sm)
             ELSE [sm EXCEPT !.unconfirmedUndos = undos,
                             !.confirmed = Redone(rest, undos),
                             !.unconfirmed = Redone(UndoneFrom(@, 1), undos),
                             !.undoActionId = undoId,
                             !.undoEnabled = IF sm.undoActionId = id /\ undoId = NoAction
                                             THEN FALSE ELSE @]

\* Faulty variant: the action is undone below the ones done after it.
receiveUndoOnInPlace(t, sm, id) ==
    IF sm.syncing > 0 \/ id \notin Ids(sm.confirmed) THEN t ELSE undoImpl(t, id)

receiveUndoOn(t, sm, id) ==
    IF sm.syncing > 0 \/ id \notin Ids(sm.confirmed) THEN t
    ELSE LET k == PosOf(sm.confirmed, id)
             undos == sm.unconfirmedUndos \ {id}
             unrolled == UnrollFrom(UnrollFrom(t, sm.unconfirmed, 1), sm.confirmed, k)
         IN  Replay(Replay(unrolled, RemoveAt(UndoneFrom(sm.confirmed, k), k), undos),
                    UndoneFrom(sm.unconfirmed, 1), undos)

\* Faulty variant: the undo stays pending.
receiveUndoConfirmKeepsUndo(sm, id) ==
    IF sm.syncing > 0 THEN sm
    ELSE [sm EXCEPT !.confirmed = IF id \in Ids(@) THEN RemoveAt(@, PosOf(@, id)) ELSE @]

receiveUndoConfirm(sm, id) ==
    IF sm.syncing > 0 THEN sm
    ELSE [sm EXCEPT !.unconfirmedUndos = @ \ {id},
                    !.confirmed = IF id \in Ids(@) THEN RemoveAt(@, PosOf(@, id)) ELSE @]

\* A sync from the server: newId tells whether it is another tournament than
\* the one held, confirmed and unconfirmed are lists of done actions.
receiveSync(sm, newId, confirmed, unconfirmed, me) ==
    LET undoId == LastOwnDone(confirmed \o unconfirmed, me)
        redoList == IF newId THEN 0 ELSE sm.redoList
    IN  [sm EXCEPT !.redoList = redoList,
                   !.undoActionId = undoId,
                   !.confirmed = confirmed,
                   !.unconfirmed = unconfirmed,
                   !.undoneUnconfirmed = 0,
                   !.unconfirmedUndos = {},
                   !.redoEnabled = redoList > 0,
                   !.undoEnabled = undoId # NoAction]

-----------------------------------------------------------------------------
(***************************************************************************)
(* undo(actionId) of an action on either list.  The caller is undo(), which *)
(* asserts canUndo() and passes mUndoActionId.                             *)
(***************************************************************************)
Known(sm, id) == id \in Ids(sm.confirmed) \cup Ids(sm.unconfirmed)

\* Faulty variant: the actions before an unconfirmed one are not searched.
UpToConfirmed(confirmed, unconfirmed, id) ==
    IF id \in Ids(unconfirmed) THEN confirmed
    ELSE SubSeq(confirmed, 1, PosOf(confirmed, id))

\* The entries of both lists searched for the next action to undo.
UpTo(confirmed, unconfirmed, id) ==
    IF id \in Ids(unconfirmed)
    THEN confirmed \o SubSeq(unconfirmed, 1, PosOf(unconfirmed, id))
    ELSE SubSeq(confirmed, 1, PosOf(confirmed, id))

undoId(sm, id, me) ==
    LET isUnconfirmed == id \in Ids(sm.unconfirmed)
        list == IF isUnconfirmed THEN sm.unconfirmed ELSE sm.confirmed
        k == PosOf(list, id)
        undos == sm.unconfirmedUndos \cup {id}
        confirmed == IF isUnconfirmed THEN sm.confirmed
                     ELSE Redone(UndoneFrom(sm.confirmed, k), undos)
        unconfirmed == Redone(UndoneFrom(sm.unconfirmed, IF isUnconfirmed THEN k ELSE 1),
                              undos)
        next == IF sm.undoActionId = id
                THEN LastOwnDone(UpTo(confirmed, unconfirmed, id), me)
                ELSE sm.undoActionId
        redoList == IF sm.redoList = REDO_LIST_MAX_SIZE THEN sm.redoList
                                                        ELSE sm.redoList + 1
    IN  IF ~Known(sm, id) THEN sm
        ELSE IF ~isUnconfirmed /\ ~list[k].done THEN Failed(sm)
        ELSE [sm EXCEPT !.unconfirmedUndos = undos,
                        !.undoneUnconfirmed = IF isUnconfirmed THEN @ + 1 ELSE @,
                        !.confirmed = confirmed,
                        !.unconfirmed = unconfirmed,
                        !.undoActionId = next,
                        !.redoList = redoList,
                        !.undoEnabled = IF next = NoAction THEN FALSE ELSE @,
                        !.redoEnabled = IF redoList = 1 THEN TRUE ELSE @]

undo(sm, me) == IF canUndo(sm) THEN undoId(sm, sm.undoActionId, me) ELSE Failed(sm)

undoOn(t, sm, id) ==
    LET isUnconfirmed == id \in Ids(sm.unconfirmed)
        k == PosOf(IF isUnconfirmed THEN sm.unconfirmed ELSE sm.confirmed, id)
        undos == sm.unconfirmedUndos \cup {id}
        first == IF isUnconfirmed THEN k ELSE 1
        unrolled == UnrollFrom(t, sm.unconfirmed, first)
        rolled == IF isUnconfirmed THEN unrolled
                  ELSE Replay(UnrollFrom(unrolled, sm.confirmed, k),
                              UndoneFrom(sm.confirmed, k), undos)
    IN  IF ~Known(sm, id) THEN t
        ELSE Replay(rolled, UndoneFrom(sm.unconfirmed, first), undos)

=============================================================================
