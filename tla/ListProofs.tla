----------------------------- MODULE ListProofs -----------------------------
(***************************************************************************)
(* What the methods of the hub's StoreManager do to ListsOK, the part of   *)
(* the invariant about its two lists.                                      *)
(***************************************************************************)
EXTENDS HubInvariant, SequenceTheorems, FiniteSetTheorems, TLAPS

\* The positions, entries and ids of a list of actions.
LEMMA ListFacts ==
    ASSUME NEW list \in Seq(Entries)
    PROVE  /\ DOMAIN list = 1 .. Len(list) /\ Len(list) \in Nat
           /\ \A i \in DOMAIN list : list[i] \in Entries
           /\ Ids(list) \subseteq ActionIds
           /\ \A id : id \in Ids(list) <=> \E i \in DOMAIN list : list[i].id = id
<1>1. DOMAIN list = 1 .. Len(list) /\ Len(list) \in Nat
      /\ \A i \in DOMAIN list : list[i] \in Entries
  BY LenProperties, ElementOfSeq
<1> QED BY <1>1 DEF Ids, Entries

\* Pushing an action on a list.
LEMMA AppendFacts ==
    ASSUME NEW list \in Seq(Entries), NEW e \in Entries
    PROVE  /\ Append(list, e) \in Seq(Entries)
           /\ Len(Append(list, e)) = Len(list) + 1
           /\ DOMAIN Append(list, e) = 1 .. Len(list) + 1
           /\ \A i \in DOMAIN list : Append(list, e)[i] = list[i]
           /\ Append(list, e)[Len(list) + 1] = e
           /\ Ids(Append(list, e)) = Ids(list) \cup {e.id}
<1>1. /\ Append(list, e) \in Seq(Entries)
      /\ Len(Append(list, e)) = Len(list) + 1
      /\ DOMAIN Append(list, e) = 1 .. Len(list) + 1
      /\ \A i \in DOMAIN list : Append(list, e)[i] = list[i]
      /\ Append(list, e)[Len(list) + 1] = e
  BY AppendProperties, ListFacts
<1>2. DOMAIN Append(list, e) = DOMAIN list \cup {Len(list) + 1}
  BY <1>1, ListFacts
<1>3. Ids(Append(list, e)) = Ids(list) \cup {e.id}
  BY <1>1, <1>2 DEF Ids
<1> QED BY <1>1, <1>3

\* Popping the first action off a list.
LEMMA TailFacts ==
    ASSUME NEW list \in Seq(Entries), list # <<>>
    PROVE  /\ Tail(list) \in Seq(Entries)
           /\ Len(list) > 0 /\ Len(Tail(list)) = Len(list) - 1
           /\ DOMAIN Tail(list) = 1 .. Len(list) - 1
           /\ Head(list) = list[1] /\ Head(list) \in Entries
           /\ \A i \in 1 .. Len(list) - 1 : Tail(list)[i] = list[i + 1]
           /\ \A i \in 2 .. Len(list) : list[i] = Tail(list)[i - 1]
           /\ Ids(list) = Ids(Tail(list)) \cup {Head(list).id}
<1>1. /\ Tail(list) \in Seq(Entries)
      /\ Len(list) > 0 /\ Len(Tail(list)) = Len(list) - 1
      /\ DOMAIN Tail(list) = 1 .. Len(list) - 1
      /\ Head(list) = list[1] /\ Head(list) \in Entries
      /\ \A i \in 1 .. Len(list) - 1 : Tail(list)[i] = list[i + 1]
  BY HeadTailProperties, LenProperties, EmptySeq, ElementOfSeq
<1>2. \A i \in 2 .. Len(list) : list[i] = Tail(list)[i - 1]
  BY <1>1, ListFacts
<1>3. ASSUME NEW id \in Ids(list)
      PROVE  id \in Ids(Tail(list)) \cup {Head(list).id}
  <2>1. PICK i \in DOMAIN list : list[i].id = id
    BY <1>3, ListFacts
  <2>2. CASE i = 1
    BY <1>1, <2>1, <2>2
  <2>3. CASE i \in 2 .. Len(list)
    <3>1. i - 1 \in DOMAIN Tail(list) /\ Tail(list)[i - 1].id = id
      BY <1>1, <1>2, <2>1, <2>3, ListFacts
    <3> QED BY <1>1, <3>1, ListFacts
  <2> QED BY <2>2, <2>3, ListFacts
<1>4. ASSUME NEW id \in Ids(Tail(list))
      PROVE  id \in Ids(list)
  <2>1. PICK i \in 1 .. Len(list) - 1 : Tail(list)[i].id = id
    BY <1>1, <1>4 DEF Ids
  <2>2. i + 1 \in DOMAIN list /\ list[i + 1].id = id
    BY <1>1, <2>1, ListFacts
  <2> QED BY <2>2, ListFacts
<1>5. Head(list).id \in Ids(list)
  BY <1>1, ListFacts
<1> QED BY <1>1, <1>2, <1>3, <1>4, <1>5

\* The ids of the hub's own actions.
LEMMA OwnIds ==
    /\ \A n \in Nat : OwnId(n) \in ActionIds /\ OwnId(n).n = n /\ OwnId(n).client = HubId
    /\ \A id, latest : IsOwn(id, latest) => id.client = HubId
    /\ \A id : \A m, n \in Nat : IsOwn(id, m) /\ m <= n => IsOwn(id, n)
    /\ \A n \in Nat : ~IsOwn(OwnId(n + 1), n)
BY HubIdAssumption DEF OwnId, IsOwn, ActionIds

\* The empty list.
LEMMA EmptyListFacts ==
    /\ <<>> \in Seq(Entries) /\ Len(<<>>) = 0 /\ DOMAIN <<>> = {}
    /\ Ids(<<>>) = {}
    /\ IsFiniteSet({}) /\ Cardinality({}) = 0
BY FS_EmptySet, EmptySeq DEF Ids

-----------------------------------------------------------------------------
\* The lists of a StoreManager just constructed are in order.
LEMMA NewLists ==
    ListsOK(NewStoreManager, 0) /\ Oldest(NewStoreManager, 0) = 0
<1> DEFINE s == NewStoreManager
<1>1. s \in SMType /\ s.alive
  BY EmptyListFacts DEF NewStoreManager, SMType
<1>2. s.unconfirmed = <<>> /\ s.confirmed = <<>> /\ s.unconfirmedUndos = {}
      /\ s.undoneUnconfirmed = 0 /\ ~s.undoEnabled
  BY DEF NewStoreManager
<1>3. {} \cap Ids(<<>>) = {}
  OBVIOUS
<1>4. UndoneExact(s)
  BY <1>2, <1>3, EmptyListFacts DEF UndoneExact
<1> HIDE DEF s
<1>5. Oldest(s, 0) = 0
  <2>1. Len(s.unconfirmed) = 0
    BY <1>2, EmptyListFacts
  <2> QED BY <2>1 DEF Oldest
<1>6. UnconfirmedAreLatest(s, 0) /\ ConfirmedAreOlder(s, 0) /\ PendingUndosAreOwn(s, 0)
  BY <1>2, <1>5, EmptyListFacts
     DEF UnconfirmedAreLatest, ConfirmedAreOlder, PendingUndosAreOwn
<1>7. UndoMenuSafe(s)
  BY <1>2 DEF UndoMenuSafe
<1> QED BY <1>1, <1>4, <1>5, <1>6, <1>7 DEF ListsOK, s

\* A sync clears both lists.
LEMMA SyncLists ==
    ASSUME NEW s, NEW latest \in Nat, ListsOK(s, latest)
    PROVE  /\ ListsOK(sync(s), latest)
           /\ Oldest(sync(s), latest) = latest
           /\ sync(s).unconfirmedUndos = {} /\ sync(s).syncing = s.syncing + 1
           /\ ~canRedo(sync(s)) /\ ~sync(s).redoEnabled
<1> DEFINE t == sync(s)
<1>0. s \in SMType /\ s.alive
  BY DEF ListsOK
<1>1. t \in SMType /\ t.alive
  <2>1. s.syncing + 1 \in Nat /\ {} \in SUBSET ActionIds /\ 0 \in Nat /\ FALSE \in BOOLEAN
    BY <1>0 DEF SMType
  <2> QED BY <1>0, <2>1, EmptyListFacts DEF sync, SMType
<1>2. /\ t.unconfirmed = <<>> /\ t.confirmed = <<>> /\ t.unconfirmedUndos = {}
      /\ t.undoneUnconfirmed = 0 /\ ~t.undoEnabled /\ ~t.redoEnabled
      /\ t.syncing = s.syncing + 1 /\ t.redoList = 0
  BY <1>0 DEF sync, SMType
<1>3. {} \cap Ids(<<>>) = {}
  OBVIOUS
<1>4. UndoneExact(t)
  BY <1>2, <1>3, EmptyListFacts DEF UndoneExact
<1>5. Oldest(t, latest) = latest
  BY <1>2, EmptyListFacts DEF Oldest
<1>6. /\ UnconfirmedAreLatest(t, latest) /\ ConfirmedAreOlder(t, latest)
      /\ PendingUndosAreOwn(t, latest)
  BY <1>2, <1>5, EmptyListFacts
     DEF UnconfirmedAreLatest, ConfirmedAreOlder, PendingUndosAreOwn
<1>7. UndoMenuSafe(t)
  BY <1>2 DEF UndoMenuSafe
<1> QED BY <1>1, <1>2, <1>4, <1>5, <1>6, <1>7 DEF ListsOK, canRedo

\* A new action goes to the end of the unconfirmed list.
LEMMA DispatchLists ==
    ASSUME NEW s, NEW latest \in Nat, ListsOK(s, latest)
    PROVE  LET t == dispatch(s, OwnId(latest + 1))
           IN  /\ ListsOK(t, latest + 1)
               /\ Oldest(t, latest + 1) = Oldest(s, latest)
               /\ t.unconfirmedUndos = s.unconfirmedUndos /\ t.syncing = s.syncing
               /\ t.redoList = s.redoList /\ t.redoEnabled = s.redoEnabled
<1> DEFINE id == OwnId(latest + 1)
           t == dispatch(s, id)
<1>0. /\ s \in SMType /\ s.alive /\ UndoneExact(s) /\ UnconfirmedAreLatest(s, latest)
      /\ ConfirmedAreOlder(s, latest) /\ PendingUndosAreOwn(s, latest) /\ UndoMenuSafe(s)
  BY DEF ListsOK
<1>1. s.unconfirmed \in Seq(Entries) /\ s.confirmed \in Seq(Entries)
      /\ s.unconfirmedUndos \in SUBSET ActionIds
  BY <1>0 DEF SMType
<1>2. id \in ActionIds /\ id.client = HubId /\ Entry(id) \in Entries
      /\ Entry(id).id = id /\ Entry(id).done
  BY OwnIds DEF Entry, Entries
<1>3. id \notin s.unconfirmedUndos
  BY <1>0, OwnIds DEF PendingUndosAreOwn
<1>4. /\ t.unconfirmed = Append(s.unconfirmed, Entry(id)) /\ t.confirmed = s.confirmed
      /\ t.unconfirmedUndos = s.unconfirmedUndos
      /\ t.undoneUnconfirmed = s.undoneUnconfirmed
      /\ t.undoActionId = id /\ t.syncing = s.syncing
      /\ t.redoList = s.redoList /\ t.redoEnabled = s.redoEnabled
  BY <1>0 DEF dispatch, SMType
<1>5. t \in SMType /\ t.alive
  <2>1. Append(s.unconfirmed, Entry(id)) \in Seq(Entries)
    BY <1>1, <1>2, AppendFacts
  <2>2. (IF canUndo(s) THEN s.undoEnabled ELSE TRUE) \in BOOLEAN
    BY <1>0 DEF SMType
  <2> QED BY <1>0, <1>2, <2>1, <2>2 DEF dispatch, SMType
<1> DEFINE list == Append(s.unconfirmed, Entry(id))
           k == Len(s.unconfirmed)
<1>6. /\ Len(list) = k + 1 /\ DOMAIN list = 1 .. k + 1 /\ DOMAIN s.unconfirmed = 1 .. k
      /\ k \in Nat /\ list[k + 1] = Entry(id)
      /\ \A i \in 1 .. k : list[i] = s.unconfirmed[i]
      /\ Ids(list) = Ids(s.unconfirmed) \cup {id}
  BY <1>1, <1>2, AppendFacts, ListFacts
<1> HIDE DEF id, t, list, k
<1>7. UndoneExact(t)
  <2>1. s.unconfirmedUndos \cap Ids(list) = s.unconfirmedUndos \cap Ids(s.unconfirmed)
    BY <1>3, <1>6
  <2>2. \A i \in 1 .. k + 1 : list[i].done <=> list[i].id \notin s.unconfirmedUndos
    BY <1>0, <1>2, <1>3, <1>6 DEF UndoneExact
  <2> QED BY <1>0, <1>4, <1>6, <2>1, <2>2 DEF UndoneExact, list
<1>8. Oldest(t, latest + 1) = Oldest(s, latest)
  BY <1>4, <1>6 DEF Oldest, list, k
<1>9. UnconfirmedAreLatest(t, latest + 1)
  <2>1. \A i \in 1 .. k : list[i].id = OwnId(Oldest(s, latest) + i)
    BY <1>0, <1>6 DEF UnconfirmedAreLatest
  <2>2. Oldest(s, latest) + (k + 1) = latest + 1
    <3>1. latest \in Int /\ k \in Int /\ Oldest(s, latest) = latest - k
      BY <1>6 DEF Oldest, k
    <3> QED BY <3>1
  <2>3. list[k + 1].id = OwnId(Oldest(s, latest) + (k + 1))
    BY <1>2, <1>6, <2>2 DEF id
  <2> QED BY <1>0, <1>4, <1>6, <1>8, <2>1, <2>3 DEF UnconfirmedAreLatest, list
<1>10. ConfirmedAreOlder(t, latest + 1)
  BY <1>0, <1>4, <1>8 DEF ConfirmedAreOlder
<1>11. PendingUndosAreOwn(t, latest + 1)
  <2>1. \A i \in s.unconfirmedUndos : IsOwn(i, latest + 1)
    BY <1>0 DEF PendingUndosAreOwn, IsOwn
  <2> QED BY <1>0, <1>4, <2>1 DEF PendingUndosAreOwn
<1>12. UndoMenuSafe(t)
  BY <1>2, <1>3, <1>4, <1>6 DEF UndoMenuSafe, Known, list
<1> QED BY <1>4, <1>5, <1>7, <1>8, <1>9, <1>10, <1>11, <1>12 DEF ListsOK, t, id

\* ListsOK does not depend on the redo list and the Redo menu item.
LEMMA SameLists ==
    ASSUME NEW s, NEW t \in SMType, NEW latest, ListsOK(s, latest),
           t.confirmed = s.confirmed, t.unconfirmed = s.unconfirmed, t.alive = s.alive,
           t.unconfirmedUndos = s.unconfirmedUndos, t.undoActionId = s.undoActionId,
           t.undoneUnconfirmed = s.undoneUnconfirmed, t.undoEnabled = s.undoEnabled
    PROVE  ListsOK(t, latest) /\ Oldest(t, latest) = Oldest(s, latest)
<1>0. /\ s.alive /\ UndoneExact(s) /\ UnconfirmedAreLatest(s, latest)
      /\ ConfirmedAreOlder(s, latest) /\ PendingUndosAreOwn(s, latest) /\ UndoMenuSafe(s)
  BY DEF ListsOK
<1>1. Oldest(t, latest) = Oldest(s, latest)
  BY DEF Oldest
<1>2. UndoneExact(t)
  BY <1>0 DEF UndoneExact
<1>3. UnconfirmedAreLatest(t, latest)
  BY <1>0, <1>1 DEF UnconfirmedAreLatest
<1>4. ConfirmedAreOlder(t, latest)
  BY <1>0, <1>1 DEF ConfirmedAreOlder
<1>5. PendingUndosAreOwn(t, latest) /\ UndoMenuSafe(t)
  BY <1>0 DEF PendingUndosAreOwn, UndoMenuSafe, Known
<1> QED BY <1>0, <1>1, <1>2, <1>3, <1>4, <1>5 DEF ListsOK

\* Redo dispatches the last undone action again.
LEMMA RedoLists ==
    ASSUME NEW s, NEW latest \in Nat, ListsOK(s, latest), canRedo(s), s.redoEnabled
    PROVE  LET t == redo(s, OwnId(latest + 1))
           IN  /\ ListsOK(t, latest + 1)
               /\ Oldest(t, latest + 1) = Oldest(s, latest)
               /\ t.unconfirmedUndos = s.unconfirmedUndos /\ t.syncing = s.syncing
               /\ t.redoEnabled <=> canRedo(t)
<1> DEFINE p == [s EXCEPT !.redoList = @ - 1]
           d == dispatch(p, OwnId(latest + 1))
           t == [d EXCEPT !.redoEnabled = IF d.redoList = 0 THEN FALSE ELSE @]
<1>0. s \in SMType /\ s.redoList \in Nat /\ s.redoList > 0
  BY DEF ListsOK, SMType, canRedo
<1>1. p \in SMType
  BY <1>0 DEF SMType
<1>2. /\ p.confirmed = s.confirmed /\ p.unconfirmed = s.unconfirmed /\ p.alive = s.alive
      /\ p.unconfirmedUndos = s.unconfirmedUndos /\ p.undoActionId = s.undoActionId
      /\ p.undoneUnconfirmed = s.undoneUnconfirmed /\ p.undoEnabled = s.undoEnabled
      /\ p.syncing = s.syncing /\ p.redoEnabled = s.redoEnabled
      /\ p.redoList = s.redoList - 1
  BY <1>0 DEF SMType
<1> HIDE DEF p
<1>3. ListsOK(p, latest) /\ Oldest(p, latest) = Oldest(s, latest)
  BY <1>1, <1>2, SameLists
<1>4. /\ ListsOK(d, latest + 1)
      /\ Oldest(d, latest + 1) = Oldest(s, latest)
      /\ d.unconfirmedUndos = s.unconfirmedUndos /\ d.syncing = s.syncing
      /\ d.redoList = s.redoList - 1 /\ d.redoEnabled
  BY <1>2, <1>3, DispatchLists
<1> HIDE DEF d
<1>5. d \in SMType
  BY <1>4 DEF ListsOK
<1>6. t \in SMType
  <2>1. (IF d.redoList = 0 THEN FALSE ELSE d.redoEnabled) \in BOOLEAN
    BY <1>5 DEF SMType
  <2> QED BY <1>5, <2>1 DEF SMType
<1>7. /\ t.confirmed = d.confirmed /\ t.unconfirmed = d.unconfirmed /\ t.alive = d.alive
      /\ t.unconfirmedUndos = d.unconfirmedUndos /\ t.undoActionId = d.undoActionId
      /\ t.undoneUnconfirmed = d.undoneUnconfirmed /\ t.undoEnabled = d.undoEnabled
      /\ t.syncing = d.syncing /\ t.redoList = d.redoList
      /\ t.redoEnabled = IF d.redoList = 0 THEN FALSE ELSE d.redoEnabled
  BY <1>5 DEF SMType
<1> HIDE DEF t
<1>8. ListsOK(t, latest + 1) /\ Oldest(t, latest + 1) = Oldest(d, latest + 1)
  BY <1>4, <1>6, <1>7, SameLists
<1>9. t.redoEnabled <=> canRedo(t)
  BY <1>0, <1>4, <1>7 DEF canRedo
<1>10. t = redo(s, OwnId(latest + 1))
  BY DEF redo, t, d, p
<1> QED BY <1>4, <1>7, <1>8, <1>9, <1>10

\* One sync fewer is on its way.
LEMMA ConfirmSyncLists ==
    ASSUME NEW s, NEW latest, ListsOK(s, latest), s.syncing > 0
    PROVE  LET t == confirmSync(s)
           IN  /\ ListsOK(t, latest) /\ Oldest(t, latest) = Oldest(s, latest)
               /\ t.unconfirmedUndos = s.unconfirmedUndos /\ t.syncing = s.syncing - 1
               /\ t.redoList = s.redoList /\ t.redoEnabled = s.redoEnabled
<1> DEFINE t == confirmSync(s)
<1>0. s \in SMType /\ s.syncing \in Nat
  BY DEF ListsOK, SMType
<1>1. t \in SMType
  <2>1. s.syncing - 1 \in Nat
    BY <1>0
  <2> QED BY <1>0, <2>1 DEF confirmSync, SMType
<1>2. /\ t.confirmed = s.confirmed /\ t.unconfirmed = s.unconfirmed /\ t.alive = s.alive
      /\ t.unconfirmedUndos = s.unconfirmedUndos /\ t.undoActionId = s.undoActionId
      /\ t.undoneUnconfirmed = s.undoneUnconfirmed /\ t.undoEnabled = s.undoEnabled
      /\ t.syncing = s.syncing - 1 /\ t.redoList = s.redoList
      /\ t.redoEnabled = s.redoEnabled
  BY <1>0 DEF confirmSync, SMType
<1> HIDE DEF t
<1>3. ListsOK(t, latest) /\ Oldest(t, latest) = Oldest(s, latest)
  BY <1>1, <1>2, SameLists
<1> QED BY <1>2, <1>3 DEF t

-----------------------------------------------------------------------------
\* What leaves the confirmed list is done, so no undo of it is pending.
LEMMA PopLists ==
    ASSUME NEW s, NEW latest, ListsOK(s, latest), s.confirmed # <<>>
    PROVE  LET t == popActionListFront(s)
           IN  /\ ListsOK(t, latest) /\ Oldest(t, latest) = Oldest(s, latest)
               /\ t.unconfirmedUndos = s.unconfirmedUndos /\ t.syncing = s.syncing
               /\ t.redoList = s.redoList /\ t.redoEnabled = s.redoEnabled
<1> DEFINE t == popActionListFront(s)
           front == Head(s.confirmed)
           rest == Tail(s.confirmed)
<1>0. /\ s \in SMType /\ s.alive /\ UndoneExact(s) /\ UnconfirmedAreLatest(s, latest)
      /\ ConfirmedAreOlder(s, latest) /\ PendingUndosAreOwn(s, latest) /\ UndoMenuSafe(s)
  BY DEF ListsOK
<1>1. CASE ~front.done
  BY <1>1 DEF popActionListFront
<1>2. CASE front.done
  <2>1. t = [s EXCEPT !.confirmed = rest,
                      !.undoActionId = IF s.undoActionId = front.id THEN NoAction ELSE @,
                      !.undoEnabled = IF s.undoActionId = front.id THEN FALSE ELSE @]
    BY <1>2 DEF popActionListFront
  <2>2. s.confirmed \in Seq(Entries)
    BY <1>0 DEF SMType
  <2> DEFINE k == Len(s.confirmed)
  <2>3. /\ rest \in Seq(Entries) /\ DOMAIN rest = 1 .. k - 1 /\ DOMAIN s.confirmed = 1 .. k
        /\ k \in Nat /\ k > 0 /\ front = s.confirmed[1]
        /\ \A i \in 1 .. k - 1 : rest[i] = s.confirmed[i + 1]
        /\ Ids(s.confirmed) = Ids(rest) \cup {front.id}
    BY <2>2, TailFacts, ListFacts
  <2>4. t \in SMType
    <3>1. /\ (IF s.undoActionId = front.id THEN NoAction ELSE s.undoActionId)
                \in ActionIds \cup {NoAction}
          /\ (IF s.undoActionId = front.id THEN FALSE ELSE s.undoEnabled) \in BOOLEAN
      BY <1>0 DEF SMType
    <3> QED BY <1>0, <2>1, <2>3, <3>1 DEF SMType
  <2>5. /\ t.confirmed = rest /\ t.unconfirmed = s.unconfirmed /\ t.alive = s.alive
        /\ t.unconfirmedUndos = s.unconfirmedUndos
        /\ t.undoneUnconfirmed = s.undoneUnconfirmed
        /\ t.undoEnabled => s.undoEnabled /\ t.undoActionId = s.undoActionId
                            /\ s.undoActionId # front.id
        /\ t.syncing = s.syncing /\ t.redoList = s.redoList
        /\ t.redoEnabled = s.redoEnabled
    BY <1>0, <2>1 DEF SMType
  <2> HIDE DEF t, front, rest, k
  <2>6. front.id \notin s.unconfirmedUndos
    BY <1>0, <1>2, <2>3 DEF UndoneExact
  <2>7. UndoneExact(t)
    <3>1. ASSUME NEW i \in 1 .. k - 1
          PROVE  rest[i].done <=> rest[i].id \notin s.unconfirmedUndos
      <4>1. i + 1 \in DOMAIN s.confirmed /\ rest[i] = s.confirmed[i + 1]
        BY <2>3
      <4> QED BY <1>0, <4>1 DEF UndoneExact
    <3>2. s.unconfirmedUndos \subseteq Ids(rest) \cup Ids(s.unconfirmed)
      BY <1>0, <2>3, <2>6 DEF UndoneExact
    <3> QED BY <1>0, <2>3, <2>5, <3>1, <3>2 DEF UndoneExact
  <2>8. Oldest(t, latest) = Oldest(s, latest)
    BY <2>5 DEF Oldest
  <2>9. UnconfirmedAreLatest(t, latest)
    BY <1>0, <2>5, <2>8 DEF UnconfirmedAreLatest
  <2>10. ConfirmedAreOlder(t, latest)
    <3>1. \A i \in 1 .. k - 1 : i + 1 \in 1 .. k
      BY <2>3
    <3>2. \A i \in 1 .. k - 1 :
             rest[i].id.client = HubId => IsOwn(rest[i].id, Oldest(s, latest))
      BY <1>0, <2>3, <3>1 DEF ConfirmedAreOlder
    <3>3. ASSUME NEW i \in 1 .. k - 1, NEW j \in 1 .. k - 1,
                 rest[i].id.client = HubId, rest[i].id = rest[j].id
          PROVE  i = j
      <4>1. /\ i + 1 \in DOMAIN s.confirmed /\ rest[i] = s.confirmed[i + 1]
            /\ j + 1 \in DOMAIN s.confirmed /\ rest[j] = s.confirmed[j + 1]
        BY <2>3
      <4>2. i + 1 = j + 1
        BY <1>0, <3>3, <4>1 DEF ConfirmedAreOlder
      <4> QED BY <4>2
    <3> QED BY <2>3, <2>5, <2>8, <3>2, <3>3 DEF ConfirmedAreOlder
  <2>11. PendingUndosAreOwn(t, latest)
    BY <1>0, <2>5 DEF PendingUndosAreOwn
  <2>12. UndoMenuSafe(t)
    BY <1>0, <2>3, <2>5 DEF UndoMenuSafe, Known
  <2> QED BY <1>0, <2>4, <2>5, <2>7, <2>8, <2>9, <2>10, <2>11, <2>12 DEF ListsOK, t
<1> QED BY <1>1, <1>2

=============================================================================
