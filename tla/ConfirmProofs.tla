--------------------------- MODULE ConfirmProofs ---------------------------
(***************************************************************************)
(* What the server's signals do to the lists of the hub's StoreManager:    *)
(* an action received, an action confirmed, an undo confirmed.             *)
(***************************************************************************)
EXTENDS ListProofs

\* Pushing onto the confirmed list, with the trim that follows.
LEMMA ConfirmLists ==
    ASSUME NEW s \in SMType, NEW e \in Entries, NEW latest,
           ListsOK([s EXCEPT !.confirmed = Append(@, e)], latest)
    PROVE  LET t == confirm(s, e)
           IN  /\ ListsOK(t, latest) /\ Oldest(t, latest) = Oldest(s, latest)
               /\ t.unconfirmedUndos = s.unconfirmedUndos /\ t.syncing = s.syncing
               /\ t.redoList = s.redoList /\ t.redoEnabled = s.redoEnabled
<1> DEFINE p == [s EXCEPT !.confirmed = Append(@, e)]
<1>1. s.confirmed \in Seq(Entries)
  BY DEF SMType
<1>2. /\ p.confirmed = Append(s.confirmed, e) /\ p.unconfirmed = s.unconfirmed
      /\ p.unconfirmedUndos = s.unconfirmedUndos /\ p.syncing = s.syncing
      /\ p.redoList = s.redoList /\ p.redoEnabled = s.redoEnabled
  BY DEF SMType
<1>3. p.confirmed # <<>>
  BY <1>1, <1>2, AppendFacts, ListFacts, EmptyListFacts
<1> HIDE DEF p
<1>4. Oldest(p, latest) = Oldest(s, latest)
  BY <1>2 DEF Oldest
<1>5. confirm(s, e) = IF Len(p.confirmed) > MAX_ACTION_STACK_SIZE
                      THEN popActionListFront(p) ELSE p
  BY DEF confirm, p
<1>6. ListsOK(p, latest)
  BY DEF p
<1>7. CASE Len(p.confirmed) > MAX_ACTION_STACK_SIZE
  <2>1. confirm(s, e) = popActionListFront(p)
    BY <1>5, <1>7
  <2> QED BY <1>2, <1>3, <1>4, <1>6, <2>1, PopLists
<1>8. CASE ~(Len(p.confirmed) > MAX_ACTION_STACK_SIZE)
  <2>1. confirm(s, e) = p
    BY <1>5, <1>8
  <2> QED BY <1>2, <1>4, <1>6, <2>1
<1> QED BY <1>7, <1>8

\* The push leaves the unconfirmed list alone.
LEMMA ConfirmKeepsUnconfirmed ==
    ASSUME NEW s \in SMType, NEW e, NEW undos,
           Redone(UndoneFrom(s.unconfirmed, 1), undos) = s.unconfirmed
    PROVE  LET r == [s EXCEPT !.unconfirmed = UndoneFrom(@, 1)]
           IN  [confirm(r, e) EXCEPT !.unconfirmed = Redone(@, undos)] = confirm(s, e)
<1> DEFINE r == [s EXCEPT !.unconfirmed = UndoneFrom(@, 1)]
           list == Append(s.confirmed, e)
           front == Head(list)
           R(unconfirmed, confirmed, nextUndo, undoEnabled) ==
              [confirmed |-> confirmed, unconfirmed |-> unconfirmed, redoList |-> s.redoList,
               unconfirmedUndos |-> s.unconfirmedUndos,
               undoneUnconfirmed |-> s.undoneUnconfirmed, undoActionId |-> nextUndo,
               syncing |-> s.syncing, undoEnabled |-> undoEnabled,
               redoEnabled |-> s.redoEnabled, alive |-> s.alive]
<1>1. s = R(s.unconfirmed, s.confirmed, s.undoActionId, s.undoEnabled)
  BY DEF SMType
<1> DEFINE U == UndoneFrom(s.unconfirmed, 1)
           v == IF s.undoActionId = front.id THEN NoAction ELSE s.undoActionId
           w == IF s.undoActionId = front.id THEN FALSE ELSE s.undoEnabled
           tail == Tail(list)
           P(u) == R(u, list, s.undoActionId, s.undoEnabled)
           T(u) == R(u, tail, v, w)
           trims == Len(list) > MAX_ACTION_STACK_SIZE /\ front.done
<1>2. r = R(U, s.confirmed, s.undoActionId, s.undoEnabled)
  BY <1>1
<1>3. ASSUME NEW u
      PROVE  confirm(R(u, s.confirmed, s.undoActionId, s.undoEnabled), e)
                = IF trims THEN T(u) ELSE P(u)
  <2> DEFINE q == R(u, s.confirmed, s.undoActionId, s.undoEnabled)
  <2>1. [q EXCEPT !.confirmed = Append(@, e)] = P(u)
    <3>1. Append(q.confirmed, e) = list
      OBVIOUS
    <3> HIDE DEF list
    <3>2. [q EXCEPT !.confirmed = list] = P(u)
      OBVIOUS
    <3> HIDE DEF q, P
    <3> QED BY <3>1, <3>2
  <2>2. confirm(q, e) = IF Len(list) > MAX_ACTION_STACK_SIZE
                        THEN popActionListFront(P(u)) ELSE P(u)
    BY <2>1 DEF confirm
  <2>3. CASE ~front.done
    <3>1. popActionListFront(P(u)) = P(u)
      BY <2>3 DEF popActionListFront
    <3> QED BY <2>2, <2>3, <3>1
  <2>4. CASE front.done
    <3>1. popActionListFront(P(u)) = [P(u) EXCEPT !.confirmed = tail,
                                                  !.undoActionId = v, !.undoEnabled = w]
      BY <2>4 DEF popActionListFront
    <3> HIDE DEF v, w, list, front, tail
    <3>2. popActionListFront(P(u)) = T(u)
      BY <3>1
    <3> QED BY <2>2, <2>4, <3>2
  <2> QED BY <2>3, <2>4
<1>4. /\ confirm(r, e) = IF trims THEN T(U) ELSE P(U)
      /\ confirm(s, e) = IF trims THEN T(s.unconfirmed) ELSE P(s.unconfirmed)
  BY <1>1, <1>2, <1>3
<1>5. Redone(U, undos) = s.unconfirmed
  OBVIOUS
<1> HIDE DEF v, w, list, front, trims, U, tail
<1>6. /\ P(U).unconfirmed = U /\ [P(U) EXCEPT !.unconfirmed = s.unconfirmed] = P(s.unconfirmed)
      /\ T(U).unconfirmed = U /\ [T(U) EXCEPT !.unconfirmed = s.unconfirmed] = T(s.unconfirmed)
  OBVIOUS
<1> QED
  <2> HIDE DEF P, T, r
  <2>1. [confirm(r, e) EXCEPT !.unconfirmed = Redone(@, undos)] = confirm(s, e)
    <3>1. CASE trims
      BY <1>4, <1>5, <1>6, <3>1
    <3>2. CASE ~trims
      BY <1>4, <1>5, <1>6, <3>2
    <3> QED BY <3>1, <3>2
  <2> QED BY <2>1 DEF r

-----------------------------------------------------------------------------
\* Undoing the unconfirmed actions and redoing those whose undo is not pending
\* gives back the list.
LEMMA RolledBackAndForth ==
    ASSUME NEW list \in Seq(Entries), NEW undos,
           \A i \in DOMAIN list : list[i].done <=> list[i].id \notin undos
    PROVE  Redone(UndoneFrom(list, 1), undos) = list
<1> DEFINE u == UndoneFrom(list, 1)
<1>1. DOMAIN list = 1 .. Len(list) /\ Len(list) \in Nat
      /\ \A i \in DOMAIN list : list[i] \in Entries
  BY ListFacts
<1>2. DOMAIN u = DOMAIN list
      /\ \A i \in DOMAIN list : u[i] = [list[i] EXCEPT !.done = FALSE]
  BY <1>1 DEF UndoneFrom
<1> HIDE DEF u
<1>3. ASSUME NEW i \in DOMAIN list
      PROVE  (IF u[i].id \in undos THEN u[i] ELSE [u[i] EXCEPT !.done = TRUE]) = list[i]
  <2>1. list[i] \in [id : ActionIds, done : BOOLEAN]
    BY <1>1 DEF Entries
  <2>2. u[i].id = list[i].id
    BY <1>2, <2>1
  <2>3. CASE list[i].id \in undos
    <3>1. list[i].done = FALSE
      BY <2>1, <2>3
    <3>2. [list[i] EXCEPT !.done = FALSE] = list[i]
      BY <2>1, <3>1
    <3> QED BY <1>2, <2>2, <2>3, <3>2
  <2>4. CASE list[i].id \notin undos
    <3>1. list[i].done = TRUE
      BY <2>1, <2>4
    <3> QED BY <1>2, <2>1, <2>2, <2>4, <3>1
  <2> QED BY <2>3, <2>4
<1>4. Redone(u, undos) = [i \in DOMAIN list |-> list[i]]
  BY <1>2, <1>3 DEF Redone
<1>5. list = [i \in DOMAIN list |-> list[i]]
  BY <1>1
<1> QED BY <1>4, <1>5 DEF u

\* A received action is one of another application.
LEMMA ReceiveActionLists ==
    ASSUME NEW s, NEW latest \in Nat, ListsOK(s, latest),
           NEW id \in ActionIds, id.client # HubId
    PROVE  LET t == receiveAction(s, id)
           IN  /\ ListsOK(t, latest) /\ Oldest(t, latest) = Oldest(s, latest)
               /\ t.unconfirmedUndos = s.unconfirmedUndos /\ t.syncing = s.syncing
               /\ t.redoList = s.redoList /\ t.redoEnabled = s.redoEnabled
<1>0. /\ s \in SMType /\ s.alive /\ UndoneExact(s) /\ UnconfirmedAreLatest(s, latest)
      /\ ConfirmedAreOlder(s, latest) /\ PendingUndosAreOwn(s, latest) /\ UndoMenuSafe(s)
  BY DEF ListsOK
<1>1. s.unconfirmed \in Seq(Entries) /\ s.confirmed \in Seq(Entries)
  BY <1>0 DEF SMType
<1>2. CASE s.syncing > 0
  BY <1>2 DEF receiveAction
<1>3. CASE ~(s.syncing > 0)
  <2> DEFINE e == Entry(id)
             p == [s EXCEPT !.confirmed = Append(@, e)]
             r == [s EXCEPT !.unconfirmed = UndoneFrom(@, 1)]
             c == confirm(r, e)
  <2>1. e \in Entries /\ e.id = id /\ e.done
    BY DEF Entry, Entries
  <2>2. id \notin s.unconfirmedUndos
    BY <1>0, OwnIds DEF PendingUndosAreOwn
  <2> DEFINE list == Append(s.confirmed, e)
             k == Len(s.confirmed)
  <2>3. /\ list \in Seq(Entries) /\ DOMAIN list = 1 .. k + 1 /\ DOMAIN s.confirmed = 1 .. k
        /\ k \in Nat /\ list[k + 1] = e /\ \A i \in 1 .. k : list[i] = s.confirmed[i]
        /\ Ids(list) = Ids(s.confirmed) \cup {id}
    BY <1>1, <2>1, AppendFacts, ListFacts
  <2>4. /\ p \in SMType /\ p.confirmed = list /\ p.unconfirmed = s.unconfirmed
        /\ p.alive /\ p.unconfirmedUndos = s.unconfirmedUndos
        /\ p.undoneUnconfirmed = s.undoneUnconfirmed
        /\ p.undoEnabled = s.undoEnabled /\ p.undoActionId = s.undoActionId
    BY <1>0, <2>3 DEF SMType
  <2> HIDE DEF p, list, k, e
  <2>5. ListsOK(p, latest)
    <3>1. UndoneExact(p)
      <4>1. \A i \in 1 .. k + 1 : list[i].done <=> list[i].id \notin s.unconfirmedUndos
        BY <1>0, <2>1, <2>2, <2>3 DEF UndoneExact
      <4> QED BY <1>0, <2>3, <2>4, <4>1 DEF UndoneExact
    <3>2. Oldest(p, latest) = Oldest(s, latest)
      BY <2>4 DEF Oldest
    <3>3. UnconfirmedAreLatest(p, latest)
      BY <1>0, <2>4, <3>2 DEF UnconfirmedAreLatest
    <3>4. ConfirmedAreOlder(p, latest)
      <4>1. \A i \in 1 .. k + 1 : list[i].id.client = HubId => i \in 1 .. k
        BY <2>1, <2>3
      <4>2. \A i \in 1 .. k + 1 :
               list[i].id.client = HubId => IsOwn(list[i].id, Oldest(s, latest))
        BY <1>0, <2>3, <4>1 DEF ConfirmedAreOlder
      <4>3. \A i, j \in 1 .. k + 1 :
               list[i].id.client = HubId /\ list[i].id = list[j].id => i = j
        BY <1>0, <2>3, <4>1 DEF ConfirmedAreOlder
      <4> QED BY <2>3, <2>4, <3>2, <4>2, <4>3 DEF ConfirmedAreOlder
    <3>5. PendingUndosAreOwn(p, latest)
      BY <1>0, <2>4 DEF PendingUndosAreOwn
    <3>6. UndoMenuSafe(p)
      BY <1>0, <2>3, <2>4 DEF UndoMenuSafe, Known
    <3> QED BY <2>4, <3>1, <3>3, <3>4, <3>5, <3>6 DEF ListsOK
  <2>6. receiveAction(s, id) = confirm(s, e)
    <3>1. receiveAction(s, id) = [c EXCEPT !.unconfirmed = Redone(@, s.unconfirmedUndos)]
      BY <1>3 DEF receiveAction, e
    <3>2. Redone(UndoneFrom(s.unconfirmed, 1), s.unconfirmedUndos) = s.unconfirmed
      BY <1>0, <1>1, RolledBackAndForth DEF UndoneExact
    <3>3. [c EXCEPT !.unconfirmed = Redone(@, s.unconfirmedUndos)] = confirm(s, e)
      BY <1>0, <3>2, ConfirmKeepsUnconfirmed
    <3> QED BY <3>1, <3>3
  <2> QED BY <1>0, <2>1, <2>5, <2>6, ConfirmLists DEF p
<1> QED BY <1>2, <1>3

-----------------------------------------------------------------------------
\* The oldest unconfirmed action leaves the unconfirmed list; the count of the
\* undone ones stays exact.
LEMMA FrontLeaves ==
    ASSUME NEW s, NEW latest \in Nat, ListsOK(s, latest), s.unconfirmed # <<>>
    PROVE  LET front == Head(s.unconfirmed)
               ids == Ids(Tail(s.unconfirmed))
           IN  /\ front.id = OwnId(Oldest(s, latest) + 1)
               /\ front.id \notin ids
               /\ front.done <=> front.id \notin s.unconfirmedUndos
               /\ front.done => Cardinality(s.unconfirmedUndos \cap ids) = s.undoneUnconfirmed
               /\ ~front.done => /\ s.undoneUnconfirmed > 0
                                 /\ Cardinality(s.unconfirmedUndos \cap ids)
                                       = s.undoneUnconfirmed - 1
<1> DEFINE list == s.unconfirmed
           front == Head(list)
           ids == Ids(Tail(list))
           undos == s.unconfirmedUndos
           o == Oldest(s, latest)
<1>0. /\ s \in SMType /\ UndoneExact(s) /\ UnconfirmedAreLatest(s, latest)
      /\ PendingUndosAreOwn(s, latest)
  BY DEF ListsOK
<1>1. list \in Seq(Entries) /\ s.undoneUnconfirmed \in Nat
  BY <1>0 DEF SMType
<1>2. /\ Len(list) \in Nat /\ Len(list) > 0 /\ front = list[1]
      /\ DOMAIN list = 1 .. Len(list) /\ DOMAIN Tail(list) = 1 .. Len(list) - 1
      /\ \A i \in 1 .. Len(list) - 1 : Tail(list)[i] = list[i + 1]
      /\ Ids(list) = ids \cup {front.id}
  BY <1>1, TailFacts, ListFacts
<1>3. o \in Nat /\ \A i \in 1 .. Len(list) : list[i].id = OwnId(o + i)
  BY <1>0, <1>2 DEF UnconfirmedAreLatest
<1>4. front.id = OwnId(o + 1)
  BY <1>2, <1>3
<1>5. front.id \notin ids
  <2>1. SUFFICES ASSUME NEW i \in 1 .. Len(list) - 1, Tail(list)[i].id = front.id
                 PROVE  FALSE
    BY <1>2 DEF Ids
  <2>2. OwnId(o + (i + 1)) = OwnId(o + 1)
    BY <1>2, <1>3, <1>4, <2>1
  <2>3. o + (i + 1) = o + 1
    BY <1>3, <2>2 DEF OwnId
  <2> QED BY <1>3, <2>3
<1>6. front.done <=> front.id \notin undos
  BY <1>0, <1>2 DEF UndoneExact
<1>7. /\ IsFiniteSet(undos \cap Ids(list))
      /\ s.undoneUnconfirmed = Cardinality(undos \cap Ids(list))
  BY <1>0, FS_Subset DEF UndoneExact, PendingUndosAreOwn
<1>8. CASE front.done
  <2>1. undos \cap ids = undos \cap Ids(list)
    BY <1>2, <1>6, <1>8
  <2> QED BY <1>4, <1>5, <1>6, <1>7, <1>8, <2>1
<1>9. CASE ~front.done
  <2> DEFINE X == undos \cap Ids(list)
             x == front.id
  <2>1. x \in X /\ undos \cap ids = X \ {x}
    BY <1>2, <1>5, <1>6, <1>9
  <2> HIDE DEF X, x
  <2>2. IsFiniteSet(X) /\ Cardinality(X) = s.undoneUnconfirmed
    BY <1>7 DEF X
  <2>3. Cardinality(X \ {x}) = Cardinality(X) - 1
    BY <2>1, <2>2, FS_RemoveElement
  <2>4. Cardinality(X \ {x}) \in Nat
    BY <2>2, FS_RemoveElement, FS_CardinalityType
  <2>5. s.undoneUnconfirmed > 0
    BY <1>1, <2>2, <2>3, <2>4
  <2> QED BY <1>4, <1>5, <1>6, <1>9, <2>1, <2>2, <2>3, <2>5
<1> QED BY <1>8, <1>9

\* A confirmation is for the oldest unconfirmed action and moves it.
LEMMA ReceiveActionConfirmLists ==
    ASSUME NEW s, NEW latest \in Nat, ListsOK(s, latest), ~(s.syncing > 0),
           Oldest(s, latest) < latest
    PROVE  LET t == receiveActionConfirm(s, OwnId(Oldest(s, latest) + 1))
           IN  /\ ListsOK(t, latest) /\ Oldest(t, latest) = Oldest(s, latest) + 1
               /\ t.unconfirmedUndos = s.unconfirmedUndos /\ t.syncing = s.syncing
               /\ t.redoList = s.redoList /\ t.redoEnabled = s.redoEnabled
<1> DEFINE o == Oldest(s, latest)
           front == Head(s.unconfirmed)
           rest == Tail(s.unconfirmed)
           n == IF front.done THEN s.undoneUnconfirmed ELSE s.undoneUnconfirmed - 1
           q == [s EXCEPT !.unconfirmed = rest, !.undoneUnconfirmed = n]
           p == [q EXCEPT !.confirmed = Append(@, front)]
           list == Append(s.confirmed, front)
           k == Len(s.confirmed)
<1>0. /\ s \in SMType /\ s.alive /\ UndoneExact(s) /\ UnconfirmedAreLatest(s, latest)
      /\ ConfirmedAreOlder(s, latest) /\ PendingUndosAreOwn(s, latest) /\ UndoMenuSafe(s)
  BY DEF ListsOK
<1>1. s.unconfirmed \in Seq(Entries) /\ s.confirmed \in Seq(Entries)
      /\ s.undoneUnconfirmed \in Nat
  BY <1>0 DEF SMType
<1>2. s.unconfirmed # <<>>
  BY EmptyListFacts DEF Oldest
<1>3. /\ front.id = OwnId(o + 1) /\ front.id \notin Ids(rest)
      /\ front.done <=> front.id \notin s.unconfirmedUndos
      /\ ~front.done => s.undoneUnconfirmed > 0
      /\ Cardinality(s.unconfirmedUndos \cap Ids(rest)) = n
  BY <1>2, FrontLeaves
<1>4. /\ rest \in Seq(Entries) /\ front \in Entries /\ front = s.unconfirmed[1]
      /\ Len(rest) = Len(s.unconfirmed) - 1 /\ Len(s.unconfirmed) \in Nat
      /\ Len(s.unconfirmed) > 0
      /\ DOMAIN rest = 1 .. Len(s.unconfirmed) - 1
      /\ DOMAIN s.unconfirmed = 1 .. Len(s.unconfirmed)
      /\ \A i \in 1 .. Len(s.unconfirmed) - 1 : rest[i] = s.unconfirmed[i + 1]
      /\ Ids(s.unconfirmed) = Ids(rest) \cup {front.id}
  BY <1>1, <1>2, TailFacts, ListFacts
<1>5. /\ list \in Seq(Entries) /\ DOMAIN list = 1 .. k + 1 /\ DOMAIN s.confirmed = 1 .. k
      /\ k \in Nat /\ list[k + 1] = front /\ \A i \in 1 .. k : list[i] = s.confirmed[i]
      /\ Ids(list) = Ids(s.confirmed) \cup {front.id}
  BY <1>1, <1>4, AppendFacts, ListFacts
<1>6. n \in Nat
  BY <1>1, <1>3
<1>7. receiveActionConfirm(s, OwnId(o + 1)) = confirm(q, front)
  BY <1>2, <1>3 DEF receiveActionConfirm
<1> HIDE DEF n, front, rest, list, k, o
<1>8. /\ q \in SMType /\ q.unconfirmedUndos = s.unconfirmedUndos /\ q.syncing = s.syncing
      /\ q.redoList = s.redoList /\ q.redoEnabled = s.redoEnabled
      /\ q.unconfirmed = rest /\ q.confirmed = s.confirmed /\ q.alive = s.alive
      /\ q.undoneUnconfirmed = n
      /\ q.undoEnabled = s.undoEnabled /\ q.undoActionId = s.undoActionId
  BY <1>0, <1>4, <1>6 DEF SMType
<1> HIDE DEF q
<1>9. /\ p \in SMType /\ p.confirmed = list /\ p.unconfirmed = rest /\ p.alive
      /\ p.unconfirmedUndos = s.unconfirmedUndos /\ p.undoneUnconfirmed = n
      /\ p.undoEnabled = s.undoEnabled /\ p.undoActionId = s.undoActionId
  <2>1. Append(q.confirmed, front) = list
    BY <1>8 DEF list
  <2>2. p = [q EXCEPT !.confirmed = list]
    BY <2>1
  <2> HIDE DEF p
  <2> QED BY <1>0, <1>5, <1>8, <2>2 DEF SMType
<1> HIDE DEF p
<1>10. Oldest(p, latest) = o + 1 /\ Oldest(q, latest) = o + 1 /\ o \in Nat
  <2>1. o = latest - Len(s.unconfirmed) /\ o \in Nat
    BY <1>0 DEF o, Oldest, UnconfirmedAreLatest
  <2>2. Oldest(p, latest) = latest - Len(rest) /\ Oldest(q, latest) = latest - Len(rest)
    BY <1>8, <1>9 DEF Oldest
  <2> QED BY <1>4, <2>1, <2>2
<1>11. ListsOK(p, latest)
  <2>1. UndoneExact(p)
    <3>1. \A i \in 1 .. k + 1 : list[i].done <=> list[i].id \notin s.unconfirmedUndos
      BY <1>0, <1>3, <1>5 DEF UndoneExact
    <3>2. ASSUME NEW i \in DOMAIN rest
          PROVE  rest[i].done <=> rest[i].id \notin s.unconfirmedUndos
      <4>1. i + 1 \in DOMAIN s.unconfirmed /\ rest[i] = s.unconfirmed[i + 1]
        BY <1>4
      <4> QED BY <1>0, <4>1 DEF UndoneExact
    <3>3. s.unconfirmedUndos \subseteq Ids(list) \cup Ids(rest)
      BY <1>0, <1>4, <1>5 DEF UndoneExact
    <3> QED BY <1>3, <1>5, <1>9, <3>1, <3>2, <3>3 DEF UndoneExact
  <2>2. UnconfirmedAreLatest(p, latest)
    <3>1. ASSUME NEW i \in DOMAIN rest
          PROVE  rest[i].id = OwnId(o + 1 + i)
      <4>1. i + 1 \in DOMAIN s.unconfirmed /\ rest[i] = s.unconfirmed[i + 1]
        BY <1>4
      <4>2. rest[i].id = OwnId(o + (i + 1))
        BY <1>0, <4>1 DEF UnconfirmedAreLatest, o
      <4>3. o + (i + 1) = o + 1 + i
        BY <1>4, <1>10
      <4> QED BY <4>2, <4>3
    <3> QED BY <1>9, <1>10, <3>1 DEF UnconfirmedAreLatest
  <2>3. ConfirmedAreOlder(p, latest)
    <3>1. \A i \in 1 .. k : s.confirmed[i].id.client = HubId => IsOwn(s.confirmed[i].id, o)
      BY <1>0, <1>5 DEF ConfirmedAreOlder, o
    <3>2. IsOwn(front.id, o + 1) /\ ~IsOwn(front.id, o)
      BY <1>3, <1>10 DEF IsOwn, OwnId
    <3>3. \A id : IsOwn(id, o) => IsOwn(id, o + 1)
      BY <1>10 DEF IsOwn
    <3>4. \A i \in 1 .. k + 1 : list[i].id.client = HubId => IsOwn(list[i].id, o + 1)
      BY <1>5, <3>1, <3>2, <3>3
    <3>5. \A i \in 1 .. k : list[i].id # front.id
      <4>1. front.id.client = HubId
        BY <3>2, OwnIds
      <4> QED BY <1>5, <3>1, <3>2, <4>1
    <3>6. ASSUME NEW i \in 1 .. k + 1, NEW j \in 1 .. k + 1,
                 list[i].id.client = HubId, list[i].id = list[j].id
          PROVE  i = j
      <4>1. CASE i \in 1 .. k /\ j \in 1 .. k
        BY <1>0, <1>5, <3>6, <4>1 DEF ConfirmedAreOlder
      <4>2. CASE i = k + 1 /\ j = k + 1
        BY <4>2
      <4>3. CASE (i = k + 1 /\ j \in 1 .. k) \/ (i \in 1 .. k /\ j = k + 1)
        BY <1>5, <3>5, <3>6, <4>3
      <4> QED BY <1>5, <4>1, <4>2, <4>3
    <3> QED BY <1>5, <1>9, <1>10, <3>4, <3>6 DEF ConfirmedAreOlder
  <2>4. PendingUndosAreOwn(p, latest)
    BY <1>0, <1>9 DEF PendingUndosAreOwn
  <2>5. UndoMenuSafe(p)
    BY <1>0, <1>4, <1>5, <1>9 DEF UndoMenuSafe, Known
  <2> QED BY <1>9, <2>1, <2>2, <2>3, <2>4, <2>5 DEF ListsOK
<1>12. ListsOK([q EXCEPT !.confirmed = Append(@, front)], latest)
  BY <1>11 DEF p
<1>13. LET t == confirm(q, front)
       IN  /\ ListsOK(t, latest) /\ Oldest(t, latest) = Oldest(q, latest)
           /\ t.unconfirmedUndos = q.unconfirmedUndos /\ t.syncing = q.syncing
           /\ t.redoList = q.redoList /\ t.redoEnabled = q.redoEnabled
  BY <1>4, <1>8, <1>12, ConfirmLists
<1> DEFINE t == confirm(q, front)
<1> HIDE DEF t
<1>14. /\ ListsOK(t, latest) /\ Oldest(t, latest) = o + 1
       /\ t.unconfirmedUndos = s.unconfirmedUndos /\ t.syncing = s.syncing
       /\ t.redoList = s.redoList /\ t.redoEnabled = s.redoEnabled
  BY <1>8, <1>10, <1>13 DEF t
<1>15. receiveActionConfirm(s, OwnId(o + 1)) = t
  BY <1>7 DEF t
<1> QED BY <1>14, <1>15 DEF o

-----------------------------------------------------------------------------
\* The entry at k leaves the list.
LEMMA RemoveFacts ==
    ASSUME NEW list \in Seq(Entries), NEW k \in DOMAIN list
    PROVE  LET rest == RemoveAt(list, k)
           IN  /\ rest \in Seq(Entries) /\ DOMAIN rest = 1 .. Len(list) - 1
               /\ \A i \in 1 .. Len(list) - 1 :
                     rest[i] = IF i < k THEN list[i] ELSE list[i + 1]
               /\ \A i \in DOMAIN list \ {k} : list[i].id \in Ids(rest)
               /\ Ids(rest) \subseteq Ids(list)
<1> DEFINE n == Len(list)
           a == SubSeq(list, 1, k - 1)
           b == SubSeq(list, k + 1, n)
           rest == a \o b
<1>1. DOMAIN list = 1 .. n /\ n \in Nat /\ k \in 1 .. n
  BY ListFacts
<1>2. /\ a \in Seq(Entries) /\ Len(a) = k - 1 /\ \A i \in 1 .. k - 1 : a[i] = list[i]
      /\ b \in Seq(Entries) /\ Len(b) = n - k /\ \A i \in 1 .. n - k : b[i] = list[k + i]
  <2>1. /\ a \in Seq(Entries) /\ Len(a) = k - 1 /\ \A i \in 1 .. k - 1 : a[i] = list[i]
    BY <1>1, SubSeqProperties
  <2>2. /\ b \in Seq(Entries) /\ Len(b) = n - k /\ \A i \in 1 .. n - k : b[i] = list[k + i]
    BY <1>1, SubSeqProperties
  <2> QED BY <2>1, <2>2
<1> HIDE DEF a, b, n
<1>3. rest \in Seq(Entries) /\ Len(rest) = n - 1 /\ DOMAIN rest = 1 .. n - 1
  <2>1. rest \in Seq(Entries) /\ Len(rest) = Len(a) + Len(b)
    BY <1>2, ConcatProperties
  <2>2. Len(rest) = n - 1
    BY <1>1, <1>2, <2>1
  <2> QED BY <2>1, <2>2, ListFacts
<1>4. ASSUME NEW i \in 1 .. n - 1
      PROVE  rest[i] = IF i < k THEN list[i] ELSE list[i + 1]
  <2>1. CASE i < k
    BY <1>1, <1>2, <2>1, ConcatProperties
  <2>2. CASE i >= k
    <3>1. rest[i] = b[i - (k - 1)]
      BY <1>1, <1>2, <2>2, ConcatProperties
    <3>2. i - (k - 1) \in 1 .. n - k /\ k + (i - (k - 1)) = i + 1
      BY <1>1, <2>2
    <3>3. b[i - (k - 1)] = list[k + (i - (k - 1))]
      BY <1>2, <3>2
    <3> QED BY <1>1, <2>2, <3>1, <3>2, <3>3
  <2>3. i < k \/ i >= k
    BY <1>1
  <2> QED BY <2>1, <2>2, <2>3
<1> DEFINE r == RemoveAt(list, k)
<1>5. r = rest
  BY DEF RemoveAt, a, b, n
<1> HIDE DEF rest, r
<1>6. ASSUME NEW i \in DOMAIN list, i # k
      PROVE  list[i].id \in Ids(rest)
  <2>1. CASE i < k
    <3>1. i \in DOMAIN rest /\ rest[i] = list[i]
      BY <1>1, <1>3, <1>4, <2>1
    <3> QED BY <3>1 DEF Ids
  <2>2. CASE i > k
    <3>1. i - 1 \in DOMAIN rest /\ rest[i - 1] = list[i - 1 + 1] /\ i - 1 + 1 = i
      BY <1>1, <1>3, <1>4, <2>2
    <3> QED BY <3>1 DEF Ids
  <2> QED BY <1>1, <1>6, <2>1, <2>2
<1>7. ASSUME NEW i \in DOMAIN rest
      PROVE  rest[i].id \in Ids(list)
  <2>1. i \in DOMAIN list /\ i + 1 \in DOMAIN list
    BY <1>1, <1>3
  <2> QED BY <1>3, <1>4, <2>1 DEF Ids
<1>8. Ids(rest) \subseteq Ids(list)
  BY <1>7 DEF Ids
<1> QED BY <1>3, <1>4, <1>5, <1>6, <1>8 DEF r, n

\* A confirmed undo takes its action off the confirmed list.
LEMMA ReceiveUndoConfirmLists ==
    ASSUME NEW s, NEW latest \in Nat, ListsOK(s, latest), ~(s.syncing > 0),
           NEW id \in s.unconfirmedUndos, IsOwn(id, Oldest(s, latest))
    PROVE  LET t == receiveUndoConfirm(s, id)
           IN  /\ ListsOK(t, latest) /\ Oldest(t, latest) = Oldest(s, latest)
               /\ t.unconfirmedUndos = s.unconfirmedUndos \ {id} /\ t.syncing = s.syncing
               /\ t.redoList = s.redoList /\ t.redoEnabled = s.redoEnabled
<1> DEFINE o == Oldest(s, latest)
           undos == s.unconfirmedUndos \ {id}
           k == PosOf(s.confirmed, id)
           n == Len(s.confirmed)
           rest == RemoveAt(s.confirmed, k)
           t == receiveUndoConfirm(s, id)
<1>0. /\ s \in SMType /\ s.alive /\ UndoneExact(s) /\ UnconfirmedAreLatest(s, latest)
      /\ ConfirmedAreOlder(s, latest) /\ PendingUndosAreOwn(s, latest) /\ UndoMenuSafe(s)
  BY DEF ListsOK
<1>1. s.unconfirmed \in Seq(Entries) /\ s.confirmed \in Seq(Entries)
      /\ s.unconfirmedUndos \in SUBSET ActionIds
  BY <1>0 DEF SMType
<1>2. id \notin Ids(s.unconfirmed)
  <2>1. SUFFICES ASSUME NEW i \in DOMAIN s.unconfirmed, s.unconfirmed[i].id = id
                 PROVE  FALSE
    BY DEF Ids
  <2>2. id.n = o + i /\ i \in 1 .. Len(s.unconfirmed) /\ o \in Nat
    <3>1. o \in Nat /\ id = OwnId(o + i)
      BY <1>0, <2>1 DEF UnconfirmedAreLatest
    <3>2. i \in 1 .. Len(s.unconfirmed)
      BY <1>1, ListFacts
    <3> QED BY <3>1, <3>2 DEF OwnId
  <2>3. id.n \in 1 .. o
    BY DEF IsOwn
  <2> HIDE DEF o
  <2> QED BY <2>2, <2>3
<1>3. id \in Ids(s.confirmed)
  BY <1>0, <1>2 DEF UndoneExact
<1>4. k \in DOMAIN s.confirmed /\ s.confirmed[k].id = id
  BY <1>3 DEF PosOf, Ids
<1>5. /\ rest \in Seq(Entries) /\ DOMAIN rest = 1 .. n - 1
      /\ \A i \in 1 .. n - 1 : rest[i] = IF i < k THEN s.confirmed[i] ELSE s.confirmed[i + 1]
      /\ \A i \in DOMAIN s.confirmed \ {k} : s.confirmed[i].id \in Ids(rest)
      /\ Ids(rest) \subseteq Ids(s.confirmed)
  BY <1>1, <1>4, RemoveFacts
<1>6. DOMAIN s.confirmed = 1 .. n /\ n \in Nat /\ k \in 1 .. n
  BY <1>1, <1>4, ListFacts
<1>7. t = [s EXCEPT !.unconfirmedUndos = undos, !.confirmed = rest]
  BY <1>3 DEF receiveUndoConfirm
<1> HIDE DEF rest, k, n, undos, t, o
<1>8. undos \in SUBSET ActionIds
  BY <1>1 DEF undos
<1>9. /\ t \in SMType /\ t.confirmed = rest /\ t.unconfirmed = s.unconfirmed /\ t.alive
      /\ t.unconfirmedUndos = undos /\ t.undoneUnconfirmed = s.undoneUnconfirmed
      /\ t.undoEnabled = s.undoEnabled /\ t.undoActionId = s.undoActionId
      /\ t.syncing = s.syncing /\ t.redoList = s.redoList /\ t.redoEnabled = s.redoEnabled
  BY <1>0, <1>5, <1>7, <1>8 DEF SMType
\* Every entry that stays was at another position.
<1>10. ASSUME NEW i \in 1 .. n - 1
       PROVE  \E j \in 1 .. n : /\ j # k /\ rest[i] = s.confirmed[j]
                                /\ j = IF i < k THEN i ELSE i + 1
  BY <1>5, <1>6
<1>11. id.client = HubId
  BY OwnIds
<1>12. \A j \in 1 .. n : j # k => s.confirmed[j].id # id
  BY <1>0, <1>4, <1>6, <1>11 DEF ConfirmedAreOlder
<1>13. UndoneExact(t)
  <2>1. \A i \in 1 .. n - 1 : rest[i].done <=> rest[i].id \notin undos
    <3>1. \A j \in 1 .. n : s.confirmed[j].done <=> s.confirmed[j].id \notin s.unconfirmedUndos
      BY <1>0, <1>6 DEF UndoneExact
    <3>2. \A j \in 1 .. n : j # k => (s.confirmed[j].done <=> s.confirmed[j].id \notin undos)
      BY <1>12, <3>1 DEF undos
    <3> QED BY <1>10, <3>2
  <2>2. \A i \in DOMAIN s.unconfirmed : s.unconfirmed[i].done <=> s.unconfirmed[i].id \notin undos
    BY <1>0, <1>2 DEF UndoneExact, Ids, undos
  <2>3. ASSUME NEW x \in undos
        PROVE  x \in Ids(rest) \cup Ids(s.unconfirmed)
    <3>1. x # id /\ x \in Ids(s.confirmed) \cup Ids(s.unconfirmed)
      BY <1>0 DEF UndoneExact, undos
    <3>2. x \in Ids(s.confirmed) => x \in Ids(rest)
      BY <1>4, <1>5, <3>1 DEF Ids
    <3> QED BY <3>1, <3>2
  <2>4. undos \cap Ids(s.unconfirmed) = s.unconfirmedUndos \cap Ids(s.unconfirmed)
    BY <1>2 DEF undos
  <2>5. s.undoneUnconfirmed = Cardinality(undos \cap Ids(s.unconfirmed))
    BY <1>0, <2>4 DEF UndoneExact
  <2> QED BY <1>5, <1>9, <2>1, <2>2, <2>3, <2>5 DEF UndoneExact
<1>14. Oldest(t, latest) = o
  BY <1>9 DEF Oldest, o
<1>15. UnconfirmedAreLatest(t, latest)
  BY <1>0, <1>9, <1>14 DEF UnconfirmedAreLatest, o
<1>16. ConfirmedAreOlder(t, latest)
  <2>1. \A j \in 1 .. n : s.confirmed[j].id.client = HubId => IsOwn(s.confirmed[j].id, o)
    BY <1>0, <1>6 DEF ConfirmedAreOlder, o
  <2>2. \A i \in 1 .. n - 1 : rest[i].id.client = HubId => IsOwn(rest[i].id, o)
    BY <1>10, <2>1
  <2>3. ASSUME NEW i \in 1 .. n - 1, NEW j \in 1 .. n - 1,
               rest[i].id.client = HubId, rest[i].id = rest[j].id
        PROVE  i = j
    <3>1. PICK x \in 1 .. n : rest[i] = s.confirmed[x] /\ x = IF i < k THEN i ELSE i + 1
      BY <1>10
    <3>2. PICK y \in 1 .. n : rest[j] = s.confirmed[y] /\ y = IF j < k THEN j ELSE j + 1
      BY <1>10
    <3>3. x = y
      BY <1>0, <1>6, <2>3, <3>1, <3>2 DEF ConfirmedAreOlder
    <3> QED BY <1>6, <3>1, <3>2, <3>3
  <2> QED BY <1>5, <1>9, <1>14, <2>2, <2>3 DEF ConfirmedAreOlder
<1>17. PendingUndosAreOwn(t, latest)
  <2>1. IsFiniteSet(undos)
    BY <1>0, FS_Subset DEF PendingUndosAreOwn, undos
  <2> QED BY <1>0, <1>9, <2>1 DEF PendingUndosAreOwn, undos
<1>18. UndoMenuSafe(t)
  <2>1. ASSUME s.undoEnabled
        PROVE  Known(t, s.undoActionId) /\ s.undoActionId \notin undos
    <3>1. Known(s, s.undoActionId) /\ s.undoActionId \notin s.unconfirmedUndos
      BY <1>0, <2>1 DEF UndoMenuSafe
    <3>2. s.undoActionId # id
      BY <3>1
    <3>3. s.undoActionId \in Ids(s.confirmed) => s.undoActionId \in Ids(rest)
      BY <1>4, <1>5, <3>2 DEF Ids
    <3> QED BY <1>9, <3>1, <3>3 DEF Known, undos
  <2> QED BY <1>0, <1>9, <2>1 DEF UndoMenuSafe
<1>19. ListsOK(t, latest)
  BY <1>9, <1>13, <1>15, <1>16, <1>17, <1>18 DEF ListsOK
<1> QED BY <1>9, <1>14, <1>19 DEF t, undos, o

=============================================================================
