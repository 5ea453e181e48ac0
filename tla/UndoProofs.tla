----------------------------- MODULE UndoProofs -----------------------------
(***************************************************************************)
(* What the user's undo does to the lists of the hub's StoreManager.       *)
(***************************************************************************)
EXTENDS ListProofs

\* Undoing a list from position k on and redoing what no pending undo covers:
\* the entries keep their places, and done again means not undone.
LEMMA UndoneThenRedone ==
    ASSUME NEW list \in Seq(Entries), NEW k \in Nat, NEW undos,
           \A i \in DOMAIN list : i < k => (list[i].done <=> list[i].id \notin undos)
    PROVE  LET new == Redone(UndoneFrom(list, k), undos)
           IN  /\ new \in Seq(Entries) /\ DOMAIN new = DOMAIN list /\ Len(new) = Len(list)
               /\ \A i \in DOMAIN list : new[i].id = list[i].id
               /\ \A i \in DOMAIN list : new[i].done <=> new[i].id \notin undos
               /\ Ids(new) = Ids(list)
<1> DEFINE u == UndoneFrom(list, k)
           new == Redone(u, undos)
<1>1. DOMAIN list = 1 .. Len(list) /\ Len(list) \in Nat
      /\ \A i \in DOMAIN list : list[i] \in Entries
  BY ListFacts
<1>2. DOMAIN u = DOMAIN list
      /\ \A i \in DOMAIN list :
            u[i] = IF i >= k THEN [list[i] EXCEPT !.done = FALSE] ELSE list[i]
  BY DEF UndoneFrom
<1> HIDE DEF u
<1>3. DOMAIN new = DOMAIN list
      /\ \A i \in DOMAIN list :
            new[i] = IF u[i].id \in undos THEN u[i] ELSE [u[i] EXCEPT !.done = TRUE]
  BY <1>2 DEF Redone
<1> HIDE DEF new
<1>4. ASSUME NEW i \in DOMAIN list
      PROVE  /\ new[i] \in Entries /\ new[i].id = list[i].id
             /\ new[i].done <=> new[i].id \notin undos
  <2>1. list[i] \in [id : ActionIds, done : BOOLEAN]
    BY <1>1 DEF Entries
  <2>2. /\ u[i] \in [id : ActionIds, done : BOOLEAN] /\ u[i].id = list[i].id
        /\ i >= k => u[i].done = FALSE
        /\ i < k => u[i] = list[i]
    <3>1. CASE i >= k
      <4>1. u[i] = [list[i] EXCEPT !.done = FALSE]
        BY <1>2, <3>1
      <4>2. ~(i < k)
        BY <1>1, <3>1
      <4> QED BY <2>1, <4>1, <4>2
    <3>2. CASE i < k
      <4>1. u[i] = list[i] /\ ~(i >= k)
        BY <1>1, <1>2, <3>2
      <4> QED BY <2>1, <4>1
    <3>3. i < k \/ i >= k
      BY <1>1
    <3> QED BY <3>1, <3>2, <3>3
  <2>3. CASE u[i].id \in undos
    <3>1. new[i] = u[i]
      BY <1>3, <2>3
    <3>2. i < k => ~u[i].done
      BY <2>2, <2>3
    <3>3. i < k \/ i >= k
      BY <1>1
    <3> QED BY <2>2, <2>3, <3>1, <3>2, <3>3 DEF Entries
  <2>4. CASE u[i].id \notin undos
    <3>1. new[i] = [u[i] EXCEPT !.done = TRUE]
      BY <1>3, <2>4
    <3> QED BY <2>2, <2>4, <3>1 DEF Entries
  <2> QED BY <2>3, <2>4
<1>5. new \in Seq(Entries) /\ Len(new) = Len(list)
  <2>1. new = [i \in 1 .. Len(list) |-> new[i]]
    BY <1>1, <1>3 DEF new, Redone
  <2>2. new \in [1 .. Len(list) -> Entries]
    BY <1>1, <1>4, <2>1
  <2>3. new \in Seq(Entries)
    BY <1>1, <2>2, IsASeq
  <2> QED BY <1>1, <1>3, <2>3, LenProperties
<1>6. Ids(new) = Ids(list)
  BY <1>3, <1>4 DEF Ids
<1> QED BY <1>3, <1>4, <1>5, <1>6 DEF new, u

\* The next action to undo is an own one of the list that is done.
LEMMA LastOwnDoneFacts ==
    ASSUME NEW list, NEW me, LastOwnDone(list, me) # NoAction
    PROVE  \E i \in DOMAIN list : /\ list[i].done /\ list[i].id.client = me
                                  /\ LastOwnDone(list, me) = list[i].id
<1> DEFINE own == {i \in DOMAIN list : list[i].done /\ list[i].id.client = me}
           IsTop(i) == i \in own /\ \A j \in own : j <= i
           c == CHOOSE i \in own : IsTop(i)
<1>1. LastOwnDone(list, me) = IF \E i \in own : IsTop(i) THEN list[c].id ELSE NoAction
  BY DEF LastOwnDone
<1>2. \E i \in own : IsTop(i)
  BY <1>1
<1>3. c \in own
  BY <1>2
<1>4. LastOwnDone(list, me) = list[c].id
  BY <1>1, <1>2
<1> QED BY <1>3, <1>4

\* What is searched for it are entries of the two lists.
LEMMA UpToFacts ==
    ASSUME NEW confirmed \in Seq(Entries), NEW unconfirmed \in Seq(Entries), NEW id,
           id \in Ids(confirmed) \cup Ids(unconfirmed)
    PROVE  LET list == UpTo(confirmed, unconfirmed, id)
           IN  \A i \in DOMAIN list : \/ \E j \in DOMAIN confirmed : list[i] = confirmed[j]
                                      \/ \E j \in DOMAIN unconfirmed : list[i] = unconfirmed[j]
<1>1. /\ DOMAIN confirmed = 1 .. Len(confirmed) /\ Len(confirmed) \in Nat
      /\ DOMAIN unconfirmed = 1 .. Len(unconfirmed) /\ Len(unconfirmed) \in Nat
  BY ListFacts
<1>2. CASE id \in Ids(unconfirmed)
  <2> DEFINE k == PosOf(unconfirmed, id)
             a == SubSeq(unconfirmed, 1, k)
             list == confirmed \o a
  <2>1. k \in 1 .. Len(unconfirmed)
    BY <1>1, <1>2 DEF PosOf, Ids
  <2> HIDE DEF k
  <2>2. a \in Seq(Entries) /\ Len(a) = k /\ \A i \in 1 .. k : a[i] = unconfirmed[i]
    BY <1>1, <2>1, SubSeqProperties
  <2> HIDE DEF a
  <2>3. /\ DOMAIN list = 1 .. Len(confirmed) + k
        /\ \A i \in 1 .. Len(confirmed) + k :
              list[i] = IF i <= Len(confirmed) THEN confirmed[i] ELSE a[i - Len(confirmed)]
    <3>1. /\ list \in Seq(Entries) /\ Len(list) = Len(confirmed) + Len(a)
          /\ \A i \in 1 .. Len(confirmed) + Len(a) :
                list[i] = IF i <= Len(confirmed) THEN confirmed[i] ELSE a[i - Len(confirmed)]
      BY <2>2, ConcatProperties
    <3>2. DOMAIN list = 1 .. Len(confirmed) + Len(a)
      BY <3>1, LenProperties
    <3> QED BY <2>2, <3>1, <3>2
  <2> HIDE DEF list
  <2>4. ASSUME NEW i \in DOMAIN list
        PROVE  \/ \E j \in DOMAIN confirmed : list[i] = confirmed[j]
               \/ \E j \in DOMAIN unconfirmed : list[i] = unconfirmed[j]
    <3>1. CASE i <= Len(confirmed)
      <4>1. i \in DOMAIN confirmed /\ list[i] = confirmed[i]
        BY <1>1, <2>1, <2>3, <3>1
      <4> QED BY <4>1
    <3>2. CASE i > Len(confirmed)
      <4>1. /\ i - Len(confirmed) \in 1 .. k
            /\ list[i] = a[i - Len(confirmed)]
        BY <1>1, <2>1, <2>3, <3>2
      <4>2. /\ i - Len(confirmed) \in DOMAIN unconfirmed
            /\ list[i] = unconfirmed[i - Len(confirmed)]
        BY <1>1, <2>1, <2>2, <4>1
      <4> QED BY <4>2
    <3>3. i <= Len(confirmed) \/ i > Len(confirmed)
      BY <1>1, <2>1, <2>3
    <3> QED BY <3>1, <3>2, <3>3
  <2>5. UpTo(confirmed, unconfirmed, id) = list
    BY <1>2 DEF UpTo, list, a, k
  <2> QED BY <2>4, <2>5
<1>3. CASE id \notin Ids(unconfirmed)
  <2> DEFINE k == PosOf(confirmed, id)
             list == SubSeq(confirmed, 1, k)
  <2>1. k \in 1 .. Len(confirmed)
    BY <1>1, <1>3 DEF PosOf, Ids
  <2> HIDE DEF k
  <2>2. list \in Seq(Entries) /\ Len(list) = k /\ \A i \in 1 .. k : list[i] = confirmed[i]
    BY <1>1, <2>1, SubSeqProperties
  <2> HIDE DEF list
  <2>3. \A i \in DOMAIN list : i \in DOMAIN confirmed /\ list[i] = confirmed[i]
    <3>1. DOMAIN list = 1 .. k
      BY <2>2, ListFacts
    <3> QED BY <1>1, <2>1, <2>2, <3>1
  <2>4. UpTo(confirmed, unconfirmed, id) = list
    BY <1>3 DEF UpTo, list, k
  <2> QED BY <2>3, <2>4
<1> QED BY <1>2, <1>3

-----------------------------------------------------------------------------
\* What undoId makes of the two lists, given the undos now pending.
UndoneConfirmed(s, id, undos) ==
    IF id \in Ids(s.unconfirmed) THEN s.confirmed
    ELSE Redone(UndoneFrom(s.confirmed, PosOf(s.confirmed, id)), undos)

UndoneUnconfirmed(s, id, undos) ==
    Redone(UndoneFrom(s.unconfirmed, IF id \in Ids(s.unconfirmed)
                                     THEN PosOf(s.unconfirmed, id) ELSE 1), undos)

\* Both lists keep their actions, and those whose undo is pending are undone.
LEMMA UndoneLists ==
    ASSUME NEW s, NEW latest \in Nat, ListsOK(s, latest),
           NEW id, Known(s, id), id \notin s.unconfirmedUndos, id.client = HubId
    PROVE  LET undos == s.unconfirmedUndos \cup {id}
               new == UndoneUnconfirmed(s, id, undos)
               old == UndoneConfirmed(s, id, undos)
           IN  /\ new \in Seq(Entries) /\ DOMAIN new = DOMAIN s.unconfirmed
               /\ Len(new) = Len(s.unconfirmed) /\ Ids(new) = Ids(s.unconfirmed)
               /\ \A i \in DOMAIN new : new[i].id = s.unconfirmed[i].id
               /\ \A i \in DOMAIN new : new[i].done <=> new[i].id \notin undos
               /\ old \in Seq(Entries) /\ DOMAIN old = DOMAIN s.confirmed
               /\ Ids(old) = Ids(s.confirmed)
               /\ \A i \in DOMAIN old : old[i].id = s.confirmed[i].id
               /\ \A i \in DOMAIN old : old[i].done <=> old[i].id \notin undos
<1> DEFINE undos == s.unconfirmedUndos \cup {id}
           o == Oldest(s, latest)
<1>0. /\ s \in SMType /\ UndoneExact(s) /\ UnconfirmedAreLatest(s, latest)
      /\ ConfirmedAreOlder(s, latest)
  BY DEF ListsOK
<1>1. /\ s.unconfirmed \in Seq(Entries) /\ s.confirmed \in Seq(Entries)
      /\ DOMAIN s.unconfirmed = 1 .. Len(s.unconfirmed) /\ Len(s.unconfirmed) \in Nat
      /\ DOMAIN s.confirmed = 1 .. Len(s.confirmed) /\ Len(s.confirmed) \in Nat
  BY <1>0, ListFacts DEF SMType
<1>2. o \in Nat /\ \A i \in DOMAIN s.unconfirmed : s.unconfirmed[i].id = OwnId(o + i)
  BY <1>0 DEF UnconfirmedAreLatest
<1>3. /\ \A i \in DOMAIN s.confirmed :
            s.confirmed[i].done <=> s.confirmed[i].id \notin s.unconfirmedUndos
      /\ \A i \in DOMAIN s.unconfirmed :
            s.unconfirmed[i].done <=> s.unconfirmed[i].id \notin s.unconfirmedUndos
  BY <1>0 DEF UndoneExact
<1>4. \A i \in DOMAIN s.confirmed :
         s.confirmed[i].id.client = HubId => IsOwn(s.confirmed[i].id, o)
  BY <1>0 DEF ConfirmedAreOlder
<1> HIDE DEF o
<1>5. CASE id \in Ids(s.unconfirmed)
  <2> DEFINE k == PosOf(s.unconfirmed, id)
  <2>1. k \in DOMAIN s.unconfirmed /\ s.unconfirmed[k].id = id
    BY <1>5 DEF PosOf, Ids
  <2> HIDE DEF k
  <2>2. ASSUME NEW i \in DOMAIN s.unconfirmed, i < k
        PROVE  s.unconfirmed[i].done <=> s.unconfirmed[i].id \notin undos
    <3>1. s.unconfirmed[i].id.n = o + i /\ id.n = o + k
      <4>1. o + i \in Nat /\ o + k \in Nat
        BY <1>1, <1>2, <2>1
      <4>2. s.unconfirmed[i].id = OwnId(o + i) /\ id = OwnId(o + k)
        BY <1>2, <2>1
      <4> QED BY <4>1, <4>2, OwnIds
    <3>2. s.unconfirmed[i].id # id
      BY <1>1, <1>2, <2>1, <2>2, <3>1
    <3> QED BY <1>3, <3>2
  <2>3. ASSUME NEW i \in DOMAIN s.confirmed
        PROVE  s.confirmed[i].id # id
    <3>1. SUFFICES ASSUME s.confirmed[i].id = id PROVE FALSE
      OBVIOUS
    <3>2. id.n \in 1 .. o
      BY <1>4, <3>1 DEF IsOwn
    <3>3. id.n = o + k
      <4>1. o + k \in Nat
        BY <1>1, <1>2, <2>1
      <4>2. id = OwnId(o + k)
        BY <1>2, <2>1
      <4> QED BY <4>1, <4>2, OwnIds
    <3> QED BY <1>1, <1>2, <2>1, <3>2, <3>3
  <2>4. \A i \in DOMAIN s.confirmed : s.confirmed[i].done <=> s.confirmed[i].id \notin undos
    BY <1>3, <2>3
  <2>5. UndoneUnconfirmed(s, id, undos) = Redone(UndoneFrom(s.unconfirmed, k), undos)
    BY <1>5 DEF UndoneUnconfirmed, k
  <2>6. UndoneConfirmed(s, id, undos) = s.confirmed
    BY <1>5 DEF UndoneConfirmed
  <2>7. k \in Nat
    BY <1>1, <2>1
  <2> HIDE DEF undos
  <2>8. LET new == Redone(UndoneFrom(s.unconfirmed, k), undos)
        IN  /\ new \in Seq(Entries) /\ DOMAIN new = DOMAIN s.unconfirmed
            /\ Len(new) = Len(s.unconfirmed)
            /\ \A i \in DOMAIN s.unconfirmed : new[i].id = s.unconfirmed[i].id
            /\ \A i \in DOMAIN s.unconfirmed : new[i].done <=> new[i].id \notin undos
            /\ Ids(new) = Ids(s.unconfirmed)
    BY <1>1, <2>2, <2>7, UndoneThenRedone
  <2> QED BY <1>1, <2>4, <2>5, <2>6, <2>8 DEF undos
<1>6. CASE id \notin Ids(s.unconfirmed)
  <2> DEFINE k == PosOf(s.confirmed, id)
  <2>1. k \in DOMAIN s.confirmed /\ s.confirmed[k].id = id
    BY <1>6 DEF Known, PosOf, Ids
  <2> HIDE DEF k
  <2>2. ASSUME NEW i \in DOMAIN s.confirmed, i < k
        PROVE  s.confirmed[i].done <=> s.confirmed[i].id \notin undos
    <3>1. i # k
      BY <1>1, <2>1, <2>2
    <3>2. s.confirmed[i].id # id
      BY <1>0, <2>1, <3>1 DEF ConfirmedAreOlder
    <3> QED BY <1>3, <3>2
  <2>3. \A i \in DOMAIN s.unconfirmed :
           i < 1 => (s.unconfirmed[i].done <=> s.unconfirmed[i].id \notin undos)
    BY <1>1
  <2>4. UndoneUnconfirmed(s, id, undos) = Redone(UndoneFrom(s.unconfirmed, 1), undos)
    BY <1>6 DEF UndoneUnconfirmed
  <2>5. UndoneConfirmed(s, id, undos) = Redone(UndoneFrom(s.confirmed, k), undos)
    BY <1>6 DEF UndoneConfirmed, k
  <2>6. k \in Nat /\ 1 \in Nat
    BY <1>1, <2>1
  <2> HIDE DEF undos
  <2>7. LET new == Redone(UndoneFrom(s.unconfirmed, 1), undos)
        IN  /\ new \in Seq(Entries) /\ DOMAIN new = DOMAIN s.unconfirmed
            /\ Len(new) = Len(s.unconfirmed)
            /\ \A i \in DOMAIN s.unconfirmed : new[i].id = s.unconfirmed[i].id
            /\ \A i \in DOMAIN s.unconfirmed : new[i].done <=> new[i].id \notin undos
            /\ Ids(new) = Ids(s.unconfirmed)
    BY <1>1, <2>3, <2>6, UndoneThenRedone
  <2>8. LET old == Redone(UndoneFrom(s.confirmed, k), undos)
        IN  /\ old \in Seq(Entries) /\ DOMAIN old = DOMAIN s.confirmed
            /\ Len(old) = Len(s.confirmed)
            /\ \A i \in DOMAIN s.confirmed : old[i].id = s.confirmed[i].id
            /\ \A i \in DOMAIN s.confirmed : old[i].done <=> old[i].id \notin undos
            /\ Ids(old) = Ids(s.confirmed)
    BY <1>1, <2>2, <2>6, UndoneThenRedone
  <2> QED BY <2>4, <2>5, <2>7, <2>8 DEF undos
<1> QED BY <1>5, <1>6

\* The Undo menu item: the action is there and done, its undo becomes pending.
LEMMA UndoLists ==
    ASSUME NEW s, NEW latest \in Nat, ListsOK(s, latest), s.undoEnabled,
           s.redoEnabled <=> canRedo(s)
    PROVE  LET t == undo(s, HubId)
               id == s.undoActionId
           IN  /\ ListsOK(t, latest) /\ Oldest(t, latest) = Oldest(s, latest)
               /\ Known(s, id) /\ IsOwn(id, latest) /\ id \notin s.unconfirmedUndos
               /\ id \in ActionIds
               /\ t.unconfirmedUndos = s.unconfirmedUndos \cup {id} /\ t.syncing = s.syncing
               /\ t.redoEnabled <=> canRedo(t)
<1> DEFINE id == s.undoActionId
           undos == s.unconfirmedUndos \cup {id}
           isUnconfirmed == id \in Ids(s.unconfirmed)
           new == UndoneUnconfirmed(s, id, undos)
           old == UndoneConfirmed(s, id, undos)
           next == LastOwnDone(UpTo(old, new, id), HubId)
           redos == IF s.redoList = REDO_LIST_MAX_SIZE THEN s.redoList ELSE s.redoList + 1
           n == IF isUnconfirmed THEN s.undoneUnconfirmed + 1 ELSE s.undoneUnconfirmed
           t == undo(s, HubId)
<1>0. /\ s \in SMType /\ s.alive /\ UndoneExact(s) /\ UnconfirmedAreLatest(s, latest)
      /\ ConfirmedAreOlder(s, latest) /\ PendingUndosAreOwn(s, latest) /\ UndoMenuSafe(s)
  BY DEF ListsOK
<1>1. /\ s.unconfirmed \in Seq(Entries) /\ s.confirmed \in Seq(Entries)
      /\ s.undoneUnconfirmed \in Nat /\ s.redoList \in Nat
      /\ s.unconfirmedUndos \in SUBSET ActionIds
  BY <1>0 DEF SMType
<1>2. Known(s, id) /\ id \notin s.unconfirmedUndos /\ id.client = HubId
  BY <1>0 DEF UndoMenuSafe
<1>3. id \in ActionIds /\ id # NoAction
  <2>1. Ids(s.confirmed) \subseteq ActionIds /\ Ids(s.unconfirmed) \subseteq ActionIds
    BY <1>1, ListFacts
  <2> QED BY <1>2, <2>1, NoActionAssumption DEF Known
<1>4. IsOwn(id, latest)
  <2>1. CASE id \in Ids(s.confirmed)
    <3>1. IsOwn(id, Oldest(s, latest))
      BY <1>0, <1>2, <2>1 DEF ConfirmedAreOlder, Ids
    <3>2. Oldest(s, latest) \in Nat /\ Oldest(s, latest) <= latest
      <4>1. Len(s.unconfirmed) \in Nat /\ Oldest(s, latest) \in Nat
        BY <1>0, <1>1, ListFacts DEF UnconfirmedAreLatest
      <4> QED BY <4>1 DEF Oldest
    <3> QED BY <3>1, <3>2, OwnIds
  <2>2. CASE isUnconfirmed
    <3>1. PICK i \in DOMAIN s.unconfirmed : s.unconfirmed[i].id = id
      BY <2>2 DEF Ids
    <3>2. id = OwnId(Oldest(s, latest) + i) /\ Oldest(s, latest) \in Nat
      BY <1>0, <3>1 DEF UnconfirmedAreLatest
    <3>3. i \in 1 .. Len(s.unconfirmed) /\ Len(s.unconfirmed) \in Nat
      BY <1>1, ListFacts
    <3>4. Oldest(s, latest) + i \in 1 .. latest
      BY <3>2, <3>3 DEF Oldest
    <3>5. id.n = Oldest(s, latest) + i
      <4>1. Oldest(s, latest) + i \in Nat
        BY <3>4
      <4> QED BY <3>2, <4>1, OwnIds
    <3> QED BY <3>2, <3>4, <3>5 DEF IsOwn
  <2> QED BY <1>2, <2>1, <2>2 DEF Known
<1>5. /\ new \in Seq(Entries) /\ DOMAIN new = DOMAIN s.unconfirmed
      /\ Len(new) = Len(s.unconfirmed) /\ Ids(new) = Ids(s.unconfirmed)
      /\ \A i \in DOMAIN new : new[i].id = s.unconfirmed[i].id
      /\ \A i \in DOMAIN new : new[i].done <=> new[i].id \notin undos
      /\ old \in Seq(Entries) /\ DOMAIN old = DOMAIN s.confirmed
      /\ Ids(old) = Ids(s.confirmed)
      /\ \A i \in DOMAIN old : old[i].id = s.confirmed[i].id
      /\ \A i \in DOMAIN old : old[i].done <=> old[i].id \notin undos
  BY <1>2, UndoneLists
<1>6. t = [s EXCEPT !.unconfirmedUndos = undos,
                    !.undoneUnconfirmed = n,
                    !.confirmed = old,
                    !.unconfirmed = new,
                    !.undoActionId = next,
                    !.redoList = redos,
                    !.undoEnabled = IF next = NoAction THEN FALSE ELSE @,
                    !.redoEnabled = IF redos = 1 THEN TRUE ELSE @]
  <2>1. t = undoId(s, id, HubId)
    BY <1>3 DEF undo, canUndo
  <2>2. ~isUnconfirmed => s.confirmed[PosOf(s.confirmed, id)].done
    <3> DEFINE k == PosOf(s.confirmed, id)
    <3>1. ~isUnconfirmed => k \in DOMAIN s.confirmed /\ s.confirmed[k].id = id
      BY <1>2 DEF Known, PosOf, Ids
    <3> HIDE DEF k
    <3>2. ~isUnconfirmed => s.confirmed[k].done
      BY <1>0, <1>2, <3>1 DEF UndoneExact
    <3> QED BY <3>2 DEF k
  <2>3. CASE isUnconfirmed
    BY <1>2, <2>1, <2>3 DEF undoId, UndoneConfirmed, UndoneUnconfirmed
  <2>4. CASE ~isUnconfirmed
    BY <1>2, <2>1, <2>2, <2>4 DEF undoId, UndoneConfirmed, UndoneUnconfirmed
  <2> QED BY <2>3, <2>4
<1>7. next # NoAction => /\ next \in Ids(old) \cup Ids(new)
                         /\ next \notin undos /\ next.client = HubId
  <2> DEFINE list == UpTo(old, new, id)
  <2>1. id \in Ids(old) \cup Ids(new)
    BY <1>2, <1>5 DEF Known
  <2> HIDE DEF old, new, undos
  <2>2. \A i \in DOMAIN list : \/ \E j \in DOMAIN old : list[i] = old[j]
                               \/ \E j \in DOMAIN new : list[i] = new[j]
    BY <1>5, <2>1, UpToFacts
  <2> HIDE DEF list
  <2>3. LastOwnDone(list, HubId) # NoAction =>
           \E i \in DOMAIN list : /\ list[i].done /\ list[i].id.client = HubId
                                  /\ LastOwnDone(list, HubId) = list[i].id
    BY LastOwnDoneFacts
  <2>4. ASSUME NEW i \in DOMAIN list, list[i].done
        PROVE  list[i].id \in Ids(old) \cup Ids(new) /\ list[i].id \notin undos
    BY <1>5, <2>2, <2>4 DEF Ids
  <2> QED BY <2>3, <2>4 DEF list
<1> HIDE DEF new, old, next, t
<1>8. /\ undos \in SUBSET ActionIds /\ n \in Nat /\ redos \in Nat
      /\ next \in ActionIds \cup {NoAction}
      /\ (IF next = NoAction THEN FALSE ELSE s.undoEnabled) \in BOOLEAN
      /\ (IF redos = 1 THEN TRUE ELSE s.redoEnabled) \in BOOLEAN
  <2>1. next \in ActionIds \cup {NoAction}
    BY <1>5, <1>7, ListFacts
  <2>2. undos \in SUBSET ActionIds /\ n \in Nat /\ redos \in Nat
    BY <1>1, <1>3
  <2>3. s.undoEnabled \in BOOLEAN /\ s.redoEnabled \in BOOLEAN
    BY <1>0 DEF SMType
  <2> QED BY <2>1, <2>2, <2>3
<1>9. s.redoEnabled <=> s.redoList > 0
  BY DEF canRedo
<1>10. (IF redos = 1 THEN TRUE ELSE s.redoEnabled) <=> redos > 0
  BY <1>1, <1>9, RedoSizeAssumption
<1> HIDE DEF undos, n, redos
<1>11. /\ t \in SMType /\ t.confirmed = old /\ t.unconfirmed = new /\ t.alive = s.alive
       /\ t.unconfirmedUndos = undos /\ t.undoneUnconfirmed = n
       /\ t.undoActionId = next /\ t.undoEnabled = (IF next = NoAction THEN FALSE ELSE s.undoEnabled)
       /\ t.syncing = s.syncing /\ t.redoList = redos
       /\ t.redoEnabled = (IF redos = 1 THEN TRUE ELSE s.redoEnabled)
  BY <1>0, <1>5, <1>6, <1>8 DEF SMType
<1>12. UndoneExact(t)
  <2> DEFINE X == s.unconfirmedUndos \cap Ids(s.unconfirmed)
  <2>1. IsFiniteSet(X) /\ Cardinality(X) = s.undoneUnconfirmed
    BY <1>0, FS_Subset DEF UndoneExact, PendingUndosAreOwn
  <2>2. n = Cardinality(undos \cap Ids(s.unconfirmed))
    <3>1. CASE isUnconfirmed
      <4>1. undos \cap Ids(s.unconfirmed) = X \cup {id} /\ id \notin X
        BY <1>2, <3>1 DEF undos
      <4> HIDE DEF X
      <4>2. Cardinality(X \cup {id}) = Cardinality(X) + 1
        BY <2>1, <4>1, FS_AddElement
      <4> QED BY <2>1, <3>1, <4>1, <4>2 DEF n
    <3>2. CASE ~isUnconfirmed
      <4>1. undos \cap Ids(s.unconfirmed) = X
        BY <3>2 DEF undos
      <4> QED BY <2>1, <3>2, <4>1 DEF n
    <3> QED BY <3>1, <3>2
  <2>3. undos \subseteq Ids(old) \cup Ids(new)
    BY <1>0, <1>2, <1>5 DEF UndoneExact, Known, undos
  <2> QED BY <1>5, <1>11, <2>2, <2>3 DEF UndoneExact
<1>13. Oldest(t, latest) = Oldest(s, latest)
  BY <1>5, <1>11 DEF Oldest
<1>14. UnconfirmedAreLatest(t, latest)
  BY <1>0, <1>5, <1>11, <1>13 DEF UnconfirmedAreLatest
<1>15. ConfirmedAreOlder(t, latest)
  BY <1>0, <1>5, <1>11, <1>13 DEF ConfirmedAreOlder
<1>16. PendingUndosAreOwn(t, latest)
  <2>1. IsFiniteSet(undos)
    BY <1>0, FS_AddElement DEF PendingUndosAreOwn, undos
  <2> QED BY <1>0, <1>4, <1>11, <2>1 DEF PendingUndosAreOwn, undos
<1>17. UndoMenuSafe(t)
  BY <1>7, <1>11 DEF UndoMenuSafe, Known
<1>18. ListsOK(t, latest)
  BY <1>0, <1>11, <1>12, <1>14, <1>15, <1>16, <1>17 DEF ListsOK
<1>19. t.redoEnabled <=> canRedo(t)
  BY <1>10, <1>11 DEF canRedo
<1> QED BY <1>2, <1>3, <1>4, <1>11, <1>13, <1>18, <1>19 DEF t, undos

=============================================================================
