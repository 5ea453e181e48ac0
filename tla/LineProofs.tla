----------------------------- MODULE LineProofs -----------------------------
(***************************************************************************)
(* What the steps of the two threads do to a line of messages in flight:   *)
(* a message joins its end, a call is answered in place, the first message *)
(* is taken off, and messages that are none of the hub's own syncs,        *)
(* actions and undos come and go.                                          *)
(***************************************************************************)
EXTENDS HubInvariant, SequenceTheorems, TLAPS

IsOther(m) == ~IsAct(m) /\ ~IsSyn(m) /\ ~IsUnd(m)

\* A call and its answer.
SameKind(m, e) ==
    /\ IsAct(m) <=> IsAct(e)
    /\ IsSyn(m) <=> IsSyn(e)
    /\ IsUnd(m) <=> IsUnd(e)
    /\ IsSyn(m) => e.n = m.n
    /\ IsAct(m) \/ IsUnd(m) => e.id = m.id

\* M is the line L without its position p.
Without(L, M, p) ==
    /\ p \in DOMAIN L
    /\ DOMAIN L \subseteq Int
    /\ DOMAIN M = DOMAIN L \ {p}
    /\ \A i \in DOMAIN M : M[i] = L[i]

\* M is the line L of k + 1 messages without the one at p, numbered from 1 again.
GapClosed(L, M, k, p) ==
    /\ k \in Nat /\ p \in 1 .. k + 1
    /\ DOMAIN L = 1 .. k + 1 /\ DOMAIN M = 1 .. k
    /\ \A i \in 1 .. k : M[i] = L[IF i < p THEN i ELSE i + 1]

\* A message is of one kind only.
LEMMA Kinds ==
    \A m : /\ IsAct(m) => ~IsSyn(m) /\ ~IsUnd(m)
           /\ IsSyn(m) => ~IsAct(m) /\ ~IsUnd(m)
           /\ IsUnd(m) => ~IsAct(m) /\ ~IsSyn(m)
BY DEF IsAct, IsSyn, IsUnd

-----------------------------------------------------------------------------
\* Only the order of the positions of a line matters, not their numbers.
LEMMA LineMoved ==
    ASSUME NEW L, NEW M, NEW g \in [DOMAIN M -> DOMAIN L],
           \A j \in DOMAIN L : \E i \in DOMAIN M : g[i] = j,
           \A i, j \in DOMAIN M : i < j <=> g[i] < g[j],
           \A i \in DOMAIN M : M[i] = L[g[i]],
           NEW a, NEW b, NEW oldest, NEW latest, NEW undos,
           LineOK(L, a, b, oldest, latest, undos)
    PROVE  LineOK(M, a, b, oldest, latest, undos)
<1>1. \A i \in DOMAIN M : SyncAfter(M, i) <=> SyncAfter(L, g[i])
  BY DEF SyncAfter
<1>2. SyncsExact(M, a + 1, b)
  <2>1. SyncsExact(L, a + 1, b)
    BY DEF LineOK
  <2> QED BY <2>1 DEF SyncsExact
<1>3. ActionsExact(M, oldest, latest)
  <2>1. ActionsExact(L, oldest, latest)
    BY DEF LineOK
  <2> QED BY <1>1, <2>1 DEF ActionsExact
<1>4. UndosExact(M, oldest, latest, undos)
  <2>1. UndosExact(L, oldest, latest, undos)
    BY DEF LineOK
  <2>2. ASSUME NEW i \in DOMAIN M, IsUnd(M[i]), M[i].id.n > oldest
        PROVE  \E j \in DOMAIN M : j < i /\ IsAct(M[j]) /\ M[j].id = M[i].id
    <3>1. PICK j \in DOMAIN L : j < g[i] /\ IsAct(L[j]) /\ L[j].id = L[g[i]].id
      BY <2>1, <2>2 DEF UndosExact
    <3> QED BY <3>1
  <2>3. \A i \in DOMAIN M : IsUnd(M[i]) => /\ IsOwn(M[i].id, latest)
                                           /\ SyncAfter(M, i) \/ M[i].id \in undos
    BY <1>1, <2>1 DEF UndosExact
  <2>4. \A i, j \in DOMAIN M :
           i < j /\ IsUnd(M[i]) /\ IsUnd(M[j]) /\ M[i].id = M[j].id => SyncAfter(M, i)
    BY <1>1, <2>1 DEF UndosExact
  <2> QED BY <2>2, <2>3, <2>4 DEF UndosExact
<1> QED BY <1>2, <1>3, <1>4 DEF LineOK

\* The worker answers a call: the line keeps its shape.
LEMMA LineAnswered ==
    ASSUME NEW L, NEW M, DOMAIN M = DOMAIN L,
           \A i \in DOMAIN L : SameKind(L[i], M[i]),
           NEW a, NEW b, NEW oldest, NEW latest, NEW undos,
           LineOK(L, a, b, oldest, latest, undos)
    PROVE  LineOK(M, a, b, oldest, latest, undos)
<1>2. \A i \in DOMAIN L : SyncAfter(L, i) <=> SyncAfter(M, i)
  BY DEF SyncAfter, SameKind
<1>3. SyncsExact(M, a + 1, b)
  BY DEF LineOK, SyncsExact, SameKind
<1>4. ActionsExact(M, oldest, latest)
  BY <1>2 DEF LineOK, ActionsExact, SameKind
<1>5. UndosExact(M, oldest, latest, undos)
  BY <1>2 DEF LineOK, UndosExact, SameKind
<1> QED BY <1>3, <1>4, <1>5 DEF LineOK

-----------------------------------------------------------------------------
(***************************************************************************)
(* A message leaves the line: M is L without the position p.               *)
(***************************************************************************)
LEMMA OtherLeaves ==
    ASSUME NEW L, NEW M, NEW p, Without(L, M, p), IsOther(L[p]),
           NEW a, NEW b, NEW oldest, NEW latest, NEW undos
    PROVE  LineOK(L, a, b, oldest, latest, undos) <=> LineOK(M, a, b, oldest, latest, undos)
<1> USE DEF Without
<1>1. \A i : SyncAfter(L, i) <=> SyncAfter(M, i)
  BY DEF SyncAfter, IsOther
<1>2. SyncsExact(L, a + 1, b) <=> SyncsExact(M, a + 1, b)
  BY DEF SyncsExact, IsOther
<1>3. ActionsExact(L, oldest, latest) <=> ActionsExact(M, oldest, latest)
  BY <1>1 DEF ActionsExact, IsOther
<1>4. UndosExact(L, oldest, latest, undos) <=> UndosExact(M, oldest, latest, undos)
  BY <1>1 DEF UndosExact, IsOther
<1> QED BY <1>2, <1>3, <1>4 DEF LineOK

\* While no sync is in flight, the first own action is the oldest unconfirmed one.
LEMMA ActionLeaves ==
    ASSUME NEW L, NEW M, NEW p, Without(L, M, p), \A i \in DOMAIN M : p < i,
           NEW a \in Nat, NEW oldest \in Nat, NEW latest \in Nat, NEW undos,
           IsAct(L[p]), LineOK(L, a, a, oldest, latest, undos)
    PROVE  /\ oldest < latest
           /\ L[p].id = OwnId(oldest + 1)
           /\ LineOK(M, a, a, oldest + 1, latest, undos)
<1> USE DEF Without
<1>0. SyncsExact(L, a + 1, a) /\ ActionsExact(L, oldest, latest)
      /\ UndosExact(L, oldest, latest, undos)
  BY DEF LineOK
<1>1. \A i \in DOMAIN L : ~IsSyn(L[i])
  BY <1>0 DEF SyncsExact
<1>2. \A i \in DOMAIN L : ~SyncAfter(L, i) /\ ~SyncAfter(M, i)
  BY <1>1 DEF SyncAfter
<1>3. \A i \in DOMAIN L : IsAct(L[i]) => /\ IsOwn(L[i].id, latest)
                                         /\ L[i].id.n > oldest
  BY <1>0, <1>2 DEF ActionsExact, IsOwn
<1>4. L[p].id.n \in 1 .. latest /\ L[p].id = OwnId(L[p].id.n) /\ L[p].id.n > oldest
  BY <1>3 DEF IsOwn
<1>5. L[p].id.n = oldest + 1
  <2>1. PICK i \in DOMAIN L : IsAct(L[i]) /\ L[i].id = OwnId(oldest + 1)
    BY <1>0, <1>4 DEF ActionsExact
  <2>2. L[i].id.n = oldest + 1
    BY <2>1 DEF OwnId
  <2>3. i # p => L[p].id.n < L[i].id.n
    BY <1>0, <2>1 DEF ActionsExact
  <2> QED BY <1>4, <2>2, <2>3
<1>6. SyncsExact(M, a + 1, a)
  BY <1>1 DEF SyncsExact
<1>7. ActionsExact(M, oldest + 1, latest)
  <2>1. \A i \in DOMAIN M : IsAct(M[i]) => /\ IsOwn(M[i].id, latest)
                                           /\ ~(M[i].id.n <= oldest + 1)
    BY <1>0, <1>3, <1>5 DEF ActionsExact, IsOwn
  <2>2. \A n \in oldest + 1 + 1 .. latest :
           \E i \in DOMAIN M : IsAct(M[i]) /\ M[i].id = OwnId(n)
    BY <1>0, <1>5 DEF ActionsExact, OwnId
  <2>3. \A i, j \in DOMAIN M :
            i < j /\ IsAct(M[i]) /\ IsAct(M[j]) => M[i].id.n < M[j].id.n
    BY <1>0 DEF ActionsExact
  <2> QED BY <1>2, <2>1, <2>2, <2>3 DEF ActionsExact
<1>8. UndosExact(M, oldest + 1, latest, undos)
  <2>1. \A i \in DOMAIN M : IsUnd(M[i]) => IsOwn(M[i].id, latest) /\ M[i].id \in undos
    BY <1>0, <1>2 DEF UndosExact
  <2>2. ASSUME NEW i \in DOMAIN M, IsUnd(M[i]), M[i].id.n > oldest + 1
        PROVE  \E j \in DOMAIN M : j < i /\ IsAct(M[j]) /\ M[j].id = M[i].id
    <3>1. M[i].id.n \in Nat
      BY <2>1, <2>2 DEF IsOwn
    <3> QED BY <1>0, <1>5, <2>2, <3>1 DEF UndosExact
  <2>3. \A i, j \in DOMAIN M :
            i < j /\ IsUnd(M[i]) /\ IsUnd(M[j]) => M[i].id # M[j].id
    BY <1>0, <1>2 DEF UndosExact
  <2> QED BY <2>1, <2>2, <2>3 DEF UndosExact
<1> QED BY <1>4, <1>5, <1>6, <1>7, <1>8 DEF LineOK

\* While no sync is in flight, an undo's confirmation comes after its action's.
LEMMA UndoLeaves ==
    ASSUME NEW L, NEW M, NEW p, Without(L, M, p), \A i \in DOMAIN M : p < i,
           NEW a \in Nat, NEW oldest \in Nat, NEW latest \in Nat, NEW undos,
           IsUnd(L[p]), LineOK(L, a, a, oldest, latest, undos)
    PROVE  /\ IsOwn(L[p].id, oldest) /\ L[p].id \in undos
           /\ LineOK(M, a, a, oldest, latest, undos \ {L[p].id})
<1> USE DEF Without
<1>0. SyncsExact(L, a + 1, a) /\ ActionsExact(L, oldest, latest)
      /\ UndosExact(L, oldest, latest, undos)
  BY DEF LineOK
<1>1. \A i \in DOMAIN L : ~IsSyn(L[i])
  BY <1>0 DEF SyncsExact
<1>2. \A i \in DOMAIN L : ~SyncAfter(L, i) /\ ~SyncAfter(M, i)
  BY <1>1 DEF SyncAfter
<1>3. ~IsAct(L[p])
  BY Kinds
<1>4. IsOwn(L[p].id, oldest) /\ L[p].id \in undos
  <2>1. IsOwn(L[p].id, latest) /\ L[p].id \in undos
    BY <1>0, <1>2 DEF UndosExact
  <2>2. ~(L[p].id.n > oldest)
    BY <1>0, <1>3 DEF UndosExact
  <2> QED BY <2>1, <2>2 DEF IsOwn
<1>5. SyncsExact(M, a + 1, a)
  BY <1>1 DEF SyncsExact
<1>6. ActionsExact(M, oldest, latest)
  BY <1>0, <1>2, <1>3 DEF ActionsExact
<1>7. UndosExact(M, oldest, latest, undos \ {L[p].id})
  <2>1. \A i, j \in DOMAIN L :
            i < j /\ IsUnd(L[i]) /\ IsUnd(L[j]) => L[i].id # L[j].id
    BY <1>0, <1>2 DEF UndosExact
  <2>2. \A i \in DOMAIN M : IsUnd(M[i]) => /\ IsOwn(M[i].id, latest)
                                           /\ M[i].id \in undos \ {L[p].id}
    BY <1>0, <1>2, <2>1 DEF UndosExact
  <2>3. \A i \in DOMAIN M :
            IsUnd(M[i]) /\ M[i].id.n > oldest
               => \E j \in DOMAIN M : j < i /\ IsAct(M[j]) /\ M[j].id = M[i].id
    BY <1>0, <1>3 DEF UndosExact
  <2> QED BY <2>1, <2>2, <2>3 DEF UndosExact
<1> QED BY <1>4, <1>5, <1>6, <1>7 DEF LineOK

\* While a sync is in flight, the first action or undo is of an older tournament.
LEMMA StaleLeaves ==
    ASSUME NEW L, NEW M, NEW p, Without(L, M, p), \A i \in DOMAIN M : p < i,
           NEW a \in Nat, NEW b \in Nat, a < b,
           NEW oldest \in Nat, NEW latest \in Nat, NEW undos,
           IsAct(L[p]) \/ IsUnd(L[p]), LineOK(L, a, b, oldest, latest, undos)
    PROVE  LineOK(M, a, b, oldest, latest, undos)
<1> USE DEF Without
<1>0. SyncsExact(L, a + 1, b) /\ ActionsExact(L, oldest, latest)
      /\ UndosExact(L, oldest, latest, undos)
  BY DEF LineOK
<1>1. ~IsSyn(L[p])
  BY Kinds
<1>2. SyncAfter(L, p)
  <2>1. b \in a + 1 .. b
    OBVIOUS
  <2>2. PICK i \in DOMAIN L : IsSyn(L[i])
    BY <1>0, <2>1 DEF SyncsExact
  <2> QED BY <1>1, <2>2 DEF SyncAfter
<1>3. \A i \in DOMAIN M : SyncAfter(L, i) <=> SyncAfter(M, i)
  BY <1>1 DEF SyncAfter
<1>4. SyncsExact(M, a + 1, b)
  BY <1>0, <1>1 DEF SyncsExact
<1>5. ActionsExact(M, oldest, latest)
  <2>1. ASSUME NEW n \in oldest + 1 .. latest
        PROVE  \E i \in DOMAIN M : IsAct(M[i]) /\ M[i].id = OwnId(n)
    <3>1. PICK i \in DOMAIN L : IsAct(L[i]) /\ L[i].id = OwnId(n)
      BY <1>0 DEF ActionsExact
    <3>2. L[i].id.n = n
      BY <3>1 DEF OwnId
    <3>3. i # p
      BY <1>0, <1>2, <3>1, <3>2 DEF ActionsExact
    <3> QED BY <3>1, <3>3
  <2> QED BY <1>0, <1>3, <2>1 DEF ActionsExact
<1>6. UndosExact(M, oldest, latest, undos)
  <2>1. ASSUME NEW i \in DOMAIN M, IsUnd(M[i]), M[i].id.n > oldest
        PROVE  \E j \in DOMAIN M : j < i /\ IsAct(M[j]) /\ M[j].id = M[i].id
    <3>1. PICK j \in DOMAIN L : j < i /\ IsAct(L[j]) /\ L[j].id = L[i].id
      BY <1>0, <2>1 DEF UndosExact
    <3>2. L[j].id.n \in Nat /\ L[j].id.n > oldest
      BY <1>0, <2>1, <3>1 DEF ActionsExact, IsOwn
    <3>3. j # p
      BY <1>0, <1>2, <3>1, <3>2 DEF ActionsExact
    <3> QED BY <3>1, <3>3
  <2>2. \A i \in DOMAIN M : IsUnd(M[i]) => /\ IsOwn(M[i].id, latest)
                                           /\ SyncAfter(M, i) \/ M[i].id \in undos
    BY <1>0, <1>3 DEF UndosExact
  <2>3. \A i, j \in DOMAIN M :
           i < j /\ IsUnd(M[i]) /\ IsUnd(M[j]) /\ M[i].id = M[j].id => SyncAfter(M, i)
    BY <1>0, <1>3 DEF UndosExact
  <2> QED BY <2>1, <2>2, <2>3 DEF UndosExact
<1> QED BY <1>4, <1>5, <1>6 DEF LineOK

\* The first sync is the oldest one not yet confirmed.
LEMMA SyncLeaves ==
    ASSUME NEW L, NEW M, NEW p, Without(L, M, p), \A i \in DOMAIN M : p < i,
           NEW a \in Nat, NEW b \in Nat, NEW oldest \in Nat, NEW latest \in Nat, NEW undos,
           IsSyn(L[p]), LineOK(L, a, b, oldest, latest, undos)
    PROVE  a < b /\ LineOK(M, a + 1, b, oldest, latest, undos)
<1> USE DEF Without
<1>0. SyncsExact(L, a + 1, b) /\ ActionsExact(L, oldest, latest)
      /\ UndosExact(L, oldest, latest, undos)
  BY DEF LineOK
<1>1. ~IsAct(L[p]) /\ ~IsUnd(L[p])
  BY Kinds
<1>2. L[p].n \in a + 1 .. b
  BY <1>0 DEF SyncsExact
<1>3. L[p].n = a + 1
  <2>1. PICK i \in DOMAIN L : IsSyn(L[i]) /\ L[i].n = a + 1
    BY <1>0, <1>2 DEF SyncsExact
  <2>2. i # p => L[p].n < a + 1
    BY <1>0, <2>1 DEF SyncsExact
  <2> QED BY <1>2, <2>1, <2>2
<1>4. \A i \in DOMAIN M : SyncAfter(L, i) <=> SyncAfter(M, i)
  BY DEF SyncAfter
<1>5. SyncsExact(M, a + 1 + 1, b)
  <2>1. \A i \in DOMAIN M : IsSyn(M[i]) => M[i].n \in a + 1 + 1 .. b
    BY <1>0, <1>3 DEF SyncsExact
  <2>2. \A n \in a + 1 + 1 .. b : \E i \in DOMAIN M : IsSyn(M[i]) /\ M[i].n = n
    BY <1>0, <1>3 DEF SyncsExact
  <2>3. \A i, j \in DOMAIN M : i < j /\ IsSyn(M[i]) /\ IsSyn(M[j]) => M[i].n < M[j].n
    BY <1>0 DEF SyncsExact
  <2> QED BY <2>1, <2>2, <2>3 DEF SyncsExact
<1>6. ActionsExact(M, oldest, latest)
  BY <1>0, <1>1, <1>4 DEF ActionsExact
<1>7. UndosExact(M, oldest, latest, undos)
  BY <1>0, <1>1, <1>4 DEF UndosExact
<1> QED BY <1>2, <1>5, <1>6, <1>7 DEF LineOK

-----------------------------------------------------------------------------
(***************************************************************************)
(* The UI thread posts a call: M is L with the position p at its end.      *)
(***************************************************************************)
LEMMA ActionJoins ==
    ASSUME NEW L, NEW M, NEW p, Without(M, L, p), \A i \in DOMAIN L : i < p,
           NEW a, NEW b, NEW oldest \in Nat, NEW latest \in Nat, NEW undos, oldest <= latest,
           IsAct(M[p]), M[p].id = OwnId(latest + 1),
           LineOK(L, a, b, oldest, latest, undos)
    PROVE  LineOK(M, a, b, oldest, latest + 1, undos)
<1> USE DEF Without
<1>0. SyncsExact(L, a + 1, b) /\ ActionsExact(L, oldest, latest)
      /\ UndosExact(L, oldest, latest, undos)
  BY DEF LineOK
<1>1. ~IsSyn(M[p]) /\ ~IsUnd(M[p])
  BY Kinds
<1>2. \A i \in DOMAIN L : SyncAfter(L, i) <=> SyncAfter(M, i)
  BY <1>1 DEF SyncAfter
<1>3. ~SyncAfter(M, p)
  BY DEF SyncAfter
<1>4. \A id : IsOwn(id, latest) => IsOwn(id, latest + 1) /\ id.n \in Nat /\ id.n <= latest
  BY DEF IsOwn
<1>5. M[p].id.n = latest + 1 /\ IsOwn(M[p].id, latest + 1)
  BY DEF OwnId, IsOwn
<1>6. SyncsExact(M, a + 1, b)
  BY <1>0, <1>1 DEF SyncsExact
<1>7. ActionsExact(M, oldest, latest + 1)
  <2>1. \A i \in DOMAIN M : IsAct(M[i]) => /\ IsOwn(M[i].id, latest + 1)
                                           /\ M[i].id.n <= oldest <=> SyncAfter(M, i)
    BY <1>0, <1>2, <1>3, <1>4, <1>5 DEF ActionsExact
  <2>2. ASSUME NEW n \in oldest + 1 .. latest + 1
        PROVE  \E i \in DOMAIN M : IsAct(M[i]) /\ M[i].id = OwnId(n)
    <3>1. CASE n = latest + 1
      BY <3>1
    <3>2. CASE n \in oldest + 1 .. latest
      BY <1>0, <3>2 DEF ActionsExact
    <3> QED BY <3>1, <3>2
  <2>3. \A i, j \in DOMAIN M :
            i < j /\ IsAct(M[i]) /\ IsAct(M[j]) => M[i].id.n < M[j].id.n
    BY <1>0, <1>4, <1>5 DEF ActionsExact
  <2> QED BY <2>1, <2>2, <2>3 DEF ActionsExact
<1>8. UndosExact(M, oldest, latest + 1, undos)
  <2>1. \A i \in DOMAIN M : IsUnd(M[i]) => /\ IsOwn(M[i].id, latest + 1)
                                           /\ SyncAfter(M, i) \/ M[i].id \in undos
    BY <1>0, <1>1, <1>2, <1>4 DEF UndosExact
  <2>2. \A i \in DOMAIN M :
            IsUnd(M[i]) /\ M[i].id.n > oldest
               => \E j \in DOMAIN M : j < i /\ IsAct(M[j]) /\ M[j].id = M[i].id
    BY <1>0, <1>1 DEF UndosExact
  <2>3. \A i, j \in DOMAIN M :
           i < j /\ IsUnd(M[i]) /\ IsUnd(M[j]) /\ M[i].id = M[j].id => SyncAfter(M, i)
    BY <1>0, <1>1, <1>2 DEF UndosExact
  <2> QED BY <2>1, <2>2, <2>3 DEF UndosExact
<1> QED BY <1>6, <1>7, <1>8 DEF LineOK

\* Undo is only posted for an action whose undo is not pending.
LEMMA UndoJoins ==
    ASSUME NEW L, NEW M, NEW p, Without(M, L, p), \A i \in DOMAIN L : i < p,
           NEW a, NEW b, NEW oldest \in Nat, NEW latest \in Nat, NEW undos,
           IsUnd(M[p]), IsOwn(M[p].id, latest), M[p].id \notin undos,
           LineOK(L, a, b, oldest, latest, undos)
    PROVE  LineOK(M, a, b, oldest, latest, undos \cup {M[p].id})
<1> USE DEF Without
<1>0. SyncsExact(L, a + 1, b) /\ ActionsExact(L, oldest, latest)
      /\ UndosExact(L, oldest, latest, undos)
  BY DEF LineOK
<1>1. ~IsSyn(M[p]) /\ ~IsAct(M[p])
  BY Kinds
<1>2. \A i \in DOMAIN L : SyncAfter(L, i) <=> SyncAfter(M, i)
  BY <1>1 DEF SyncAfter
<1>3. SyncsExact(M, a + 1, b)
  BY <1>0, <1>1 DEF SyncsExact
<1>4. ActionsExact(M, oldest, latest)
  BY <1>0, <1>1, <1>2 DEF ActionsExact
<1>5. UndosExact(M, oldest, latest, undos \cup {M[p].id})
  <2>1. \A i \in DOMAIN M :
            IsUnd(M[i]) => /\ IsOwn(M[i].id, latest)
                           /\ SyncAfter(M, i) \/ M[i].id \in undos \cup {M[p].id}
    BY <1>0, <1>2 DEF UndosExact
  <2>2. M[p].id.n > oldest => \E j \in DOMAIN L : IsAct(L[j]) /\ L[j].id = M[p].id
    BY <1>0 DEF ActionsExact, IsOwn
  <2>3. \A i \in DOMAIN M :
            IsUnd(M[i]) /\ M[i].id.n > oldest
               => \E j \in DOMAIN M : j < i /\ IsAct(M[j]) /\ M[j].id = M[i].id
    BY <1>0, <2>2 DEF UndosExact
  <2>4. \A i, j \in DOMAIN M :
           i < j /\ IsUnd(M[i]) /\ IsUnd(M[j]) /\ M[i].id = M[j].id => SyncAfter(M, i)
    BY <1>0, <1>2 DEF UndosExact
  <2> QED BY <2>1, <2>3, <2>4 DEF UndosExact
<1> QED BY <1>3, <1>4, <1>5 DEF LineOK

\* A sync makes everything posted before it stale.
LEMMA SyncJoins ==
    ASSUME NEW L, NEW M, NEW p, Without(M, L, p), \A i \in DOMAIN L : i < p,
           NEW a \in Nat, NEW b \in Nat, a <= b,
           NEW oldest \in Nat, NEW latest \in Nat, NEW undos,
           IsSyn(M[p]), M[p].n = b + 1,
           LineOK(L, a, b, oldest, latest, undos)
    PROVE  LineOK(M, a, b + 1, latest, latest, {})
<1> USE DEF Without
<1>0. SyncsExact(L, a + 1, b) /\ ActionsExact(L, oldest, latest)
      /\ UndosExact(L, oldest, latest, undos)
  BY DEF LineOK
<1>1. ~IsAct(M[p]) /\ ~IsUnd(M[p])
  BY Kinds
<1>2. \A i \in DOMAIN L : SyncAfter(M, i)
  BY DEF SyncAfter
<1>3. SyncsExact(M, a + 1, b + 1)
  <2>1. \A i \in DOMAIN M : IsSyn(M[i]) => M[i].n \in a + 1 .. b + 1
    BY <1>0 DEF SyncsExact
  <2>2. ASSUME NEW n \in a + 1 .. b + 1
        PROVE  \E i \in DOMAIN M : IsSyn(M[i]) /\ M[i].n = n
    <3>1. CASE n = b + 1
      BY <3>1
    <3>2. CASE n \in a + 1 .. b
      BY <1>0, <3>2 DEF SyncsExact
    <3> QED BY <3>1, <3>2
  <2>3. \A i, j \in DOMAIN M : i < j /\ IsSyn(M[i]) /\ IsSyn(M[j]) => M[i].n < M[j].n
    BY <1>0 DEF SyncsExact
  <2> QED BY <2>1, <2>2, <2>3 DEF SyncsExact
<1>4. ActionsExact(M, latest, latest)
  BY <1>0, <1>1, <1>2 DEF ActionsExact, IsOwn
<1>5. UndosExact(M, latest, latest, {})
  BY <1>0, <1>1, <1>2 DEF UndosExact, IsOwn
<1> QED BY <1>3, <1>4, <1>5 DEF LineOK

-----------------------------------------------------------------------------
(***************************************************************************)
(* The line as the queue u of signals before the queue w of calls.         *)
(***************************************************************************)
LEMMA QueuePositions ==
    ASSUME NEW S, NEW u \in Seq(S), NEW w \in Seq(S)
    PROVE  /\ DOMAIN u = 1 .. Len(u) /\ DOMAIN w = 1 .. Len(w)
           /\ Len(u) \in Nat /\ Len(w) \in Nat
           /\ DOMAIN (u \o w) = 1 .. Len(u) + Len(w)
           /\ \A i \in 1 .. Len(u) : (u \o w)[i] = u[i]
           /\ \A i \in Len(u) + 1 .. Len(u) + Len(w) : (u \o w)[i] = w[i - Len(u)]
BY LenProperties, ConcatProperties

\* The line without its position p, as Tail and the worker close the gap.
LEMMA GapCloses ==
    ASSUME NEW L, NEW M, NEW N, NEW k, NEW p, GapClosed(L, M, k, p), Without(L, N, p),
           NEW a, NEW b, NEW oldest, NEW latest, NEW undos
    PROVE  LineOK(N, a, b, oldest, latest, undos) <=> LineOK(M, a, b, oldest, latest, undos)
<1> USE DEF GapClosed, Without
<1> DEFINE g == [i \in 1 .. k |-> IF i < p THEN i ELSE i + 1]
           h == [i \in (1 .. k + 1) \ {p} |-> IF i < p THEN i ELSE i - 1]
<1>1. DOMAIN N = (1 .. k + 1) \ {p} /\ DOMAIN M = 1 .. k
  OBVIOUS
<1>2. /\ g \in [DOMAIN M -> DOMAIN N]
      /\ \A i, j \in DOMAIN M : i < j <=> g[i] < g[j]
      /\ \A i \in DOMAIN M : M[i] = N[g[i]]
  OBVIOUS
<1>3. \A j \in DOMAIN N : \E i \in DOMAIN M : g[i] = j
  <2> SUFFICES ASSUME NEW j \in (1 .. k + 1) \ {p}
               PROVE  h[j] \in 1 .. k /\ g[h[j]] = j
    OBVIOUS
  <2> QED OBVIOUS
<1>4. /\ h \in [DOMAIN N -> DOMAIN M]
      /\ \A i, j \in DOMAIN N : i < j <=> h[i] < h[j]
  OBVIOUS
<1>5. \A i \in DOMAIN N : g[h[i]] = i
  OBVIOUS
<1>6. \A i \in DOMAIN N : N[i] = M[h[i]]
  BY <1>2, <1>4, <1>5
<1>7. \A j \in DOMAIN M : \E i \in DOMAIN N : h[i] = j
  <2> SUFFICES ASSUME NEW j \in 1 .. k
               PROVE  g[j] \in (1 .. k + 1) \ {p} /\ h[g[j]] = j
    OBVIOUS
  <2> QED OBVIOUS
<1> HIDE DEF g, h, GapClosed, Without
<1>8. LineOK(N, a, b, oldest, latest, undos) => LineOK(M, a, b, oldest, latest, undos)
  BY <1>2, <1>3, LineMoved
<1>9. LineOK(M, a, b, oldest, latest, undos) => LineOK(N, a, b, oldest, latest, undos)
  BY <1>4, <1>6, <1>7, LineMoved
<1> QED BY <1>8, <1>9

\* The UI thread takes the first signal off.
FirstTaken(u, w, N) ==
    /\ Without(u \o w, N, 1)
    /\ \A i \in DOMAIN N : 1 < i
    /\ (u \o w)[1] = Head(u)

\* The line after the first signal is taken is in order if the line without its
\* first position is.
LEMMA SignalTaken ==
    ASSUME NEW S, NEW u \in Seq(S), NEW w \in Seq(S), u # <<>>
    PROVE  /\ \E N : FirstTaken(u, w, N)
           /\ \A N, a, b, oldest, latest, undos :
                 /\ FirstTaken(u, w, N) /\ LineOK(N, a, b, oldest, latest, undos)
                 => LineOK(Tail(u) \o w, a, b, oldest, latest, undos)
<1> DEFINE L == u \o w
           M == Tail(u) \o w
           k == Len(u) + Len(w) - 1
<1>1. Len(u) > 0 /\ Tail(u) \in Seq(S) /\ Len(Tail(u)) = Len(u) - 1 /\ Head(u) = u[1]
      /\ \A i \in 1 .. Len(u) - 1 : Tail(u)[i] = u[i + 1]
  BY HeadTailProperties, LenProperties, EmptySeq
<1>2. DOMAIN L = 1 .. k + 1 /\ L[1] = Head(u) /\ k \in Nat
  BY <1>1, QueuePositions
<1>3. DOMAIN M = 1 .. k
  BY <1>1, QueuePositions
<1>4. ASSUME NEW i \in 1 .. k
      PROVE  M[i] = L[IF i < 1 THEN i ELSE i + 1]
  <2>1. CASE i \in 1 .. Len(u) - 1
    <3>1. M[i] = Tail(u)[i]
      BY <1>1, <2>1, QueuePositions
    <3>2. L[i + 1] = u[i + 1]
      BY <1>1, <2>1, QueuePositions
    <3> QED BY <1>1, <2>1, <3>1, <3>2
  <2>2. CASE i \in Len(u) .. Len(u) + Len(w) - 1
    <3>1. M[i] = w[i - (Len(u) - 1)]
      BY <1>1, <2>2, QueuePositions
    <3>2. L[i + 1] = w[i + 1 - Len(u)]
      BY <1>1, <2>2, QueuePositions
    <3> QED BY <2>2, <3>1, <3>2, QueuePositions
  <2> QED BY <2>1, <2>2, QueuePositions
<1>5. GapClosed(L, M, k, 1)
  BY <1>2, <1>3, <1>4 DEF GapClosed
<1> DEFINE N == [i \in DOMAIN L \ {1} |-> L[i]]
<1>6. FirstTaken(u, w, N)
  BY <1>2 DEF FirstTaken, Without
<1>7. ASSUME NEW K, NEW a, NEW b, NEW oldest, NEW latest, NEW undos,
             FirstTaken(u, w, K), LineOK(K, a, b, oldest, latest, undos)
      PROVE  LineOK(M, a, b, oldest, latest, undos)
  <2>1. Without(L, K, 1)
    BY <1>7 DEF FirstTaken
  <2> HIDE DEF k, L, M
  <2> QED BY <1>5, <1>7, <2>1, GapCloses
<1> HIDE DEF N
<1> QED BY <1>6, <1>7

\* The worker takes the first call off without an answer.
LEMMA CallTaken ==
    ASSUME NEW S, NEW u \in Seq(S), NEW w \in Seq(S), w # <<>>, IsOther(Head(w)),
           NEW a, NEW b, NEW oldest, NEW latest, NEW undos,
           LineOK(u \o w, a, b, oldest, latest, undos)
    PROVE  LineOK(u \o Tail(w), a, b, oldest, latest, undos)
<1> DEFINE L == u \o w
           M == u \o Tail(w)
           k == Len(u) + Len(w) - 1
           p == Len(u) + 1
<1>1. Len(w) > 0 /\ Tail(w) \in Seq(S) /\ Len(Tail(w)) = Len(w) - 1 /\ Head(w) = w[1]
      /\ \A i \in 1 .. Len(w) - 1 : Tail(w)[i] = w[i + 1]
  BY HeadTailProperties, LenProperties, EmptySeq
<1>2. DOMAIN L = 1 .. k + 1 /\ L[p] = Head(w) /\ k \in Nat /\ p \in 1 .. k + 1
  BY <1>1, QueuePositions
<1>3. DOMAIN M = 1 .. k
  BY <1>1, QueuePositions
<1>4. ASSUME NEW i \in 1 .. k
      PROVE  M[i] = L[IF i < p THEN i ELSE i + 1]
  <2>1. CASE i \in 1 .. Len(u)
    <3>1. M[i] = u[i]
      BY <1>1, <2>1, QueuePositions
    <3>2. L[i] = u[i]
      BY <2>1, QueuePositions
    <3> QED BY <2>1, <3>1, <3>2, QueuePositions
  <2>2. CASE i \in Len(u) + 1 .. Len(u) + Len(w) - 1
    <3>1. M[i] = Tail(w)[i - Len(u)]
      BY <1>1, <2>2, QueuePositions
    <3>2. L[i + 1] = w[i + 1 - Len(u)]
      BY <1>1, <2>2, QueuePositions
    <3>3. i - Len(u) \in 1 .. Len(w) - 1 /\ i + 1 - Len(u) = i - Len(u) + 1
      BY <2>2, QueuePositions
    <3> QED BY <1>1, <2>2, <3>1, <3>2, <3>3, QueuePositions
  <2> QED BY <2>1, <2>2, QueuePositions
<1> DEFINE N == [i \in DOMAIN L \ {p} |-> L[i]]
<1>5. GapClosed(L, M, k, p)
  BY <1>2, <1>3, <1>4 DEF GapClosed
<1>6. Without(L, N, p)
  BY <1>2 DEF Without
<1> HIDE DEF k, L, M, N, p
<1>7. LineOK(N, a, b, oldest, latest, undos) <=> LineOK(M, a, b, oldest, latest, undos)
  BY <1>5, <1>6, GapCloses
<1>8. LineOK(L, a, b, oldest, latest, undos) <=> LineOK(N, a, b, oldest, latest, undos)
  BY <1>2, <1>6, OtherLeaves
<1> QED BY <1>7, <1>8 DEF L, M

\* A participant's action joins the signals, before the calls.
LEMMA SignalInserted ==
    ASSUME NEW S, NEW u \in Seq(S), NEW w \in Seq(S), NEW e \in S, IsOther(e),
           NEW a, NEW b, NEW oldest, NEW latest, NEW undos,
           LineOK(u \o w, a, b, oldest, latest, undos)
    PROVE  LineOK(Append(u, e) \o w, a, b, oldest, latest, undos)
<1> DEFINE L == Append(u, e) \o w
           M == u \o w
           k == Len(u) + Len(w)
           p == Len(u) + 1
           N == [i \in DOMAIN L \ {p} |-> L[i]]
<1>1. Append(u, e) \in Seq(S) /\ Len(Append(u, e)) = Len(u) + 1
      /\ Append(u, e)[Len(u) + 1] = e
      /\ \A i \in 1 .. Len(u) : Append(u, e)[i] = u[i]
  BY AppendProperties
<1>2. DOMAIN L = 1 .. k + 1 /\ L[p] = e /\ k \in Nat /\ p \in 1 .. k + 1
  BY <1>1, QueuePositions
<1>3. DOMAIN M = 1 .. k
  BY QueuePositions
<1>4. ASSUME NEW i \in 1 .. k
      PROVE  M[i] = L[IF i < p THEN i ELSE i + 1]
  <2>1. CASE i \in 1 .. Len(u)
    <3>1. M[i] = u[i]
      BY <2>1, QueuePositions
    <3>2. L[i] = Append(u, e)[i]
      BY <1>1, <2>1, QueuePositions
    <3> QED BY <1>1, <2>1, <3>1, <3>2, QueuePositions
  <2>2. CASE i \in Len(u) + 1 .. Len(u) + Len(w)
    <3>1. M[i] = w[i - Len(u)]
      BY <2>2, QueuePositions
    <3>2. L[i + 1] = w[i + 1 - (Len(u) + 1)]
      BY <1>1, <2>2, QueuePositions
    <3> QED BY <2>2, <3>1, <3>2, QueuePositions
  <2> QED BY <2>1, <2>2, QueuePositions
<1>5. GapClosed(L, M, k, p)
  BY <1>2, <1>3, <1>4 DEF GapClosed
<1>6. Without(L, N, p)
  BY <1>2 DEF Without
<1> HIDE DEF k, L, M, N, p
<1>7. LineOK(N, a, b, oldest, latest, undos) <=> LineOK(M, a, b, oldest, latest, undos)
  BY <1>5, <1>6, GapCloses
<1>8. LineOK(L, a, b, oldest, latest, undos) <=> LineOK(N, a, b, oldest, latest, undos)
  BY <1>2, <1>6, OtherLeaves
<1> QED BY <1>7, <1>8 DEF L, M

\* The worker answers the first call.
LEMMA CallAnswered ==
    ASSUME NEW S, NEW u \in Seq(S), NEW w \in Seq(S), NEW e \in S, w # <<>>,
           SameKind(Head(w), e),
           NEW a, NEW b, NEW oldest, NEW latest, NEW undos,
           LineOK(u \o w, a, b, oldest, latest, undos)
    PROVE  LineOK(Append(u, e) \o Tail(w), a, b, oldest, latest, undos)
<1> DEFINE L == u \o w
           M == Append(u, e) \o Tail(w)
           p == Len(u) + 1
<1>1. Append(u, e) \in Seq(S) /\ Len(Append(u, e)) = Len(u) + 1
      /\ Append(u, e)[Len(u) + 1] = e
      /\ \A i \in 1 .. Len(u) : Append(u, e)[i] = u[i]
  BY AppendProperties
<1>2. Len(w) > 0 /\ Tail(w) \in Seq(S) /\ Len(Tail(w)) = Len(w) - 1 /\ Head(w) = w[1]
      /\ \A i \in 1 .. Len(w) - 1 : Tail(w)[i] = w[i + 1]
  BY HeadTailProperties, LenProperties, EmptySeq
<1>3. DOMAIN L = 1 .. Len(u) + Len(w) /\ L[p] = Head(w)
  BY <1>2, QueuePositions
<1>4. DOMAIN M = 1 .. Len(u) + Len(w) /\ M[p] = e
  BY <1>1, <1>2, QueuePositions
<1>5. ASSUME NEW i \in 1 .. Len(u) + Len(w)
      PROVE  SameKind(L[i], M[i])
  <2>1. CASE i \in 1 .. Len(u)
    <3>1. M[i] = Append(u, e)[i]
      BY <1>1, <1>2, <2>1, QueuePositions
    <3>2. L[i] = u[i]
      BY <2>1, QueuePositions
    <3>3. M[i] = L[i]
      BY <1>1, <2>1, <3>1, <3>2
    <3> QED BY <3>3 DEF SameKind
  <2>2. CASE i = p
    BY <1>3, <1>4, <2>2
  <2>3. CASE i \in Len(u) + 2 .. Len(u) + Len(w)
    <3>1. M[i] = Tail(w)[i - (Len(u) + 1)]
      BY <1>1, <1>2, <2>3, QueuePositions
    <3>2. L[i] = w[i - Len(u)]
      BY <2>3, QueuePositions
    <3>3. i - (Len(u) + 1) \in 1 .. Len(w) - 1 /\ i - Len(u) = i - (Len(u) + 1) + 1
      BY <2>3, QueuePositions
    <3>4. M[i] = L[i]
      BY <1>2, <3>1, <3>2, <3>3
    <3> QED BY <3>4 DEF SameKind
  <2> QED BY <2>1, <2>2, <2>3, QueuePositions
<1> HIDE DEF L, M
<1>6. LineOK(M, a, b, oldest, latest, undos)
  BY <1>3, <1>4, <1>5, LineAnswered DEF L
<1> QED BY <1>6 DEF M

\* The UI thread posts a call.
LEMMA CallPosted ==
    ASSUME NEW S, NEW u \in Seq(S), NEW w \in Seq(S), NEW m \in S
    PROVE  LET M == u \o Append(w, m)
               p == Len(u) + Len(w) + 1
           IN  Without(M, u \o w, p) /\ (\A i \in DOMAIN (u \o w) : i < p) /\ M[p] = m
<1> DEFINE L == u \o w
           M == u \o Append(w, m)
           p == Len(u) + Len(w) + 1
<1>1. Append(w, m) \in Seq(S) /\ Len(Append(w, m)) = Len(w) + 1
      /\ Append(w, m)[Len(w) + 1] = m
      /\ \A i \in 1 .. Len(w) : Append(w, m)[i] = w[i]
  BY AppendProperties
<1>2. DOMAIN L = 1 .. Len(u) + Len(w) /\ DOMAIN M = 1 .. Len(u) + Len(w) + 1
  BY <1>1, QueuePositions
<1>3. M[p] = m
  BY <1>1, QueuePositions
<1>4. ASSUME NEW i \in 1 .. Len(u) + Len(w)
      PROVE  M[i] = L[i]
  <2>1. CASE i \in 1 .. Len(u)
    BY <1>1, <2>1, QueuePositions
  <2>2. CASE i \in Len(u) + 1 .. Len(u) + Len(w)
    <3>1. M[i] = Append(w, m)[i - Len(u)]
      BY <1>1, <2>2, QueuePositions
    <3>2. L[i] = w[i - Len(u)] /\ i - Len(u) \in 1 .. Len(w)
      BY <2>2, QueuePositions
    <3> QED BY <1>1, <3>1, <3>2
  <2> QED BY <2>1, <2>2, QueuePositions
<1>5. Without(M, L, p) /\ \A i \in DOMAIN L : i < p
  BY <1>2, <1>4, QueuePositions DEF Without
<1> QED BY <1>3, <1>5

-----------------------------------------------------------------------------
(***************************************************************************)
(* The same for queues of messages of any kind.                            *)
(***************************************************************************)
LEMMA QueueOf ==
    ASSUME NEW S, NEW q \in Seq(S)
    PROVE  IsSeq(q)
<1>1. DOMAIN q = 1 .. Len(q) /\ Len(q) \in Nat
  BY LenProperties
<1>2. q \in [1 .. Len(q) -> Range(q)]
  BY <1>1 DEF Range
<1> QED BY <1>1, <1>2, IsASeq DEF IsSeq

\* A queue is a sequence over any set that holds its messages.
LEMMA QueueIn ==
    ASSUME NEW q, IsSeq(q), NEW S, Range(q) \subseteq S
    PROVE  q \in Seq(S)
<1>1. q \in Seq(Range(q))
  BY DEF IsSeq
<1>2. DOMAIN q = 1 .. Len(q) /\ Len(q) \in Nat /\ \A i \in 1 .. Len(q) : q[i] \in Range(q)
  BY <1>1, LenProperties, ElementOfSeq
<1>3. q \in [1 .. Len(q) -> S]
  BY <1>1, <1>2, LenProperties
<1> QED BY <1>2, <1>3, IsASeq

\* Appending a message adds one position.
LEMMA QueueAppend ==
    ASSUME NEW q, IsSeq(q), NEW m
    PROVE  /\ IsSeq(Append(q, m))
           /\ DOMAIN Append(q, m) = DOMAIN q \cup {Len(q) + 1}
           /\ \A i \in DOMAIN q : Append(q, m)[i] = q[i]
           /\ Append(q, m)[Len(q) + 1] = m
<1> DEFINE S == Range(q) \cup {m}
<1>1. q \in Seq(S) /\ m \in S
  BY QueueIn
<1> HIDE DEF S
<1>2. /\ Append(q, m) \in Seq(S) /\ DOMAIN Append(q, m) = 1 .. Len(q) + 1
      /\ DOMAIN q = 1 .. Len(q) /\ Len(q) \in Nat
      /\ \A i \in 1 .. Len(q) : Append(q, m)[i] = q[i]
      /\ Append(q, m)[Len(q) + 1] = m
  BY <1>1, AppendProperties, LenProperties
<1>3. IsSeq(Append(q, m))
  BY <1>2, QueueOf
<1> QED BY <1>2, <1>3

\* Taking the first message off moves the others one position.
LEMMA QueueTail ==
    ASSUME NEW q, IsSeq(q), q # <<>>
    PROVE  /\ IsSeq(Tail(q))
           /\ \A i \in DOMAIN Tail(q) : i + 1 \in DOMAIN q /\ Tail(q)[i] = q[i + 1]
           /\ 1 \in DOMAIN q /\ Head(q) = q[1]
<1> DEFINE S == Range(q)
<1>1. q \in Seq(S)
  BY DEF IsSeq
<1> HIDE DEF S
<1>2. /\ Tail(q) \in Seq(S) /\ DOMAIN Tail(q) = 1 .. Len(q) - 1 /\ Head(q) = q[1]
      /\ DOMAIN q = 1 .. Len(q) /\ Len(q) \in Nat /\ Len(q) > 0
      /\ \A i \in 1 .. Len(q) - 1 : Tail(q)[i] = q[i + 1]
  BY <1>1, HeadTailProperties, LenProperties, EmptySeq
<1>3. IsSeq(Tail(q))
  BY <1>2, QueueOf
<1> QED BY <1>2, <1>3

\* CallAnswered, for queues that carry no message type of their own.
LEMMA LineAnswer ==
    ASSUME NEW u, IsSeq(u), NEW w, IsSeq(w), w # <<>>, NEW e, SameKind(Head(w), e),
           NEW a, NEW b, NEW oldest, NEW latest, NEW undos,
           LineOK(u \o w, a, b, oldest, latest, undos)
    PROVE  LineOK(Append(u, e) \o Tail(w), a, b, oldest, latest, undos)
<1> DEFINE S == Range(u) \cup Range(w) \cup {e}
<1>1. u \in Seq(S) /\ w \in Seq(S) /\ e \in S
  BY QueueIn
<1> QED BY <1>1, CallAnswered

\* CallTaken, likewise.
LEMMA LineSilence ==
    ASSUME NEW u, IsSeq(u), NEW w, IsSeq(w), w # <<>>, IsOther(Head(w)),
           NEW a, NEW b, NEW oldest, NEW latest, NEW undos,
           LineOK(u \o w, a, b, oldest, latest, undos)
    PROVE  LineOK(u \o Tail(w), a, b, oldest, latest, undos)
<1> DEFINE S == Range(u) \cup Range(w)
<1>1. u \in Seq(S) /\ w \in Seq(S)
  BY QueueIn
<1> QED BY <1>1, CallTaken

\* SignalInserted, likewise.
LEMMA LineSignal ==
    ASSUME NEW u, IsSeq(u), NEW w, IsSeq(w), NEW e, IsOther(e),
           NEW a, NEW b, NEW oldest, NEW latest, NEW undos,
           LineOK(u \o w, a, b, oldest, latest, undos)
    PROVE  LineOK(Append(u, e) \o w, a, b, oldest, latest, undos)
<1> DEFINE S == Range(u) \cup Range(w) \cup {e}
<1>1. u \in Seq(S) /\ w \in Seq(S) /\ e \in S
  BY QueueIn
<1> QED BY <1>1, SignalInserted

\* CallPosted, likewise.
LEMMA LinePost ==
    ASSUME NEW u, IsSeq(u), NEW w, IsSeq(w), NEW m
    PROVE  LET M == u \o Append(w, m)
               p == Len(u) + Len(w) + 1
           IN  Without(M, u \o w, p) /\ (\A i \in DOMAIN (u \o w) : i < p) /\ M[p] = m
<1> DEFINE S == Range(u) \cup Range(w) \cup {m}
<1>1. u \in Seq(S) /\ w \in Seq(S) /\ m \in S
  BY QueueIn
<1> HIDE DEF S
<1> QED BY <1>1, CallPosted

\* SignalTaken, likewise.
LEMMA LineTake ==
    ASSUME NEW u, IsSeq(u), NEW w, IsSeq(w), u # <<>>
    PROVE  /\ \E N : FirstTaken(u, w, N)
           /\ \A N, a, b, oldest, latest, undos :
                 /\ FirstTaken(u, w, N) /\ LineOK(N, a, b, oldest, latest, undos)
                 => LineOK(Tail(u) \o w, a, b, oldest, latest, undos)
<1> DEFINE S == Range(u) \cup Range(w)
<1>1. u \in Seq(S) /\ w \in Seq(S)
  BY QueueIn
<1> HIDE DEF S
<1> QED BY <1>1, SignalTaken

=============================================================================
