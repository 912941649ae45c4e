------------------------- MODULE ObjectStoreProofs --------------------------
(***************************************************************************)
(* Proofs about the object store, for any number of ids, names and slow    *)
(* requests, and calls nested to any depth.                                *)
(*                                                                         *)
(* What hides an object is its entries in the bin, its folder and, for a   *)
(* shortcut, its target.  The invariant weighs every object: its level,    *)
(* less that of its folder and one for a hidden target, is the number of   *)
(* its entries (or at least that, where objects are restored to folders    *)
(* other than theirs).  The methods that call themselves are followed      *)
(* through the middle of a transaction, where objects are missing and      *)
(* levels disagree: there the store is only Sound, and _recycle hides      *)
(* exactly what is below the object and the shortcuts to it, _undelete     *)
(* shows it, and _delete removes it, by induction on the calls that may    *)
(* still be nested.                                                        *)
(***************************************************************************)
EXTENDS ObjectStore, TLAPS, WellFoundedInduction, FiniteSetTheorems

\* Induction over the natural numbers, for a set of them.
LEMMA SetInduction ==
  ASSUME NEW T, 0 \in T, \A n \in T \cap Nat : n + 1 \in T
  PROVE  Nat \subseteq T
<1> SUFFICES ASSUME Nat \ T # {} PROVE FALSE
  OBVIOUS
<1> DEFINE R == OpToRel(<, Nat)
<1>1. IsWellFoundedOn(R, Nat)
  BY Zenon, NatLessThanWellFounded
<1>2. \A x, y \in Nat : y < x => <<y, x>> \in R
  BY Zenon DEF OpToRel
<1> HIDE DEF R
<1>3. PICK x \in Nat \ T : \A y \in Nat \ T : ~ (<<y, x>> \in R)
  BY <1>1, WFMin
<1>4. x - 1 \in Nat \cap T
  <2>1. x - 1 \in Nat
    BY <1>3
  <2>2. <<x - 1, x>> \in R
    BY <1>2, <1>3, <2>1
  <2> QED BY <1>3, <2>1, <2>2
<1> QED BY <1>3, <1>4

\* A function on the natural numbers defined by its first value and a step.
Iterates(f, M, b, G) ==
  /\ f \in [Nat -> M]
  /\ f[0] = b
  /\ \A n \in Nat : f[n + 1] = G[<<n + 1, f[n]>>]

\* A function defined from its value one below has the values it should.
LEMMA Iteration ==
  ASSUME NEW M, NEW b \in M, NEW G \in [Nat \X M -> M]
  PROVE  \E f : Iterates(f, M, b, G)
<1> DEFINE Approx(n, f) == /\ f \in [0 .. n -> M]
                           /\ f[0] = b
                           /\ \A m \in 0 .. n : m > 0 => f[m] = G[<<m, f[m - 1]>>]
<1>1. ASSUME NEW n \in Nat, NEW f, NEW g, Approx(n, f), Approx(n, g),
             NEW m \in 0 .. n
      PROVE  f[m] = g[m]
  <2> DEFINE T == {k \in Nat : k <= n => f[k] = g[k]}
  <2>1. 0 \in T
    BY <1>1
  <2>2. ASSUME NEW k \in T PROVE k + 1 \in T
    <3>1. CASE k + 1 <= n
      <4>1. f[k] = g[k] /\ k + 1 \in 0 .. n /\ k + 1 - 1 = k
        BY <2>2, <3>1
      <4>2. f[k + 1] = G[<<k + 1, f[k]>>]
        <5>1. \A i \in 0 .. n : i > 0 => f[i] = G[<<i, f[i - 1]>>]
          BY <1>1
        <5> QED BY <4>1, <5>1
      <4>3. g[k + 1] = G[<<k + 1, g[k]>>]
        <5>1. \A i \in 0 .. n : i > 0 => g[i] = G[<<i, g[i - 1]>>]
          BY <1>1
        <5> QED BY <4>1, <5>1
      <4> QED BY <4>1, <4>2, <4>3
    <3>2. CASE ~(k + 1 <= n)
      BY <3>2
    <3> QED BY <3>1, <3>2
  <2>3. Nat \subseteq T
    <3> HIDE DEF T
    <3> QED BY <2>1, <2>2, SetInduction
  <2> QED BY <2>3
<1>2. \A n \in Nat : \E f : Approx(n, f)
  <2> DEFINE T == {n \in Nat : \E f : Approx(n, f)}
  <2>1. 0 \in T
    <3>1. Approx(0, [i \in 0 .. 0 |-> b])
      OBVIOUS
    <3> QED BY <3>1
  <2>2. ASSUME NEW n \in T PROVE n + 1 \in T
    <3>1. PICK f : Approx(n, f)
      BY <2>2
    <3> DEFINE g == [i \in 0 .. n + 1 |-> IF i = n + 1 THEN G[<<n + 1, f[n]>>] ELSE f[i]]
    <3>2. f[n] \in M /\ G[<<n + 1, f[n]>>] \in M
      BY <3>1
    <3>3. g \in [0 .. n + 1 -> M]
      BY <3>1, <3>2
    <3>4. g[0] = b
      BY <3>1
    <3>5. ASSUME NEW m \in 0 .. n + 1, m > 0 PROVE g[m] = G[<<m, g[m - 1]>>]
      <4>1. CASE m = n + 1
        <5>1. m \in 0 .. n + 1 /\ m - 1 \in 0 .. n + 1 /\ m - 1 # n + 1 /\ m - 1 = n
          BY <4>1
        <5>2. g[m - 1] = f[n] /\ g[m] = G[<<n + 1, f[n]>>]
          BY <4>1, <5>1
        <5> QED BY <4>1, <5>2
      <4>2. CASE m # n + 1
        <5>1. m \in 0 .. n /\ m - 1 \in 0 .. n /\ m \in 0 .. n + 1 /\ m - 1 \in 0 .. n + 1
          BY <3>5, <4>2
        <5>2. g[m] = f[m] /\ g[m - 1] = f[m - 1]
          BY <4>2, <5>1
        <5> QED BY <3>1, <3>5, <5>1, <5>2
      <4> QED BY <4>1, <4>2
    <3> HIDE DEF g
    <3>6. Approx(n + 1, g)
      BY <3>3, <3>4, <3>5
    <3> QED BY <3>6
  <2>3. Nat \subseteq T
    <3> HIDE DEF T
    <3> QED BY <2>1, <2>2, SetInduction
  <2> QED BY <2>3
<1> DEFINE a(n) == CHOOSE f : Approx(n, f)
           h == [n \in Nat |-> a(n)[n]]
<1>3. ASSUME NEW n \in Nat PROVE Approx(n, a(n))
  BY <1>2
<1> HIDE DEF a
<1>4. h \in [Nat -> M]
  <2>1. ASSUME NEW n \in Nat PROVE a(n)[n] \in M
    BY <1>3
  <2> QED BY <2>1
<1>5. h[0] = b
  BY <1>3
<1>6. ASSUME NEW n \in Nat PROVE h[n + 1] = G[<<n + 1, h[n]>>]
  <2>1. Approx(n + 1, a(n + 1)) /\ Approx(n, a(n))
    BY <1>3
  <2>2. Approx(n, [i \in 0 .. n |-> a(n + 1)[i]])
    BY <2>1
  <2> HIDE DEF Approx
  <2>3. [i \in 0 .. n |-> a(n + 1)[i]][n] = a(n)[n]
    BY <1>1, <2>1, <2>2
  <2>4. a(n + 1)[n] = a(n)[n]
    BY <2>3
  <2> USE DEF Approx
  <2>5. a(n + 1)[n + 1] = G[<<n + 1, a(n + 1)[n]>>]
    <3>1. n + 1 \in 0 .. n + 1 /\ n + 1 > 0 /\ n + 1 - 1 = n
      OBVIOUS
    <3> QED BY <2>1, <3>1
  <2> QED BY <2>4, <2>5
<1> QED BY <1>4, <1>5, <1>6 DEF Iterates

-----------------------------------------------------------------------------
(* Objects and the database.                                               *)

\* What is stored under a free id is no object.
LEMMA NothingIsNoRecord == Nothing \notin Records
BY DEF Nothing, Records, Object, Kinds

\* A stored object is one of the records.
LEMMA StoredIsRecord ==
  ASSUME NEW s \in Transactions, NEW i \in Objects(s.db)
  PROVE  i \in Ids /\ s.db[i] \in Records
BY DEF Transactions, Objects

\* An object with another _isDeleted.
LEMMA LevelChanged ==
  ASSUME NEW r \in Records, NEW l \in Int
  PROVE  LET n == [r EXCEPT !.level = l]
         IN /\ n \in Records
            /\ n.level = l
            /\ n.id = r.id /\ n.kind = r.kind /\ n.pid = r.pid
            /\ n.name = r.name /\ n.ni = r.ni /\ n.nc = r.nc
            /\ n.shortcuts = r.shortcuts /\ n.target = r.target /\ n.ref = r.ref
BY DEF Records

\* An object with another list of shortcuts.
LEMMA ShortcutsChanged ==
  ASSUME NEW r \in Records, NEW l \in SUBSET Ids
  PROVE  LET n == [r EXCEPT !.shortcuts = l]
         IN /\ n \in Records
            /\ n.shortcuts = l
            /\ n.id = r.id /\ n.kind = r.kind /\ n.pid = r.pid
            /\ n.name = r.name /\ n.ni = r.ni /\ n.nc = r.nc
            /\ n.level = r.level /\ n.target = r.target /\ n.ref = r.ref
BY DEF Records

\* A container with another number of children.
LEMMA Counted ==
  ASSUME NEW r \in Records, NEW c, NEW n \in Int
  PROVE  LET q == Count(r, c, n)
         IN /\ q \in Records
            /\ q.id = r.id /\ q.kind = r.kind /\ q.pid = r.pid
            /\ q.name = r.name /\ q.level = r.level
            /\ q.shortcuts = r.shortcuts /\ q.target = r.target /\ q.ref = r.ref
BY DEF Records, Count

\* An exception leaves a transaction that cannot commit.
LEMMA RaiseIsTransaction ==
  ASSUME NEW s \in Transactions
  PROVE  Raise(s) \in Transactions /\ ~Raise(s).ok
BY DEF Raise, Transactions

\* What a successful _db.put_item does.
PutDone(s, item, r) ==
  /\ s.ok
  /\ r.used = s.used \cup {item.id}
  /\ r.db = [s.db EXCEPT ![item.id] = item]
  /\ item.id \in Objects(s.db) => s.db[item.id].pid = item.pid

\* _db.put_item writes the object, or raises an exception.
LEMMA PutEffect ==
  ASSUME NEW s \in Transactions, NEW item \in Records
  PROVE  /\ Put(s, item) \in Transactions
         /\ Put(s, item).ok => PutDone(s, item, Put(s, item))
<1>1. item.id \in Ids
  BY DEF Records
<1> QED BY <1>1, RaiseIsTransaction DEF Put, PutDone, Transactions, Has

\* What a successful _db.delete_item does.
EraseDone(s, item, r) ==
  /\ s.ok
  /\ r.used = s.used
  /\ r.db = [s.db EXCEPT ![item.id] = Nothing]
  /\ item.id \in Objects(s.db)
  /\ s.db[item.id].pid = item.pid

\* _db.delete_item removes the object, or raises an exception.
LEMMA EraseEffect ==
  ASSUME NEW s \in Transactions, NEW item \in Records
  PROVE  /\ Erase(s, item) \in Transactions
         /\ Erase(s, item).ok => EraseDone(s, item, Erase(s, item))
<1>1. item.id \in Ids
  BY DEF Records
<1> QED BY <1>1, RaiseIsTransaction DEF Erase, EraseDone, Transactions, Has

\* The parent must be there to be counted.
LEMMA CountInParentEffect ==
  ASSUME NEW s \in Transactions, NEW item \in Records, NEW n \in Int
  PROVE  LET r == CountInParent(s, item, n)
         IN /\ r \in Transactions
            /\ r.ok => /\ item.pid \in Objects(s.db)
                       /\ PutDone(s, Count(s.db[item.pid], item, n), r)
<1>1. CASE item.pid \in Objects(s.db)
  <2>1. s.db[item.pid] \in Records
    BY <1>1, StoredIsRecord
  <2>2. Count(s.db[item.pid], item, n) \in Records
    BY <2>1, Counted
  <2>3. CountInParent(s, item, n) = Put(s, Count(s.db[item.pid], item, n))
    BY <1>1 DEF CountInParent, With, Has
  <2> QED BY <1>1, <2>2, <2>3, PutEffect
<1>2. CASE item.pid \notin Objects(s.db)
  <2>1. CountInParent(s, item, n) = Raise(s)
    BY <1>2 DEF CountInParent, With, Has
  <2> QED BY <2>1, RaiseIsTransaction
<1> QED BY <1>1, <1>2

-----------------------------------------------------------------------------
(* A method called on the objects of a set, one by one.                    *)

\* The methods that can be called with an argument of A.
Methods(A) == [Transactions \X Records \X A -> Transactions]

\* The transaction after k keys.
InTurnAt(k, g, s, ids, method, arg, skips) ==
  IF k = 0 THEN s
  ELSE IF ~g[k - 1].ok \/ KeyOrder[k] \notin ids THEN g[k - 1]
  ELSE IF Has(g[k - 1], KeyOrder[k])
       THEN method[<<g[k - 1], g[k - 1].db[KeyOrder[k]], arg>>]
       ELSE IF skips THEN g[k - 1] ELSE Raise(g[k - 1])

\* The transactions between the calls.
Turns(f, s, ids, method, arg, skips) ==
  /\ f \in [0 .. Len(KeyOrder) -> Transactions]
  /\ \A k \in 0 .. Len(KeyOrder) :
       f[k] = InTurnAt(k, f, s, ids, method, arg, skips)
  /\ InTurn(s, ids, method, arg, skips) = f[Len(KeyOrder)]

\* Calling a method on objects in turn is an iteration over the keys.
LEMMA InTurnUnfolds ==
  ASSUME NEW A, NEW s \in Transactions, NEW ids, NEW method \in Methods(A),
         NEW arg \in A, NEW skips \in BOOLEAN
  PROVE  \E f : Turns(f, s, ids, method, arg, skips)
<1> DEFINE N == Len(KeyOrder)
           Step(k, t) == IF ~t.ok \/ KeyOrder[k] \notin ids THEN t
                         ELSE IF Has(t, KeyOrder[k])
                              THEN method[<<t, t.db[KeyOrder[k]], arg>>]
                              ELSE IF skips THEN t ELSE Raise(t)
           G == [p \in Nat \X Transactions |-> Step(p[1], p[2])]
<1>1. N \in Nat
  BY ItemOperationsAssumption
<1>2. ASSUME NEW k \in Nat, NEW t \in Transactions
      PROVE  Step(k, t) \in Transactions
  <2>1. CASE Has(t, KeyOrder[k])
    <3>1. t.db[KeyOrder[k]] \in Records
      BY <2>1, StoredIsRecord DEF Has
    <3>2. method[<<t, t.db[KeyOrder[k]], arg>>] \in Transactions
      BY <3>1 DEF Methods
    <3> QED BY <2>1, <3>2
  <2>2. CASE ~Has(t, KeyOrder[k])
    BY <2>2, RaiseIsTransaction
  <2> QED BY <2>1, <2>2
<1> HIDE DEF Step
<1>3. G \in [Nat \X Transactions -> Transactions]
  BY <1>2
<1>4. \A k \in Nat, t \in Transactions : G[<<k, t>>] = Step(k, t)
  OBVIOUS
<1> HIDE DEF G
<1>5. PICK h : Iterates(h, Transactions, s, G)
  BY <1>3, Iteration
<1> DEFINE f == [k \in 0 .. N |-> h[k]]
<1>6. ASSUME NEW k \in 0 .. N
      PROVE  f[k] = InTurnAt(k, f, s, ids, method, arg, skips)
  <2>1. CASE k = 0
    BY <1>1, <1>5, <2>1 DEF Iterates, InTurnAt
  <2>2. CASE k # 0
    <3>1. k \in Nat /\ k - 1 \in Nat /\ k - 1 \in 0 .. N /\ k = k - 1 + 1
      BY <1>1, <2>2
    <3>2. h[k] = G[<<k, h[k - 1]>>] /\ h[k - 1] \in Transactions
      BY <1>5, <3>1 DEF Iterates
    <3>3. f[k] = Step(k, f[k - 1])
      BY <1>4, <3>1, <3>2
    <3> QED BY <2>2, <3>3 DEF Step, InTurnAt
  <2> QED BY <2>1, <2>2
<1>7. f \in [0 .. N -> Transactions]
  BY <1>1, <1>5 DEF Iterates
<1> HIDE DEF f
<1>8. f = [k \in 0 .. N |-> InTurnAt(k, f, s, ids, method, arg, skips)]
  BY <1>6, <1>7
<1> DEFINE after == CHOOSE g : g = [k \in 0 .. N |->
                      InTurnAt(k, g, s, ids, method, arg, skips)]
<1>9. after = [k \in 0 .. N |-> InTurnAt(k, after, s, ids, method, arg, skips)]
  BY <1>8
<1>10. InTurn(s, ids, method, arg, skips) = after[N]
  BY DEF InTurn, InTurnAt
<1> HIDE DEF after
<1>11. ASSUME NEW k \in 0 .. N PROVE after[k] = f[k]
  <2> DEFINE T == {m \in Nat : m \in 0 .. N => after[m] = f[m]}
  <2>1. 0 \in T
    BY <1>1, <1>6, <1>9 DEF InTurnAt
  <2>2. ASSUME NEW m \in T PROVE m + 1 \in T
    <3>1. CASE m + 1 \in 0 .. N
      <4>1. m \in 0 .. N /\ m + 1 # 0 /\ m + 1 - 1 = m
        BY <2>2, <3>1
      <4>2. after[m] = f[m]
        BY <2>2, <4>1
      <4>3. after[m + 1] = InTurnAt(m + 1, after, s, ids, method, arg, skips)
        BY <1>9, <3>1
      <4>4. f[m + 1] = InTurnAt(m + 1, f, s, ids, method, arg, skips)
        BY <1>6, <3>1
      <4>5. InTurnAt(m + 1, after, s, ids, method, arg, skips)
            = InTurnAt(m + 1, f, s, ids, method, arg, skips)
        BY <4>1, <4>2 DEF InTurnAt
      <4> QED BY <2>2, <4>3, <4>4, <4>5
    <3>2. CASE m + 1 \notin 0 .. N
      BY <2>2, <3>2
    <3> QED BY <3>1, <3>2
  <2> HIDE DEF T
  <2>3. Nat \subseteq T
    BY <2>1, <2>2, SetInduction
  <2> QED BY <1>1, <2>3 DEF T
<1>12. N \in 0 .. N
  BY <1>1
<1> QED BY <1>6, <1>7, <1>10, <1>11, <1>12 DEF Turns

\* J relates the objects done to the transaction, and each call keeps it.
KeptInTurn(J, ids, method, arg, skips) ==
  \A done \in SUBSET (ids \cap Oids), t \in Transactions :
  \A id \in (ids \cap Oids) \ done :
    <<done, t>> \in J /\ t.ok =>
      /\ id \in Objects(t.db) /\ method[<<t, t.db[id], arg>>].ok =>
           <<done \cup {id}, method[<<t, t.db[id], arg>>]>> \in J
      /\ id \notin Objects(t.db) /\ skips => <<done \cup {id}, t>> \in J

\* What holds of the transaction after the objects done, if it holds at the
\* start and each call keeps it, holds after all of them.
LEMMA InTurnRule ==
  ASSUME NEW A, NEW s \in Transactions, NEW ids, NEW method \in Methods(A),
         NEW arg \in A, NEW skips \in BOOLEAN, NEW J,
         s.ok => <<{}, s>> \in J,
         KeptInTurn(J, ids, method, arg, skips)
  PROVE  LET r == InTurn(s, ids, method, arg, skips)
         IN /\ r \in Transactions
            /\ r.ok => <<ids \cap Oids, r>> \in J
<1> DEFINE N == Len(KeyOrder)
           Called(k) == {id \in ids \cap Oids : \E j \in 1 .. k : id = KeyOrder[j]}
<1>1. N \in Nat /\ DOMAIN KeyOrder = 1 .. N
  BY ItemOperationsAssumption
<1>0. PICK f : Turns(f, s, ids, method, arg, skips)
  BY InTurnUnfolds, Zenon
<1>2. /\ f \in [0 .. N -> Transactions]
      /\ \A k \in 0 .. N : f[k] = InTurnAt(k, f, s, ids, method, arg, skips)
      /\ InTurn(s, ids, method, arg, skips) = f[N]
  BY <1>0 DEF Turns
<1> DEFINE T == {k \in Nat : k \in 0 .. N => (f[k].ok => <<Called(k), f[k]>> \in J)}
<1>3. 0 \in T
  <2>1. Called(0) = {}
    OBVIOUS
  <2>2. f[0] = s
    <3>1. f[0] = InTurnAt(0, f, s, ids, method, arg, skips)
      BY <1>1, <1>2
    <3> QED BY <3>1 DEF InTurnAt
  <2> QED BY <2>1, <2>2
<1>4. ASSUME NEW k \in T PROVE k + 1 \in T
  <2> SUFFICES ASSUME k + 1 \in 0 .. N, f[k + 1].ok
               PROVE  <<Called(k + 1), f[k + 1]>> \in J
    BY <1>4
  <2> DEFINE id == KeyOrder[k + 1]
             t  == f[k]
  <2>1. k \in 0 .. N /\ k + 1 # 0 /\ k + 1 - 1 = k /\ k + 1 \in 1 .. N
    BY <1>1, <1>4
  <2>2. t \in Transactions
    BY <1>2, <2>1
  <2>3. f[k + 1] = IF ~t.ok \/ id \notin ids THEN t
                   ELSE IF Has(t, id) THEN method[<<t, t.db[id], arg>>]
                   ELSE IF skips THEN t ELSE Raise(t)
    <3>1. f[k + 1] = InTurnAt(k + 1, f, s, ids, method, arg, skips)
      BY <1>2
    <3> QED BY <3>1, <2>1 DEF InTurnAt
  <2>4. id \in Oids
    BY <1>1, <2>1 DEF Oids
  <2>5. id \notin Called(k)
    <3>1. ASSUME NEW j \in 1 .. k, id = KeyOrder[j] PROVE FALSE
      <4>1. j \in 1 .. N /\ j # k + 1
        BY <1>1, <1>4, <2>1
      <4> QED BY <1>1, <2>1, <3>1, <4>1, ItemOperationsAssumption
    <3> QED BY <3>1
  <2>6. Called(k + 1) = IF id \in ids THEN Called(k) \cup {id} ELSE Called(k)
    <3>1. \A j : j \in 1 .. k + 1 <=> j \in 1 .. k \/ j = k + 1
      BY <1>4
    <3> QED BY <2>4, <3>1
  <2>7. Called(k) \in SUBSET (ids \cap Oids)
    OBVIOUS
  <2> HIDE DEF Called
  <2>8. CASE ~t.ok \/ id \notin ids
    BY <1>4, <2>1, <2>3, <2>6, <2>8
  <2>9. CASE t.ok /\ id \in ids
    <3>1. <<Called(k), t>> \in J
      BY <1>4, <2>1, <2>9
    <3>2. id \in (ids \cap Oids) \ Called(k)
      BY <2>4, <2>5, <2>9
    <3>3. CASE Has(t, id)
      BY <2>2, <2>3, <2>6, <2>7, <2>9, <3>1, <3>2, <3>3 DEF Has, KeptInTurn
    <3>4. CASE ~Has(t, id)
      <4>1. CASE skips
        BY <2>2, <2>3, <2>6, <2>7, <2>9, <3>1, <3>2, <3>4, <4>1
           DEF Has, KeptInTurn
      <4>2. CASE ~skips
        BY <2>2, <2>3, <2>9, <3>4, <4>2, RaiseIsTransaction
      <4> QED BY <4>1, <4>2
    <3> QED BY <3>3, <3>4
  <2> QED BY <2>8, <2>9
<1> HIDE DEF T
<1>5. N \in T
  <2>1. Nat \subseteq T
    BY <1>3, <1>4, SetInduction
  <2> QED BY <1>1, <2>1
<1> USE DEF T
<1>6. f[N].ok => <<Called(N), f[N]>> \in J
  BY <1>1, <1>5
<1>7. Called(N) = ids \cap Oids
  BY <1>1 DEF Oids
<1>8. f[N] \in Transactions
  BY <1>1, <1>2
<1> QED BY <1>2, <1>6, <1>7, <1>8

\* Calling a method in turn ends in a transaction.
LEMMA InTurnIsTransaction ==
  ASSUME NEW A, NEW s \in Transactions, NEW ids, NEW method \in Methods(A),
         NEW arg \in A, NEW skips \in BOOLEAN
  PROVE  InTurn(s, ids, method, arg, skips) \in Transactions
<1>1. Len(KeyOrder) \in 0 .. Len(KeyOrder)
  BY ItemOperationsAssumption
<1> QED BY <1>1, InTurnUnfolds DEF Turns

\* A call for no object does nothing.
LEMMA InTurnOfNone ==
  ASSUME NEW A, NEW s \in Transactions, NEW method \in Methods(A),
         NEW arg \in A, NEW skips \in BOOLEAN
  PROVE  InTurn(s, {}, method, arg, skips) = s
<1> DEFINE N == Len(KeyOrder)
<1>1. N \in Nat
  BY ItemOperationsAssumption
<1>0. PICK f : Turns(f, s, {}, method, arg, skips)
  BY InTurnUnfolds, Zenon
<1>2. /\ f \in [0 .. N -> Transactions]
      /\ \A k \in 0 .. N : f[k] = InTurnAt(k, f, s, {}, method, arg, skips)
      /\ InTurn(s, {}, method, arg, skips) = f[N]
  BY <1>0 DEF Turns
<1> DEFINE T == {k \in Nat : k \in 0 .. N => f[k] = s}
<1>3. 0 \in T
  BY <1>1, <1>2 DEF InTurnAt
<1>4. ASSUME NEW k \in T PROVE k + 1 \in T
  <2>1. CASE k + 1 \in 0 .. N
    <3>1. k \in 0 .. N /\ k + 1 # 0 /\ k + 1 - 1 = k
      BY <1>4, <2>1
    <3>2. f[k + 1] = f[k]
      BY <1>2, <2>1, <3>1 DEF InTurnAt
    <3> QED BY <1>4, <3>1, <3>2
  <2>2. CASE k + 1 \notin 0 .. N
    BY <1>4, <2>2
  <2> QED BY <2>1, <2>2
<1> HIDE DEF T
<1>5. N \in T
  <2>1. Nat \subseteq T
    BY <1>3, <1>4, SetInduction
  <2> QED BY <1>1, <2>1
<1> QED BY <1>1, <1>2, <1>5 DEF T

-----------------------------------------------------------------------------
(* The steps of the methods that call themselves.                          *)

\* The steps of _recycle.
RecycleSteps(s, self, updateParent, deeper, r) ==
  \E a, b, c \in Transactions :
    /\ IF IsDeleted(self) THEN a = s
       ELSE LET d == ForEach(s, self.shortcuts, deeper, TRUE)
            IN d.ok /\ a = Erase(d, self)
    /\ b = Put(a, [self EXCEPT !.level = @ + 1])
    /\ c = IF updateParent THEN CountInParent(b, self, -1) ELSE b
    /\ r = IF ~IsCollection(self) THEN c
           ELSE ForEachChild(c, self.id, deeper, FALSE)
    /\ a.ok /\ b.ok /\ c.ok

\* A call of _recycle that raises no exception took all its steps.
LEMMA RecycleWithSteps ==
  ASSUME NEW s \in Transactions, NEW self \in Records, NEW up \in BOOLEAN,
         NEW m \in Methods(BOOLEAN)
  PROVE  LET r == RecycleWith(s, self, up, m)
         IN /\ r \in Transactions
            /\ r.ok => RecycleSteps(s, self, up, m, r)
<1> DEFINE hidden == [self EXCEPT !.level = @ + 1]
           d == ForEach(s, self.shortcuts, m, TRUE)
           a == IF IsDeleted(self) THEN s ELSE IF d.ok THEN Erase(d, self) ELSE d
           b == IF a.ok THEN Put(a, hidden) ELSE a
           c == IF b.ok THEN IF up THEN CountInParent(b, self, -1) ELSE b ELSE b
           r == IF c.ok THEN IF ~IsCollection(self) THEN c
                             ELSE ForEachChild(c, self.id, m, FALSE)
                ELSE c
<1>1. RecycleWith(s, self, up, m) = r
  BY Zenon DEF RecycleWith, Then
<1>2. hidden \in Records
  <2>1. self.level + 1 \in Int
    BY DEF Records
  <2> QED BY <2>1, LevelChanged
<1>3. d \in Transactions
  BY InTurnIsTransaction DEF ForEach
<1>4. a \in Transactions
  BY <1>3, EraseEffect
<1>5. b \in Transactions
  BY <1>2, <1>4, PutEffect
<1>6. c \in Transactions
  <2> HIDE DEF b
  <2> QED BY <1>5, CountInParentEffect
<1>7. r \in Transactions
  <2>1. ForEachChild(c, self.id, m, FALSE) \in Transactions
    BY <1>6, InTurnIsTransaction DEF ForEachChild
  <2> QED BY <1>6, <2>1
<1>8. ASSUME r.ok PROVE RecycleSteps(s, self, up, m, r)
  <2>1. a.ok /\ b.ok /\ c.ok
    BY <1>8
  <2>2. /\ IF IsDeleted(self) THEN a = s
           ELSE d.ok /\ a = Erase(d, self)
        /\ b = Put(a, hidden)
        /\ c = IF up THEN CountInParent(b, self, -1) ELSE b
        /\ r = IF ~IsCollection(self) THEN c
               ELSE ForEachChild(c, self.id, m, FALSE)
    BY <2>1
  <2> HIDE DEF a, b, c, r
  <2> QED BY <1>4, <1>5, <1>6, <2>1, <2>2 DEF RecycleSteps
<1> QED BY <1>1, <1>7, <1>8

\* The steps of _undelete.
UndeleteSteps(s, self, updateParent, deeper, r) ==
  LET shown == [self EXCEPT !.level = @ - 1]
  IN \E a, b, c \in Transactions :
       /\ a = IF IsDeleted(shown) THEN s
              ELSE ForEach(s, shown.shortcuts, deeper, TRUE)
       /\ b = IF updateParent THEN CountInParent(a, self, 1) ELSE a
       /\ c = IF ~IsCollection(self) THEN b
              ELSE ForEachChild(b, self.id, deeper, FALSE)
       /\ r = Put(c, shown)
       /\ a.ok /\ b.ok /\ c.ok

\* The same of _undelete.
LEMMA UndeleteWithSteps ==
  ASSUME NEW s \in Transactions, NEW self \in Records, NEW up \in BOOLEAN,
         NEW m \in Methods(BOOLEAN)
  PROVE  LET r == UndeleteWith(s, self, up, m)
         IN /\ r \in Transactions
            /\ r.ok => UndeleteSteps(s, self, up, m, r)
<1> DEFINE shown == [self EXCEPT !.level = @ - 1]
           a == IF IsDeleted(shown) THEN s ELSE ForEach(s, shown.shortcuts, m, TRUE)
           b == IF a.ok THEN IF up THEN CountInParent(a, self, 1) ELSE a ELSE a
           c == IF b.ok THEN IF ~IsCollection(self) THEN b
                             ELSE ForEachChild(b, self.id, m, FALSE)
                ELSE b
           r == IF c.ok THEN Put(c, shown) ELSE c
<1>1. UndeleteWith(s, self, up, m) = r
  BY Zenon DEF UndeleteWith, Then
<1>2. shown \in Records
  <2>1. self.level - 1 \in Int
    BY DEF Records
  <2> QED BY <2>1, LevelChanged
<1> HIDE DEF shown
<1>3. a \in Transactions
  BY InTurnIsTransaction DEF ForEach
<1> HIDE DEF a
<1>4. b \in Transactions
  BY <1>3, CountInParentEffect
<1> HIDE DEF b
<1>5. c \in Transactions
  BY <1>4, InTurnIsTransaction DEF ForEachChild
<1> HIDE DEF c
<1>6. r \in Transactions
  BY <1>2, <1>5, PutEffect
<1>7. ASSUME r.ok PROVE UndeleteSteps(s, self, up, m, r)
  <2>1. a.ok /\ b.ok /\ c.ok
    BY <1>7 DEF a, b, c
  <2>2. /\ a = IF IsDeleted(shown) THEN s ELSE ForEach(s, shown.shortcuts, m, TRUE)
        /\ b = IF up THEN CountInParent(a, self, 1) ELSE a
        /\ c = IF ~IsCollection(self) THEN b
               ELSE ForEachChild(b, self.id, m, FALSE)
        /\ r = Put(c, shown)
    BY <2>1 DEF a, b, c
  <2> HIDE DEF r
  <2> QED BY <1>3, <1>4, <1>5, <2>1, <2>2 DEF UndeleteSteps, shown
<1> QED BY <1>1, <1>6, <1>7

\* The steps of _delete.
DeleteStep(a, b, c, d, e, s, self, updateParent, deeper, r) ==
  /\ a = IF IsDeleted(self) THEN s
         ELSE ForEach(s, self.shortcuts, RecycleWithin[CallDepth], TRUE)
  /\ b = ForEach(a, self.shortcuts, deeper, TRUE)
  /\ c = RemoveFromTarget(b, self, self.target)
  /\ d = Erase(c, self)
  /\ e = IF updateParent /\ ~IsDeleted(self) /\ Has(d, self.pid)
         THEN CountInParent(d, self, -1)
         ELSE d
  /\ r = IF ~IsCollection(self) THEN e
         ELSE ForEachChild(e, self.id, deeper, FALSE)
  /\ a.ok /\ b.ok /\ c.ok /\ d.ok /\ e.ok

DeleteSteps(s, self, updateParent, deeper, r) ==
  \E a, b, c, d, e \in Transactions :
    DeleteStep(a, b, c, d, e, s, self, updateParent, deeper, r)

\* Taking a shortcut off the list of its target.
LEMMA RemoveFromTargetEffect ==
  ASSUME NEW s \in Transactions, NEW item \in Records,
         NEW target \in Ids \cup {None}
  PROVE  LET r == RemoveFromTarget(s, item, target)
         IN /\ r \in Transactions
            /\ r.ok => \/ target = None /\ r = s
                       \/ /\ target \in Objects(s.db)
                          /\ PutDone(s, [s.db[target] EXCEPT
                                           !.shortcuts = @ \ {item.id}], r)
<1>1. CASE target = None
  BY <1>1 DEF RemoveFromTarget
<1>2. CASE target # None /\ target \in Objects(s.db)
  <2> DEFINE t == [s.db[target] EXCEPT !.shortcuts = @ \ {item.id}]
  <2>1. s.db[target] \in Records
    BY <1>2, StoredIsRecord
  <2>2. s.db[target].shortcuts \ {item.id} \in SUBSET Ids
    BY <2>1 DEF Records
  <2>3. t \in Records
    BY <2>1, <2>2, ShortcutsChanged
  <2>4. RemoveFromTarget(s, item, target) = Put(s, t)
    BY <1>2 DEF RemoveFromTarget, With, Has
  <2> HIDE DEF t
  <2>5. RemoveFromTarget(s, item, target) \in Transactions
    BY <2>3, <2>4, PutEffect
  <2>6. RemoveFromTarget(s, item, target).ok =>
          PutDone(s, t, RemoveFromTarget(s, item, target))
    BY <2>3, <2>4, PutEffect
  <2> QED BY <1>2, <2>5, <2>6 DEF t
<1>3. CASE target # None /\ target \notin Objects(s.db)
  <2>1. RemoveFromTarget(s, item, target) = Raise(s)
    BY <1>3 DEF RemoveFromTarget, With, Has
  <2> QED BY <2>1, RaiseIsTransaction
<1> QED BY <1>1, <1>2, <1>3

\* The same of _delete.
LEMMA DeleteWithSteps ==
  ASSUME NEW s \in Transactions, NEW self \in Records, NEW up \in BOOLEAN,
         NEW m \in Methods(BOOLEAN), RecycleWithin[CallDepth] \in Methods(BOOLEAN)
  PROVE  LET r == DeleteWith(s, self, up, m)
         IN /\ r \in Transactions
            /\ r.ok => DeleteSteps(s, self, up, m, r)
<1> DEFINE R == RecycleWithin[CallDepth]
           a == IF IsDeleted(self) THEN s ELSE ForEach(s, self.shortcuts, R, TRUE)
           b1 == ForEach(a, self.shortcuts, m, TRUE)
           c1 == IF b1.ok THEN RemoveFromTarget(b1, self, self.target) ELSE b1
           c == IF a.ok THEN c1 ELSE a
           d == IF c.ok THEN Erase(c, self) ELSE c
           e == IF d.ok THEN IF up /\ ~IsDeleted(self) /\ Has(d, self.pid)
                             THEN CountInParent(d, self, -1) ELSE d
                ELSE d
           r == IF e.ok THEN IF ~IsCollection(self) THEN e
                             ELSE ForEachChild(e, self.id, m, FALSE)
                ELSE e
<1>1. DeleteWith(s, self, up, m) = r
  BY Zenon DEF DeleteWith, Then
<1> HIDE DEF R
<1>2. a \in Transactions
  BY InTurnIsTransaction DEF ForEach, R
<1> HIDE DEF a
<1>3. b1 \in Transactions
  BY <1>2, InTurnIsTransaction DEF ForEach
<1> HIDE DEF b1
<1>4. c1 \in Transactions
  <2>1. self.target \in Ids \cup {None}
    BY DEF Records
  <2> QED BY <1>3, <2>1, RemoveFromTargetEffect
<1> HIDE DEF c1
<1>5. c \in Transactions
  BY <1>2, <1>4
<1> HIDE DEF c
<1>6. d \in Transactions
  BY <1>5, EraseEffect
<1> HIDE DEF d
<1>7. e \in Transactions
  BY <1>6, CountInParentEffect
<1> HIDE DEF e
<1>8. r \in Transactions
  BY <1>7, InTurnIsTransaction DEF ForEachChild
<1>9. ASSUME r.ok PROVE DeleteSteps(s, self, up, m, r)
  <2>1. a.ok /\ b1.ok /\ c.ok /\ d.ok /\ e.ok
    BY <1>9 DEF b1, c1, c, d, e
  <2>2. /\ a = IF IsDeleted(self) THEN s ELSE ForEach(s, self.shortcuts, R, TRUE)
        /\ b1 = ForEach(a, self.shortcuts, m, TRUE)
        /\ c = RemoveFromTarget(b1, self, self.target)
        /\ d = Erase(c, self)
        /\ e = IF up /\ ~IsDeleted(self) /\ Has(d, self.pid)
               THEN CountInParent(d, self, -1) ELSE d
        /\ r = IF ~IsCollection(self) THEN e
               ELSE ForEachChild(e, self.id, m, FALSE)
    BY <2>1 DEF a, b1, c1, c, d, e
  <2> HIDE DEF r
  <2>3. DeleteStep(a, b1, c, d, e, s, self, up, m, r)
    BY <2>1, <2>2 DEF DeleteStep, R
  <2> QED BY <1>2, <1>3, <1>5, <1>6, <1>7, <2>3 DEF DeleteSteps
<1> QED BY <1>1, <1>8, <1>9

-----------------------------------------------------------------------------
(* The methods nested n deep at most.                                      *)

RecycleAt(n, g) ==
  [c \in Transactions \X Records \X BOOLEAN |->
     IF n = 0 THEN Raise(c[1]) ELSE RecycleWith(c[1], c[2], c[3], g[n - 1])]

\* _recycle within n nested calls is a method, and calls itself within n - 1.
LEMMA RecycleWithinUnfolds ==
  /\ RecycleWithin = [n \in Nat |-> RecycleAt(n, RecycleWithin)]
  /\ \A n \in Nat : RecycleWithin[n] \in Methods(BOOLEAN)
<1> DEFINE Calls == Transactions \X Records \X BOOLEAN
           G == [p \in Nat \X Methods(BOOLEAN) |->
                   [c \in Calls |-> RecycleWith(c[1], c[2], c[3], p[2])]]
           b == [c \in Calls |-> Raise(c[1])]
<1>0. ASSUME NEW m \in Methods(BOOLEAN), NEW c \in Calls
      PROVE  RecycleWith(c[1], c[2], c[3], m) \in Transactions
  BY RecycleWithSteps
<1>1. b \in Methods(BOOLEAN)
  BY RaiseIsTransaction DEF Methods
<1>2. G \in [Nat \X Methods(BOOLEAN) -> Methods(BOOLEAN)]
  BY <1>0 DEF Methods
<1> HIDE DEF G, b
<1>3. PICK f : Iterates(f, Methods(BOOLEAN), b, G)
  BY <1>1, <1>2, Iteration
<1>4. f = [n \in Nat |-> RecycleAt(n, f)]
  <2>1. ASSUME NEW n \in Nat PROVE f[n] = RecycleAt(n, f)
    <3>1. CASE n = 0
      BY <1>3, <3>1 DEF b, RecycleAt, Iterates
    <3>2. CASE n # 0
      <4>1. n - 1 \in Nat /\ n = n - 1 + 1
        BY <3>2
      <4>2. f[n] = G[<<n, f[n - 1]>>]
        BY <1>3, <4>1 DEF Iterates
      <4> QED BY <3>2, <4>2, <4>1, <1>3 DEF G, RecycleAt, Iterates
    <3> QED BY <3>1, <3>2
  <2> HIDE DEF RecycleAt
  <2> QED BY <1>3, <2>1 DEF Iterates
<1>5. RecycleWithin = CHOOSE g : g = [n \in Nat |-> RecycleAt(n, g)]
  BY DEF RecycleWithin, RecycleAt
<1> HIDE DEF RecycleAt
<1>6. RecycleWithin = [n \in Nat |-> RecycleAt(n, RecycleWithin)]
  BY <1>4, <1>5
<1>7. ASSUME NEW n \in Nat PROVE RecycleWithin[n] \in Methods(BOOLEAN)
  <2> DEFINE T == {k \in Nat : RecycleWithin[k] \in Methods(BOOLEAN)}
  <2>1. 0 \in T
    <3>1. RecycleWithin[0] = RecycleAt(0, RecycleWithin)
      BY <1>6
    <3>2. RecycleAt(0, RecycleWithin) \in Methods(BOOLEAN)
      BY RaiseIsTransaction DEF RecycleAt, Methods
    <3> QED BY <3>1, <3>2
  <2>2. ASSUME NEW k \in T PROVE k + 1 \in T
    <3>1. RecycleWithin[k + 1] = RecycleAt(k + 1, RecycleWithin)
      BY <1>6, <2>2
    <3>2. k + 1 # 0 /\ k + 1 - 1 = k /\ RecycleWithin[k] \in Methods(BOOLEAN)
      BY <2>2
    <3>3. RecycleAt(k + 1, RecycleWithin) \in Methods(BOOLEAN)
      BY <1>0, <3>2 DEF RecycleAt, Methods
    <3> QED BY <3>1, <3>3
  <2> HIDE DEF T
  <2>3. Nat \subseteq T
    BY <2>1, <2>2, SetInduction
  <2> QED BY <2>3 DEF T
<1> QED BY <1>6, <1>7

\* One call more.
LEMMA RecycleUnfolds ==
  ASSUME NEW n \in Nat, NEW s \in Transactions, NEW self \in Records,
         NEW up \in BOOLEAN
  PROVE  LET r == RecycleWithin[n][<<s, self, up>>]
         IN /\ r \in Transactions
            /\ n = 0 => ~r.ok
            /\ n > 0 => /\ r = RecycleWith(s, self, up, RecycleWithin[n - 1])
                        /\ RecycleWithin[n - 1] \in Methods(BOOLEAN)
<1>1. RecycleWithin[n] = RecycleAt(n, RecycleWithin)
  BY RecycleWithinUnfolds
<1>2. RecycleWithin[n][<<s, self, up>>]
      = IF n = 0 THEN Raise(s) ELSE RecycleWith(s, self, up, RecycleWithin[n - 1])
  BY <1>1 DEF RecycleAt
<1>3. n > 0 => n - 1 \in Nat
  OBVIOUS
<1>4. RecycleWithin[n] \in Methods(BOOLEAN)
  BY RecycleWithinUnfolds
<1>5. RecycleWithin[n][<<s, self, up>>] \in Transactions
  BY <1>4 DEF Methods
<1> QED BY <1>2, <1>3, <1>5, RaiseIsTransaction, RecycleWithinUnfolds

UndeleteAt(n, g) ==
  [c \in Transactions \X Records \X BOOLEAN |->
     IF n = 0 THEN Raise(c[1]) ELSE UndeleteWith(c[1], c[2], c[3], g[n - 1])]

\* The same of _undelete.
LEMMA UndeleteWithinUnfolds ==
  /\ UndeleteWithin = [n \in Nat |-> UndeleteAt(n, UndeleteWithin)]
  /\ \A n \in Nat : UndeleteWithin[n] \in Methods(BOOLEAN)
<1> DEFINE Calls == Transactions \X Records \X BOOLEAN
           G == [p \in Nat \X Methods(BOOLEAN) |->
                   [c \in Calls |-> UndeleteWith(c[1], c[2], c[3], p[2])]]
           b == [c \in Calls |-> Raise(c[1])]
<1>0. ASSUME NEW m \in Methods(BOOLEAN), NEW c \in Calls
      PROVE  UndeleteWith(c[1], c[2], c[3], m) \in Transactions
  BY UndeleteWithSteps
<1>1. b \in Methods(BOOLEAN)
  BY RaiseIsTransaction DEF Methods
<1>2. G \in [Nat \X Methods(BOOLEAN) -> Methods(BOOLEAN)]
  BY <1>0 DEF Methods
<1> HIDE DEF G, b
<1>3. PICK f : Iterates(f, Methods(BOOLEAN), b, G)
  BY <1>1, <1>2, Iteration
<1>4. f = [n \in Nat |-> UndeleteAt(n, f)]
  <2>1. ASSUME NEW n \in Nat PROVE f[n] = UndeleteAt(n, f)
    <3>1. CASE n = 0
      BY <1>3, <3>1 DEF b, UndeleteAt, Iterates
    <3>2. CASE n # 0
      <4>1. n - 1 \in Nat /\ n = n - 1 + 1
        BY <3>2
      <4>2. f[n] = G[<<n, f[n - 1]>>]
        BY <1>3, <4>1 DEF Iterates
      <4> QED BY <3>2, <4>2, <4>1, <1>3 DEF G, UndeleteAt, Iterates
    <3> QED BY <3>1, <3>2
  <2> HIDE DEF UndeleteAt
  <2> QED BY <1>3, <2>1 DEF Iterates
<1>5. UndeleteWithin = CHOOSE g : g = [n \in Nat |-> UndeleteAt(n, g)]
  BY DEF UndeleteWithin, UndeleteAt
<1> HIDE DEF UndeleteAt
<1>6. UndeleteWithin = [n \in Nat |-> UndeleteAt(n, UndeleteWithin)]
  BY <1>4, <1>5
<1>7. ASSUME NEW n \in Nat PROVE UndeleteWithin[n] \in Methods(BOOLEAN)
  <2> DEFINE T == {k \in Nat : UndeleteWithin[k] \in Methods(BOOLEAN)}
  <2>1. 0 \in T
    <3>1. UndeleteWithin[0] = UndeleteAt(0, UndeleteWithin)
      BY <1>6
    <3>2. UndeleteAt(0, UndeleteWithin) \in Methods(BOOLEAN)
      BY RaiseIsTransaction DEF UndeleteAt, Methods
    <3> QED BY <3>1, <3>2
  <2>2. ASSUME NEW k \in T PROVE k + 1 \in T
    <3>1. UndeleteWithin[k + 1] = UndeleteAt(k + 1, UndeleteWithin)
      BY <1>6, <2>2
    <3>2. k + 1 # 0 /\ k + 1 - 1 = k /\ UndeleteWithin[k] \in Methods(BOOLEAN)
      BY <2>2
    <3>3. UndeleteAt(k + 1, UndeleteWithin) \in Methods(BOOLEAN)
      BY <1>0, <3>2 DEF UndeleteAt, Methods
    <3> QED BY <3>1, <3>3
  <2> HIDE DEF T
  <2>3. Nat \subseteq T
    BY <2>1, <2>2, SetInduction
  <2> QED BY <2>3 DEF T
<1> QED BY <1>6, <1>7

\* One call more.
LEMMA UndeleteUnfolds ==
  ASSUME NEW n \in Nat, NEW s \in Transactions, NEW self \in Records,
         NEW up \in BOOLEAN
  PROVE  LET r == UndeleteWithin[n][<<s, self, up>>]
         IN /\ r \in Transactions
            /\ n = 0 => ~r.ok
            /\ n > 0 => /\ r = UndeleteWith(s, self, up, UndeleteWithin[n - 1])
                        /\ UndeleteWithin[n - 1] \in Methods(BOOLEAN)
<1>1. UndeleteWithin[n] = UndeleteAt(n, UndeleteWithin)
  BY UndeleteWithinUnfolds
<1>2. UndeleteWithin[n][<<s, self, up>>]
      = IF n = 0 THEN Raise(s) ELSE UndeleteWith(s, self, up, UndeleteWithin[n - 1])
  BY <1>1 DEF UndeleteAt
<1>3. n > 0 => n - 1 \in Nat
  OBVIOUS
<1>4. UndeleteWithin[n] \in Methods(BOOLEAN)
  BY UndeleteWithinUnfolds
<1>5. UndeleteWithin[n][<<s, self, up>>] \in Transactions
  BY <1>4 DEF Methods
<1> QED BY <1>2, <1>3, <1>5, RaiseIsTransaction, UndeleteWithinUnfolds

DeleteAt(n, g) ==
  [c \in Transactions \X Records \X BOOLEAN |->
     IF n = 0 THEN Raise(c[1]) ELSE DeleteWith(c[1], c[2], c[3], g[n - 1])]

\* The same of _delete.
LEMMA DeleteWithinUnfolds ==
  /\ DeleteWithin = [n \in Nat |-> DeleteAt(n, DeleteWithin)]
  /\ \A n \in Nat : DeleteWithin[n] \in Methods(BOOLEAN)
<1> DEFINE Calls == Transactions \X Records \X BOOLEAN
           G == [p \in Nat \X Methods(BOOLEAN) |->
                   [c \in Calls |-> DeleteWith(c[1], c[2], c[3], p[2])]]
           b == [c \in Calls |-> Raise(c[1])]
<1>r. RecycleWithin[CallDepth] \in Methods(BOOLEAN)
  BY RecycleWithinUnfolds, ItemOperationsAssumption
<1>0. ASSUME NEW m \in Methods(BOOLEAN), NEW c \in Calls
      PROVE  DeleteWith(c[1], c[2], c[3], m) \in Transactions
  BY <1>r, DeleteWithSteps
<1>1. b \in Methods(BOOLEAN)
  BY RaiseIsTransaction DEF Methods
<1>2. G \in [Nat \X Methods(BOOLEAN) -> Methods(BOOLEAN)]
  BY <1>0 DEF Methods
<1> HIDE DEF G, b
<1>3. PICK f : Iterates(f, Methods(BOOLEAN), b, G)
  BY <1>1, <1>2, Iteration
<1>4. f = [n \in Nat |-> DeleteAt(n, f)]
  <2>1. ASSUME NEW n \in Nat PROVE f[n] = DeleteAt(n, f)
    <3>1. CASE n = 0
      BY <1>3, <3>1 DEF b, DeleteAt, Iterates
    <3>2. CASE n # 0
      <4>1. n - 1 \in Nat /\ n = n - 1 + 1
        BY <3>2
      <4>2. f[n] = G[<<n, f[n - 1]>>]
        BY <1>3, <4>1 DEF Iterates
      <4> QED BY <3>2, <4>2, <4>1, <1>3 DEF G, DeleteAt, Iterates
    <3> QED BY <3>1, <3>2
  <2> HIDE DEF DeleteAt
  <2> QED BY <1>3, <2>1 DEF Iterates
<1>5. DeleteWithin = CHOOSE g : g = [n \in Nat |-> DeleteAt(n, g)]
  BY DEF DeleteWithin, DeleteAt
<1> HIDE DEF DeleteAt
<1>6. DeleteWithin = [n \in Nat |-> DeleteAt(n, DeleteWithin)]
  BY <1>4, <1>5
<1>7. ASSUME NEW n \in Nat PROVE DeleteWithin[n] \in Methods(BOOLEAN)
  <2> DEFINE T == {k \in Nat : DeleteWithin[k] \in Methods(BOOLEAN)}
  <2>1. 0 \in T
    <3>1. DeleteWithin[0] = DeleteAt(0, DeleteWithin)
      BY <1>6
    <3>2. DeleteAt(0, DeleteWithin) \in Methods(BOOLEAN)
      BY RaiseIsTransaction DEF DeleteAt, Methods
    <3> QED BY <3>1, <3>2
  <2>2. ASSUME NEW k \in T PROVE k + 1 \in T
    <3>1. DeleteWithin[k + 1] = DeleteAt(k + 1, DeleteWithin)
      BY <1>6, <2>2
    <3>2. k + 1 # 0 /\ k + 1 - 1 = k /\ DeleteWithin[k] \in Methods(BOOLEAN)
      BY <2>2
    <3>3. DeleteAt(k + 1, DeleteWithin) \in Methods(BOOLEAN)
      BY <1>0, <3>2 DEF DeleteAt, Methods
    <3> QED BY <3>1, <3>3
  <2> HIDE DEF T
  <2>3. Nat \subseteq T
    BY <2>1, <2>2, SetInduction
  <2> QED BY <2>3 DEF T
<1> QED BY <1>6, <1>7

\* One call more.
LEMMA DeleteUnfolds ==
  ASSUME NEW n \in Nat, NEW s \in Transactions, NEW self \in Records,
         NEW up \in BOOLEAN
  PROVE  LET r == DeleteWithin[n][<<s, self, up>>]
         IN /\ r \in Transactions
            /\ n = 0 => ~r.ok
            /\ n > 0 => /\ r = DeleteWith(s, self, up, DeleteWithin[n - 1])
                        /\ DeleteWithin[n - 1] \in Methods(BOOLEAN)
<1>1. DeleteWithin[n] = DeleteAt(n, DeleteWithin)
  BY DeleteWithinUnfolds
<1>2. DeleteWithin[n][<<s, self, up>>]
      = IF n = 0 THEN Raise(s) ELSE DeleteWith(s, self, up, DeleteWithin[n - 1])
  BY <1>1 DEF DeleteAt
<1>3. n > 0 => n - 1 \in Nat
  OBVIOUS
<1>4. DeleteWithin[n] \in Methods(BOOLEAN)
  BY DeleteWithinUnfolds
<1>5. DeleteWithin[n][<<s, self, up>>] \in Transactions
  BY <1>4 DEF Methods
<1> QED BY <1>2, <1>3, <1>5, RaiseIsTransaction, DeleteWithinUnfolds

-----------------------------------------------------------------------------
(* What hiding and showing objects does to the store.                      *)

\* The stores.
Stores == [Ids -> Records \cup {Nothing}]

\* What every method finds and leaves, in the middle of another one too, where
\* an object may be missing: stored shortcuts and their targets agree, and
\* neither folders nor shortcuts form loops.
Sound(db) ==
  /\ db \in Stores
  /\ \A i \in Objects(db) : db[i].id = i
  /\ \A i \in Objects(db) :
       /\ db[i].pid \in Objects(db) => IsCollection(db[db[i].pid])
       /\ db[i].target # None => db[i].kind = "shortcut"
       /\ i \notin Oids => db[i].pid = None /\ db[i].target = None
  /\ \A i, k \in Objects(db) : k \in db[i].shortcuts <=> db[k].target = i
  /\ \A S \in SUBSET Objects(db) : S # {} => \E i \in S : db[i].pid \notin S
  /\ \A S \in SUBSET Objects(db) : S # {} => \E i \in S : db[i].target \notin S

\* The same object, renamed or hidden more or less often.
SameItem(x, y) ==
  /\ x.id = y.id /\ x.kind = y.kind /\ x.pid = y.pid
  /\ x.shortcuts = y.shortcuts /\ x.target = y.target /\ x.ref = y.ref

\* The same objects, but for their names, counters and levels.
Frame(d0, d1) ==
  /\ Objects(d0) = Objects(d1)
  /\ \A i \in Objects(d0) : SameItem(d0[i], d1[i])

Rises(d0, d1, t) ==
  t \in Objects(d0) /\ d0[t].level <= 0 /\ d1[t].level > 0

\* From d0 to d1 the objects S are hidden once more, and so is every shortcut
\* whose target was visible and is not any more.
Hidden(d0, d1, S) ==
  /\ Frame(d0, d1)
  /\ \A i \in Objects(d0) :
       d1[i].level = d0[i].level + (IF i \in S THEN 1 ELSE 0)
                     + (IF Rises(d0, d1, d0[i].target) THEN 1 ELSE 0)

\* Hiding S, or showing it.
Moved(d0, d1, S, down) == IF down THEN Hidden(d0, d1, S) ELSE Hidden(d1, d0, S)

\* S is D and everything below.
Spans(db, D, S) ==
  /\ D \subseteq Objects(db) /\ S \subseteq Objects(db)
  /\ \A i \in Objects(db) : i \in S <=> i \in D \/ db[i].pid \in S

\* Objects have ids.
LEMMA ObjectsIn ==
  ASSUME NEW db \in Stores
  PROVE  \A i : i \in Objects(db) <=> i \in Ids /\ db[i] # Nothing
BY DEF Objects

\* None is no id.
LEMMA IdsOf == None \notin Ids
BY ItemOperationsAssumption DEF None, Ids, Oids, Root, Bin

\* A store that differs in names, counters and levels only is as sound.
LEMMA FrameSound ==
  ASSUME NEW d0, Sound(d0), NEW d1 \in Stores, Frame(d0, d1)
  PROVE  Sound(d1)
<1>1. \A i \in Objects(d1) : d1[i].id = i
  BY DEF Sound, Frame, SameItem
<1>2. \A i \in Objects(d1) :
       /\ d1[i].pid \in Objects(d1) => IsCollection(d1[d1[i].pid])
       /\ d1[i].target # None => d1[i].kind = "shortcut"
       /\ i \notin Oids => d1[i].pid = None /\ d1[i].target = None
  BY DEF Sound, Frame, SameItem, IsCollection
<1>3. \A i, k \in Objects(d1) : k \in d1[i].shortcuts <=> d1[k].target = i
  BY DEF Sound, Frame, SameItem
<1>4. ASSUME NEW S \in SUBSET Objects(d1), S # {}
      PROVE  (\E i \in S : d1[i].pid \notin S) /\ (\E i \in S : d1[i].target \notin S)
  BY <1>4 DEF Sound, Frame, SameItem
<1> QED BY <1>1, <1>2, <1>3, <1>4 DEF Sound

\* And the other way round.
LEMMA FrameSymmetric ==
  ASSUME NEW d0, NEW d1, Frame(d0, d1)
  PROVE  Frame(d1, d0)
BY DEF Frame, SameItem

\* Hiding disjoint sets of objects one after the other hides their union.
LEMMA HiddenComposes ==
  ASSUME NEW d0 \in Stores, NEW d1 \in Stores, NEW d2 \in Stores, NEW S1, NEW S2,
         Hidden(d0, d1, S1), Hidden(d1, d2, S2), S1 \cap S2 = {}
  PROVE  Hidden(d0, d2, S1 \cup S2)
<1>1. Frame(d0, d2)
  BY DEF Hidden, Frame, SameItem
<1>2. \A i \in Objects(d0) : i \in Objects(d1) /\ d1[i].target = d0[i].target
  BY DEF Hidden, Frame, SameItem
<1>3. \A i \in Objects(d0) :
        d0[i].level \in Int /\ d1[i].level \in Int /\ d2[i].level \in Int
  BY <1>1, <1>2 DEF Stores, Objects, Records, Hidden, Frame
<1>4. \A i \in Objects(d0) : d0[i].level <= d1[i].level /\ d1[i].level <= d2[i].level
  BY <1>2, <1>3 DEF Hidden
<1>5. ASSUME NEW t
      PROVE  /\ Rises(d0, d2, t) <=> Rises(d0, d1, t) \/ Rises(d1, d2, t)
             /\ ~(Rises(d0, d1, t) /\ Rises(d1, d2, t))
  <2>1. Objects(d0) = Objects(d1)
    BY DEF Hidden, Frame
  <2> QED BY <1>3, <1>4, <2>1 DEF Rises
<1>6. ASSUME NEW i \in Objects(d0)
      PROVE  d2[i].level = d0[i].level + (IF i \in S1 \cup S2 THEN 1 ELSE 0)
                           + (IF Rises(d0, d2, d0[i].target) THEN 1 ELSE 0)
  <2>1. d1[i].level = d0[i].level + (IF i \in S1 THEN 1 ELSE 0)
                     + (IF Rises(d0, d1, d0[i].target) THEN 1 ELSE 0)
    BY DEF Hidden
  <2>2. d2[i].level = d1[i].level + (IF i \in S2 THEN 1 ELSE 0)
                     + (IF Rises(d1, d2, d0[i].target) THEN 1 ELSE 0)
    BY <1>2 DEF Hidden
  <2> QED BY <1>3, <1>5, <2>1, <2>2
<1> QED BY <1>1, <1>6 DEF Hidden

\* The same of hiding and showing.
LEMMA MovedComposes ==
  ASSUME NEW d0 \in Stores, NEW d1 \in Stores, NEW d2 \in Stores, NEW S1, NEW S2,
         NEW down \in BOOLEAN,
         Moved(d0, d1, S1, down), Moved(d1, d2, S2, down), S1 \cap S2 = {}
  PROVE  Moved(d0, d2, S1 \cup S2, down)
<1>1. S2 \cap S1 = {} /\ S2 \cup S1 = S1 \cup S2
  OBVIOUS
<1> QED BY <1>1, HiddenComposes DEF Moved

\* Hiding and showing objects leaves everything else.
LEMMA MovedFrame ==
  ASSUME NEW d0, NEW d1, NEW S, NEW down \in BOOLEAN, Moved(d0, d1, S, down)
  PROVE  Frame(d0, d1)
BY FrameSymmetric DEF Moved, Hidden

\* Nothing but counters change.
SameLevels(d0, d1) ==
  Frame(d0, d1) /\ \A i \in Objects(d0) : d0[i].level = d1[i].level

\* Counting children hides and shows nothing.
LEMMA SameLevelsMoved ==
  ASSUME NEW d0 \in Stores, NEW d1, SameLevels(d0, d1), NEW down \in BOOLEAN
  PROVE  Moved(d0, d1, {}, down)
<1>1. \A i \in Objects(d0) : d0[i].level \in Int
  BY DEF Stores, Objects, Records
<1>2. \A t : ~Rises(d0, d1, t) /\ ~Rises(d1, d0, t)
  BY <1>1 DEF SameLevels, Rises, Frame
<1> QED BY <1>1, <1>2, FrameSymmetric DEF SameLevels, Moved, Hidden, Frame

\* Counting in a parent keeps every level.
LEMMA CountKeepsLevels ==
  ASSUME NEW s \in Transactions, Sound(s.db), Objects(s.db) \subseteq s.used,
         NEW item \in Records, NEW n \in Int,
         CountInParent(s, item, n).ok
  PROVE  LET r == CountInParent(s, item, n)
         IN /\ r \in Transactions /\ r.used = s.used
            /\ SameLevels(s.db, r.db)
<1> DEFINE r == CountInParent(s, item, n)
           p == item.pid
           q == Count(s.db[p], item, n)
<1>1. /\ r \in Transactions
      /\ p \in Objects(s.db)
      /\ PutDone(s, q, r)
  BY CountInParentEffect
<1>2. s.db[p] \in Records /\ s.db[p].id = p /\ p \in Ids
  BY <1>1, StoredIsRecord DEF Sound
<1>3. /\ q \in Records
      /\ SameItem(s.db[p], q) /\ q.level = s.db[p].level /\ q.id = p
  BY <1>2, Counted DEF SameItem
<1> HIDE DEF q, r, p
<1>4. r.used = s.used /\ r.db = [s.db EXCEPT ![p] = q]
  BY <1>1, <1>3 DEF PutDone
<1>5. s.db \in Stores
  BY DEF Sound
<1>6. q # Nothing
  BY <1>3, NothingIsNoRecord
<1>7. Objects(r.db) = Objects(s.db)
  BY <1>1, <1>2, <1>4, <1>5, <1>6 DEF Objects, Stores
<1>8. \A i \in Objects(s.db) : r.db[i] = IF i = p THEN q ELSE s.db[i]
  BY <1>4, <1>5 DEF Stores, Objects
<1>9. SameLevels(s.db, r.db)
  BY <1>3, <1>7, <1>8 DEF SameLevels, Frame, SameItem
<1> QED BY <1>1, <1>4, <1>9 DEF r

\* Objects without children span themselves only.
LEMMA SpansLeaves ==
  ASSUME NEW db, Sound(db), NEW D, NEW S, Spans(db, D, S),
         \A i \in D : ~IsCollection(db[i])
  PROVE  S = D
<1>1. D \subseteq S
  BY DEF Spans
<1>2. S \ D \in SUBSET Objects(db)
  BY DEF Spans
<1>3. ASSUME NEW i \in S \ D PROVE db[i].pid \in S \ D
  <2>1. i \in Objects(db) /\ db[i].pid \in S /\ db[i].pid \in Objects(db)
    BY DEF Spans
  <2> QED BY <2>1 DEF Sound
<1>4. S \ D = {}
  BY <1>2, <1>3 DEF Sound
<1> QED BY <1>1, <1>4

\* Nothing is below no object.
LEMMA SpansNothing ==
  ASSUME NEW db, Sound(db)
  PROVE  Spans(db, {}, {})
BY DEF Spans

\* All of D is in X.
InFolder(db, D, X) == \A i \in D : db[i].pid = X

\* What is in a folder does not contain it.
LEMMA SpansBelow ==
  ASSUME NEW db, Sound(db), NEW D, NEW S, Spans(db, D, S), NEW X,
         InFolder(db, D, X)
  PROVE  X \notin S
<1> SUFFICES ASSUME X \in S PROVE FALSE
  OBVIOUS
<1>1. S \in SUBSET Objects(db) /\ S # {}
  BY DEF Spans
<1>2. \A i \in S : db[i].pid \in S
  BY <1>1 DEF Spans, InFolder
<1> QED BY <1>1, <1>2 DEF Sound

\* What is below the objects of two sets.
LEMMA SpansUnion ==
  ASSUME NEW db, Sound(db), NEW D, NEW S, Spans(db, D, S),
         NEW k, NEW Sk, Spans(db, {k}, Sk)
  PROVE  Spans(db, D \cup {k}, S \cup Sk)
BY DEF Spans

\* Different children of a folder span different objects.
LEMMA SpansDisjoint ==
  ASSUME NEW db, Sound(db), NEW X, NEW D, NEW S, Spans(db, D, S),
         InFolder(db, D, X), NEW k, k \notin D, db[k].pid = X, NEW Sk, Spans(db, {k}, Sk)
  PROVE  S \cap Sk = {}
<1>0. InFolder(db, {k}, X)
  BY DEF InFolder
<1>1. X \notin S /\ X \notin Sk
  BY <1>0, SpansBelow
<1>2. S \cap Sk \in SUBSET Objects(db)
  BY DEF Spans
<1>3. ASSUME NEW i \in S \cap Sk PROVE db[i].pid \in S \cap Sk
  <2>1. i \in Objects(db)
    BY <1>2
  <2>2. i \in D \/ db[i].pid \in S
    BY <2>1 DEF Spans
  <2>3. i = k \/ db[i].pid \in Sk
    BY <2>1 DEF Spans
  <2>4. i # k
    BY <1>1, <2>2
  <2>5. i \notin D
    BY <1>1, <2>3 DEF InFolder
  <2> QED BY <2>2, <2>3, <2>4, <2>5
<1> QED BY <1>2, <1>3 DEF Sound

\* The same in a store in which the same objects are hidden more often.
LEMMA SpansFrame ==
  ASSUME NEW d0, NEW d1, Frame(d0, d1), NEW D, NEW S, Spans(d1, D, S)
  PROVE  Spans(d0, D, S)
BY DEF Frame, SameItem, Spans

\* A folder and what its children span.
LEMMA SpansFolder ==
  ASSUME NEW db, Sound(db), NEW X \in Objects(db), NEW S,
         Spans(db, {j \in Objects(db) : db[j].pid = X}, S)
  PROVE  Spans(db, {X}, {X} \cup S)
BY DEF Spans

-----------------------------------------------------------------------------
(* A method that hides or shows an object with everything below it.        *)

\* What a method finds.
Ready(s) == s \in Transactions /\ Sound(s.db) /\ Objects(s.db) \subseteq s.used

\* Method m hides, or shows, the object it is called on with all below it.
Moves(m, down) ==
  \A s \in Transactions, up \in BOOLEAN : \A X \in Objects(s.db) :
    LET r == m[<<s, s.db[X], up>>]
    IN Ready(s) /\ s.ok /\ r.ok =>
         /\ r.used = s.used
         /\ \E S : Spans(s.db, {X}, S) /\ Moved(s.db, r.db, S, down)

\* A transaction that hid or showed objects can go on.
LEMMA MovedReady ==
  ASSUME NEW s, Ready(s), NEW r \in Transactions, r.used = s.used,
         Frame(s.db, r.db)
  PROVE  Ready(r)
<1>1. r.db \in Stores
  BY DEF Transactions, Stores
<1> QED BY <1>1, FrameSound DEF Ready, Frame

\* From s to r, D and all below it was hidden or shown.
MovedOver(s, r, D, down) ==
  /\ r \in Transactions /\ r.used = s.used
  /\ \E S : Spans(s.db, D, S) /\ Moved(s.db, r.db, S, down)

DisjointSpan(db, S, k) == \A Sk : Spans(db, {k}, Sk) => S \cap Sk = {}

\* One more object: what it spans is disjoint from what is done.
LEMMA MovesOneMore ==
  ASSUME NEW m \in Methods(BOOLEAN), NEW down \in BOOLEAN, Moves(m, down),
         NEW s, Ready(s), NEW t, t \in Transactions, t.ok, t.used = s.used,
         NEW D, NEW S, Spans(s.db, D, S), Moved(s.db, t.db, S, down),
         NEW k \in Objects(t.db), NEW up \in BOOLEAN,
         m[<<t, t.db[k], up>>].ok,
         DisjointSpan(s.db, S, k)
  PROVE  MovedOver(s, m[<<t, t.db[k], up>>], D \cup {k}, down)
<1> DEFINE r == m[<<t, t.db[k], up>>]
<1>1. Frame(s.db, t.db)
  BY MovedFrame
<1>2. Ready(t)
  BY <1>1, MovedReady
<1>3. t.db[k] \in Records
  BY StoredIsRecord
<1>4. r \in Transactions
  BY <1>3 DEF Methods
<1>5. /\ r.used = t.used
      /\ \E Sk : Spans(t.db, {k}, Sk) /\ Moved(t.db, r.db, Sk, down)
  BY <1>2 DEF Moves
<1> HIDE DEF r
<1>6. PICK Sk : Spans(t.db, {k}, Sk) /\ Moved(t.db, r.db, Sk, down)
  BY <1>5
<1>7. Spans(s.db, {k}, Sk)
  BY <1>1, <1>6, SpansFrame
<1>8. S \cap Sk = {}
  BY <1>7 DEF DisjointSpan
<1>9. s.db \in Stores /\ t.db \in Stores /\ r.db \in Stores
  BY <1>2, <1>4 DEF Ready, Transactions, Stores
<1>10. Moved(s.db, r.db, S \cup Sk, down)
  BY <1>6, <1>8, <1>9, MovedComposes
<1>11. Spans(s.db, D \cup {k}, S \cup Sk)
  BY <1>7, SpansUnion DEF Ready
<1> QED BY <1>4, <1>5, <1>10, <1>11, <1>2 DEF r, MovedOver

\* What is done after the objects D.
MovedBy(s, down) ==
  {p \in (SUBSET Oids) \X Transactions :
     /\ p[2].used = s.used
     /\ \E S : Spans(s.db, p[1], S) /\ Moved(s.db, p[2].db, S, down)}

\* Calling the method for no object moves nothing.
LEMMA MovedByNone ==
  ASSUME NEW s, Ready(s), NEW down \in BOOLEAN
  PROVE  <<{}, s>> \in MovedBy(s, down)
<1>1. Spans(s.db, {}, {})
  BY SpansNothing DEF Ready
<1>2. SameLevels(s.db, s.db) /\ s.db \in Stores
  BY DEF SameLevels, Frame, SameItem, Ready, Sound
<1>3. Moved(s.db, s.db, {}, down)
  BY <1>2, SameLevelsMoved
<1> QED BY <1>1, <1>3 DEF MovedBy, Ready

\* For each of a set of shortcuts.
LEMMA MovesLeaves ==
  ASSUME NEW m \in Methods(BOOLEAN), NEW down \in BOOLEAN, Moves(m, down),
         NEW s, Ready(s), s.ok, NEW ids,
         \A i \in ids \cap Objects(s.db) : ~IsCollection(s.db[i]),
         ForEach(s, ids, m, TRUE).ok
  PROVE  LET r == ForEach(s, ids, m, TRUE)
         IN /\ r \in Transactions /\ r.used = s.used
            /\ ids \cap Oids \subseteq Objects(s.db)
            /\ Moved(s.db, r.db, ids \cap Oids, down)
<1> DEFINE r == ForEach(s, ids, m, TRUE)
           J == MovedBy(s, down)
<1>1. s \in Transactions /\ <<{}, s>> \in J
  BY MovedByNone DEF Ready
<1>2. KeptInTurn(J, ids, m, TRUE, FALSE)
  <2> SUFFICES ASSUME NEW done \in SUBSET (ids \cap Oids), NEW t \in Transactions,
                      NEW k \in (ids \cap Oids) \ done,
                      <<done, t>> \in J, t.ok, k \in Objects(t.db),
                      m[<<t, t.db[k], TRUE>>].ok
               PROVE  <<done \cup {k}, m[<<t, t.db[k], TRUE>>]>> \in J
    BY DEF KeptInTurn
  <2>1. PICK S : Spans(s.db, done, S) /\ Moved(s.db, t.db, S, down)
    BY DEF MovedBy
  <2>2. t.used = s.used
    BY DEF MovedBy
  <2>3. Frame(s.db, t.db)
    BY <2>1, MovedFrame
  <2>4. S = done
    BY <2>1, SpansLeaves DEF Ready, Spans
  <2>5. DisjointSpan(s.db, S, k)
    <3> SUFFICES ASSUME NEW Sk, Spans(s.db, {k}, Sk) PROVE S \cap Sk = {}
      BY DEF DisjointSpan
    <3>1. Sk = {k}
      BY <2>3, SpansLeaves DEF Ready, Frame
    <3> QED BY <2>4, <3>1
  <2>6. MovedOver(s, m[<<t, t.db[k], TRUE>>], done \cup {k}, down)
    BY <2>1, <2>2, <2>5, MovesOneMore
  <2>7. done \cup {k} \in SUBSET Oids
    OBVIOUS
  <2> QED BY <2>6, <2>7 DEF MovedBy, MovedOver
<1>3. r \in Transactions /\ <<ids \cap Oids, r>> \in J
  BY <1>1, <1>2, InTurnRule DEF ForEach
<1> HIDE DEF r
<1>4. PICK S : Spans(s.db, ids \cap Oids, S) /\ Moved(s.db, r.db, S, down)
  BY <1>3 DEF MovedBy
<1>5. S = ids \cap Oids
  BY <1>4, SpansLeaves DEF Ready, Spans
<1>6. r.used = s.used
  BY <1>3 DEF MovedBy
<1> QED BY <1>3, <1>4, <1>5, <1>6 DEF Spans, r

\* For each child of X.
LEMMA MovesChildren ==
  ASSUME NEW m \in Methods(BOOLEAN), NEW down \in BOOLEAN, Moves(m, down),
         NEW s, Ready(s), s.ok, NEW X, X # None,
         ForEachChild(s, X, m, FALSE).ok
  PROVE  LET r == ForEachChild(s, X, m, FALSE)
         IN /\ r \in Transactions /\ r.used = s.used
            /\ \E S : /\ Spans(s.db, Children(s, X), S)
                      /\ X \notin S
                      /\ Moved(s.db, r.db, S, down)
<1> DEFINE r == ForEachChild(s, X, m, FALSE)
           J == MovedBy(s, down)
           ids == Children(s, X)
<1>1. s \in Transactions /\ <<{}, s>> \in J
  BY MovedByNone DEF Ready
<1>2. ids \cap Oids = ids /\ \A i \in ids : i \in Objects(s.db) /\ s.db[i].pid = X
  BY DEF Children, Ready, Sound
<1>3. KeptInTurn(J, ids, m, FALSE, TRUE)
  <2> SUFFICES ASSUME NEW done \in SUBSET (ids \cap Oids), NEW t \in Transactions,
                      NEW k \in (ids \cap Oids) \ done,
                      <<done, t>> \in J, t.ok
               PROVE  /\ k \in Objects(t.db) /\ m[<<t, t.db[k], FALSE>>].ok =>
                           <<done \cup {k}, m[<<t, t.db[k], FALSE>>]>> \in J
                      /\ k \in Objects(t.db)
    BY DEF KeptInTurn
  <2>1. PICK S : Spans(s.db, done, S) /\ Moved(s.db, t.db, S, down)
    BY DEF MovedBy
  <2>2. t.used = s.used
    BY DEF MovedBy
  <2>3. Frame(s.db, t.db)
    BY <2>1, MovedFrame
  <2>4. k \in Objects(t.db)
    BY <1>2, <2>3 DEF Frame
  <2>5. DisjointSpan(s.db, S, k)
    <3> SUFFICES ASSUME NEW Sk, Spans(s.db, {k}, Sk) PROVE S \cap Sk = {}
      BY DEF DisjointSpan
    <3>1. s.db[k].pid = X /\ k \notin done /\ InFolder(s.db, done, X)
      BY <1>2 DEF InFolder
    <3>2. Sound(s.db) /\ Spans(s.db, done, S)
      BY <2>1 DEF Ready
    <3> QED BY <3>1, <3>2, SpansDisjoint
  <2>6. ASSUME m[<<t, t.db[k], FALSE>>].ok
        PROVE  MovedOver(s, m[<<t, t.db[k], FALSE>>], done \cup {k}, down)
    BY <2>1, <2>2, <2>4, <2>5, <2>6, MovesOneMore
  <2>7. done \cup {k} \in SUBSET Oids
    OBVIOUS
  <2> QED BY <2>4, <2>6, <2>7 DEF MovedBy, MovedOver
<1>4. r \in Transactions /\ <<ids, r>> \in J
  BY <1>1, <1>2, <1>3, InTurnRule DEF ForEachChild
<1> HIDE DEF r
<1>5. PICK S : Spans(s.db, ids, S) /\ Moved(s.db, r.db, S, down)
  BY <1>4 DEF MovedBy
<1>6. X \notin S
  BY <1>2, <1>5, SpansBelow DEF Ready, InFolder
<1>7. r.used = s.used
  BY <1>4 DEF MovedBy
<1> QED BY <1>4, <1>5, <1>6, <1>7 DEF r

\* The store once item is written under X.
Written(db, X, item) == [db EXCEPT ![X] = item]

\* What is stored once an object was written.
LEMMA PutStored ==
  ASSUME NEW db \in Stores, NEW item \in Records, NEW X, item.id = X
  PROVE  /\ X \in Ids
         /\ Written(db, X, item) \in Stores
         /\ Objects(Written(db, X, item)) = Objects(db) \cup {X}
         /\ Written(db, X, item)[X] = item
         /\ \A i : i # X => Written(db, X, item)[i] = db[i]
         /\ db[X] = item => Written(db, X, item) = db
<1>1. X \in Ids
  BY DEF Records
<1>2. item # Nothing
  BY NothingIsNoRecord
<1> QED BY <1>1, <1>2 DEF Stores, Objects, Written

\* Hiding the shortcuts of X, and then X, hides X: lo and hi are X before and
\* after, and what x and y hold of X does not matter.
LEMMA SwitchHidden ==
  ASSUME NEW x \in Stores, NEW y \in Stores, NEW lo \in Records,
         NEW hi \in Records, NEW X, lo.id = X, SameItem(lo, hi),
         hi.level = lo.level + 1,
         Sound(x), Sound(Written(x, X, lo)),
         X \in Objects(x) => SameItem(x[X], lo),
         Hidden(x, y, IF lo.level = 0 THEN lo.shortcuts \cap Oids ELSE {})
  PROVE  Hidden(Written(x, X, lo), Written(y, X, hi), {X})
<1> DEFINE T  == IF lo.level = 0 THEN lo.shortcuts \cap Oids ELSE {}
           x1 == Written(x, X, lo)
           y1 == Written(y, X, hi)
           C  == {i \in Objects(x) : x[i].level # y[i].level}
<1>1. /\ X \in Ids /\ x1 \in Stores /\ x1[X] = lo
      /\ Objects(x1) = Objects(x) \cup {X}
      /\ \A i : i # X => x1[i] = x[i]
  BY PutStored
<1>2. hi.id = X
  BY DEF SameItem
<1>3. /\ y1 \in Stores /\ y1[X] = hi
      /\ Objects(y1) = Objects(y) \cup {X}
      /\ \A i : i # X => y1[i] = y[i]
  BY <1>2, PutStored
<1> HIDE DEF x1, y1
<1>4. Frame(x, y) /\ Objects(x) = Objects(y)
  BY DEF Hidden, Frame
<1>5. Frame(x1, y1)
  BY <1>1, <1>3, <1>4 DEF Frame
<1>6. Sound(x1)
  BY DEF x1
<1>7. lo.target # X
  <2> SUFFICES ASSUME lo.target = X PROVE FALSE
    OBVIOUS
  <2>1. {X} \in SUBSET Objects(x1) /\ {X} # {} /\ \A j \in {X} : x1[j].target \in {X}
    BY <1>1
  <2> QED BY <1>6, <2>1 DEF Sound
<1>8. \A i \in Objects(x) : /\ x[i].level \in Int /\ y[i].level \in Int
                            /\ x1[i].target = x[i].target
  BY <1>1, <1>4 DEF Stores, Objects, Records, SameItem
<1>9. \A i \in Objects(x) \ {X} : i \in lo.shortcuts /\ i \in Oids <=> x[i].target = X
  <2>1. \A i \in Objects(x1) : i \in lo.shortcuts <=> x1[i].target = X
    BY <1>1, <1>6 DEF Sound
  <2>2. X # None
    BY <1>1, IdsOf
  <2> QED BY <1>1, <1>6, <1>8, <2>1, <2>2 DEF Sound
<1>10. X \notin lo.shortcuts
  BY <1>1, <1>6, <1>7 DEF Sound
<1>11. \A i \in Objects(x) :
         y[i].level = x[i].level + (IF i \in T THEN 1 ELSE 0)
                      + (IF Rises(x, y, x[i].target) THEN 1 ELSE 0)
  BY DEF Hidden
<1>12. ASSUME NEW i \in C PROVE x[i].target = X \/ x[i].target \in C
  <2>1. i \in T \/ Rises(x, y, x[i].target)
    BY <1>8, <1>11
  <2>2. ASSUME Rises(x, y, x[i].target) PROVE x[i].target \in C
    BY <1>8, <2>2 DEF Rises
  <2>3. ASSUME i \in T PROVE x[i].target = X
    BY <1>9, <1>10, <2>3
  <2> QED BY <2>1, <2>2, <2>3
<1>13. C \in SUBSET Objects(x)
  OBVIOUS
<1>14. ASSUME NEW t, Rises(x, y, t) PROVE t \in C
  BY <1>8, <1>14 DEF Rises
<1> HIDE DEF C, T
<1>15. X \notin C
  <2> SUFFICES ASSUME X \in C PROVE FALSE
    OBVIOUS
  <2>1. \A i \in C : x[i].target \in C
    BY <1>12
  <2> QED BY <1>13, <2>1 DEF Sound
<1>16. lo.target \notin C
  <2> SUFFICES ASSUME lo.target \in C PROVE FALSE
    OBVIOUS
  <2>1. \A i \in C \cup {X} : x1[i].target \in C \cup {X}
    BY <1>1, <1>12, <1>13, <1>8
  <2>2. C \cup {X} \in SUBSET Objects(x1) /\ C \cup {X} # {}
    BY <1>1, <1>13
  <2> QED BY <1>6, <2>1, <2>2 DEF Sound
<1>17. lo.level \in Int
  BY DEF Records
<1>18. ASSUME NEW i \in Objects(x1)
       PROVE  y1[i].level = x1[i].level + (IF i \in {X} THEN 1 ELSE 0)
                            + (IF Rises(x1, y1, x1[i].target) THEN 1 ELSE 0)
  <2>1. CASE i = X
    <3>1. ~Rises(x1, y1, lo.target)
      <4> SUFFICES ASSUME Rises(x1, y1, lo.target) PROVE FALSE
        OBVIOUS
      <4>1. Rises(x, y, lo.target)
        BY <1>1, <1>3, <1>7 DEF Rises
      <4> QED BY <1>14, <1>16, <4>1
    <3> QED BY <1>1, <1>3, <1>17, <2>1, <3>1
  <2>2. CASE i # X /\ x[i].target = X
    <3>1. i \in Objects(x) /\ y1[i] = y[i] /\ x1[i] = x[i]
      BY <1>1, <1>3, <2>2
    <3>2. Rises(x1, y1, X) <=> lo.level = 0
      BY <1>1, <1>3, <1>17 DEF Rises
    <3>3. ~Rises(x, y, X)
      BY <1>14, <1>15
    <3>4. i \in T <=> lo.level = 0
      BY <1>9, <2>2, <3>1 DEF T
    <3> QED BY <1>8, <1>11, <2>2, <3>1, <3>2, <3>3, <3>4
  <2>3. CASE i # X /\ x[i].target # X
    <3>1. i \in Objects(x) /\ y1[i] = y[i] /\ x1[i] = x[i]
      BY <1>1, <1>3, <2>3
    <3>2. Rises(x1, y1, x[i].target) <=> Rises(x, y, x[i].target)
      BY <1>1, <1>3, <2>3 DEF Rises
    <3>3. i \notin T
      BY <1>9, <2>3, <3>1 DEF T
    <3> QED BY <1>8, <1>11, <2>3, <3>1, <3>2, <3>3
  <2> QED BY <2>1, <2>2, <2>3
<1> QED BY <1>5, <1>18 DEF Hidden, x1, y1

\* Hiding what is in X, with the same X before and after.
LEMMA KeepHidden ==
  ASSUME NEW x \in Stores, NEW y \in Stores, NEW rec \in Records,
         NEW X, rec.id = X, rec.target = None,
         X \in Objects(x) => SameItem(x[X], rec),
         NEW S, X \notin S, Hidden(x, y, S)
  PROVE  Hidden(Written(x, X, rec), Written(y, X, rec), S)
<1> DEFINE x1 == Written(x, X, rec)
           y1 == Written(y, X, rec)
<1>1. /\ X \in Ids /\ x1 \in Stores /\ x1[X] = rec
      /\ Objects(x1) = Objects(x) \cup {X}
      /\ \A i : i # X => x1[i] = x[i]
  BY PutStored
<1>3. /\ y1 \in Stores /\ y1[X] = rec
      /\ Objects(y1) = Objects(y) \cup {X}
      /\ \A i : i # X => y1[i] = y[i]
  BY PutStored
<1> HIDE DEF x1, y1
<1>4. Frame(x, y) /\ Objects(x) = Objects(y)
  BY DEF Hidden, Frame
<1>5. Frame(x1, y1)
  BY <1>1, <1>3, <1>4 DEF Frame, SameItem
<1>6. \A i \in Objects(x) : x[i].level \in Int /\ y[i].level \in Int
  BY <1>4 DEF Stores, Objects, Records
<1>7. rec.level \in Int
  BY DEF Records
<1>8. ~Rises(x1, y1, X)
  BY <1>1, <1>3, <1>7 DEF Rises
<1>9. ~Rises(x, y, X)
  <2> SUFFICES ASSUME X \in Objects(x) PROVE ~Rises(x, y, X)
    BY DEF Rises
  <2>1. x[X].target = None /\ ~Rises(x, y, None)
    <3>1. None \notin Objects(x)
      BY IdsOf DEF Objects
    <3> QED BY <3>1 DEF SameItem, Rises
  <2>2. y[X].level = x[X].level
    BY <1>6, <2>1 DEF Hidden
  <2> QED BY <1>6, <2>2 DEF Rises
<1>10. \A t : Rises(x1, y1, t) <=> Rises(x, y, t)
  BY <1>1, <1>3, <1>8, <1>9 DEF Rises
<1>11. ~Rises(x1, y1, None)
  BY <1>1, IdsOf DEF Rises, Objects
<1>12. ASSUME NEW i \in Objects(x1)
       PROVE  y1[i].level = x1[i].level + (IF i \in S THEN 1 ELSE 0)
                            + (IF Rises(x1, y1, x1[i].target) THEN 1 ELSE 0)
  <2>1. CASE i = X
    BY <1>1, <1>3, <1>7, <1>11, <2>1
  <2>2. CASE i # X
    <3>1. i \in Objects(x) /\ y1[i] = y[i] /\ x1[i] = x[i]
      BY <1>1, <1>3, <2>2
    <3> QED BY <1>10, <3>1 DEF Hidden
  <2> QED BY <2>1, <2>2
<1> QED BY <1>5, <1>12 DEF Hidden, x1, y1

\* The shortcuts of an object, if it is stored.
LEMMA ShortcutsAreLeaves ==
  ASSUME NEW db, Sound(db), NEW X \in Objects(db),
         NEW i \in db[X].shortcuts \cap Objects(db)
  PROVE  ~IsCollection(db[i]) /\ i # X /\ i \in Oids /\ db[i].target = X
<1>1. db[i].target = X
  BY DEF Sound
<1>2. X # None
  BY IdsOf DEF Objects
<1>3. db[i].kind = "shortcut" /\ i \in Oids
  BY <1>1, <1>2 DEF Sound
<1>4. i # X
  <2> SUFFICES ASSUME i = X PROVE FALSE
    OBVIOUS
  <2>1. {X} \in SUBSET Objects(db) /\ {X} # {} /\ \A j \in {X} : db[j].target \in {X}
    BY <1>1
  <2> QED BY <2>1 DEF Sound
<1> QED BY <1>1, <1>3, <1>4 DEF IsCollection

-----------------------------------------------------------------------------
(* Recycling.                                                              *)

\* _recycle hides the object with all below it if its nested calls do.
LEMMA RecycleStepMoves ==
  ASSUME NEW m \in Methods(BOOLEAN), Moves(m, TRUE),
         NEW s, Ready(s), s.ok, NEW up \in BOOLEAN, NEW X \in Objects(s.db),
         RecycleWith(s, s.db[X], up, m).ok
  PROVE  MovedOver(s, RecycleWith(s, s.db[X], up, m), {X}, TRUE)
<1> DEFINE self == s.db[X]
           r == RecycleWith(s, self, up, m)
           hidden == [self EXCEPT !.level = @ + 1]
<1>1. s \in Transactions /\ s.db \in Stores /\ Sound(s.db) /\ X \in s.used /\ X \in Ids
  BY DEF Ready, Sound, Objects
<1>2. self \in Records /\ self.id = X
  BY <1>1, StoredIsRecord DEF Sound
<1>3. /\ hidden \in Records /\ hidden.id = X /\ SameItem(self, hidden)
      /\ hidden.level = self.level + 1
  <2>1. self.level + 1 \in Int
    BY <1>2 DEF Records
  <2> QED BY <1>2, <2>1, LevelChanged DEF SameItem
<1>4. r \in Transactions /\ RecycleSteps(s, self, up, m, r)
  BY <1>1, <1>2, RecycleWithSteps
<1> HIDE DEF r, hidden
<1>5. PICK a, b, c \in Transactions :
        /\ IF IsDeleted(self) THEN a = s
           ELSE LET d == ForEach(s, self.shortcuts, m, TRUE)
                IN d.ok /\ a = Erase(d, self)
        /\ b = Put(a, hidden)
        /\ c = IF up THEN CountInParent(b, self, -1) ELSE b
        /\ r = IF ~IsCollection(self) THEN c
               ELSE ForEachChild(c, self.id, m, FALSE)
        /\ a.ok /\ b.ok /\ c.ok
  BY <1>4 DEF RecycleSteps, hidden
<1>6. b.used = a.used \cup {X} /\ b.db = Written(a.db, X, hidden)
  BY <1>3, <1>5, PutEffect DEF PutDone, Written
<1>7. s.db = Written(s.db, X, self)
  BY <1>1, <1>2, PutStored
<1>8. b.used = s.used /\ Hidden(s.db, b.db, {X})
  <2>1. CASE IsDeleted(self)
    <3>1. a = s /\ self.level # 0
      BY <1>5, <2>1 DEF IsDeleted
    <3>2. Hidden(s.db, s.db, {})
      <4>1. SameLevels(s.db, s.db)
        BY DEF SameLevels, Frame, SameItem
      <4> QED BY <1>1, <4>1, SameLevelsMoved DEF Moved
    <3>3. Hidden(Written(s.db, X, self), Written(s.db, X, hidden), {X})
      <4>1. SameItem(self, self)
        BY DEF SameItem
      <4>2. Sound(Written(s.db, X, self))
        BY <1>1, <1>7
      <4>3. Hidden(s.db, s.db, IF self.level = 0 THEN self.shortcuts \cap Oids
                                ELSE {})
        BY <3>1, <3>2
      <4> HIDE DEF self
      <4> QED BY <1>1, <1>2, <1>3, <4>1, <4>2, <4>3, SwitchHidden DEF self
    <3> QED BY <1>1, <1>6, <1>7, <3>1, <3>3
  <2>2. CASE ~IsDeleted(self)
    <3> DEFINE d == ForEach(s, self.shortcuts, m, TRUE)
    <3>1. d.ok /\ a = Erase(d, self) /\ self.level = 0
      BY <1>5, <2>2 DEF IsDeleted
    <3>2. \A i \in self.shortcuts \cap Objects(s.db) : ~IsCollection(s.db[i])
      BY <1>1, ShortcutsAreLeaves
    <3>3. /\ d \in Transactions /\ d.used = s.used
          /\ Moved(s.db, d.db, self.shortcuts \cap Oids, TRUE)
      BY <3>1, <3>2, MovesLeaves
    <3> HIDE DEF d
    <3>4. a.used = s.used /\ a.db = [d.db EXCEPT ![X] = Nothing]
      BY <1>2, <1>5, <3>1, <3>3, EraseEffect DEF EraseDone
    <3>5. d.db \in Stores
      BY <3>3 DEF Transactions, Stores
    <3>6. b.db = Written(d.db, X, hidden)
      BY <1>6, <3>4, <3>5 DEF Stores, Written
    <3>7. Hidden(Written(s.db, X, self), Written(d.db, X, hidden), {X})
      <4>1. SameItem(self, self)
        BY DEF SameItem
      <4>2. Sound(Written(s.db, X, self))
        BY <1>1, <1>7
      <4>3. Hidden(s.db, d.db, IF self.level = 0 THEN self.shortcuts \cap Oids
                                ELSE {})
        BY <3>1, <3>3 DEF Moved
      <4> HIDE DEF self
      <4> QED BY <1>1, <1>2, <1>3, <3>5, <4>1, <4>2, <4>3, SwitchHidden DEF
                 self
    <3> QED BY <1>1, <1>6, <1>7, <3>4, <3>6, <3>7
  <2> QED BY <2>1, <2>2
<1>9. Ready(b)
  BY <1>8, MovedReady DEF Hidden
<1>10. c.used = s.used /\ Hidden(b.db, c.db, {}) /\ Ready(c)
  <2>1. c.used = b.used /\ SameLevels(b.db, c.db)
    <3>1. CASE up
      BY <1>2, <1>5, <1>9, <3>1, CountKeepsLevels DEF Ready
    <3>2. CASE ~up
      BY <1>5, <3>2 DEF SameLevels, Frame, SameItem
    <3> QED BY <3>1, <3>2
  <2>2. b.db \in Stores
    BY <1>9 DEF Ready, Sound
  <2>3. Hidden(b.db, c.db, {})
    BY <2>1, <2>2, SameLevelsMoved DEF Moved
  <2>4. Ready(c)
    BY <1>9, <2>1, MovedReady DEF SameLevels
  <2> QED BY <1>8, <2>1, <2>3, <2>4
<1>11. Hidden(s.db, c.db, {X})
  <2>1. b.db \in Stores /\ c.db \in Stores /\ {X} \cap {} = {} /\ {X} \cup {} = {X}
    BY <1>9, <1>10 DEF Ready, Sound
  <2> QED BY <1>1, <1>8, <1>10, <2>1, HiddenComposes
<1>12. CASE ~IsCollection(self)
  <2>1. r = c
    BY <1>5, <1>12
  <2>2. Spans(s.db, {X}, {X})
    BY <1>1, <1>12 DEF Sound, Spans
  <2> QED BY <1>10, <1>11, <2>1, <2>2 DEF MovedOver, Moved, r
<1>13. CASE IsCollection(self)
  <2>1. r = ForEachChild(c, X, m, FALSE)
    BY <1>2, <1>5, <1>13
  <2>2. r.ok
    BY DEF r
  <2>3. X # None
    BY <1>1, IdsOf
  <2>4. /\ r.used = c.used
        /\ \E S : /\ Spans(c.db, Children(c, X), S)
                  /\ X \notin S
                  /\ Moved(c.db, r.db, S, TRUE)
    <3>1. c.ok /\ ForEachChild(c, X, m, FALSE).ok
      BY <1>5, <2>1, <2>2
    <3> QED BY <1>10, <2>1, <2>3, <3>1, MovesChildren, Zenon
  <2>5. PICK S : /\ Spans(c.db, Children(c, X), S)
                 /\ X \notin S
                 /\ Moved(c.db, r.db, S, TRUE)
    BY <2>4
  <2>6. c.db \in Stores /\ r.db \in Stores
    BY <1>4, <1>10 DEF Ready, Sound, Transactions, Stores
  <2>7. Hidden(s.db, r.db, {X} \cup S)
    BY <1>1, <1>11, <2>5, <2>6, HiddenComposes DEF Moved
  <2>8. Spans(c.db, {X}, {X} \cup S)
    <3>1. X \in Objects(c.db)
      BY <1>11 DEF Hidden, Frame
    <3> QED BY <1>10, <2>5, <3>1, SpansFolder DEF Ready, Children
  <2>9. Spans(s.db, {X}, {X} \cup S)
    BY <1>11, <2>8, SpansFrame DEF Hidden
  <2> QED BY <1>4, <1>10, <2>4, <2>7, <2>9 DEF MovedOver, Moved, r
<1> QED BY <1>12, <1>13

\* Recycling hides the object and everything below it once more, and the
\* shortcuts of all that was visible.
LEMMA RecycleMoves == \A n \in Nat : Moves(RecycleWithin[n], TRUE)
<1> DEFINE T == {n \in Nat : Moves(RecycleWithin[n], TRUE)}
<1>1. 0 \in T
  <2>1. ASSUME NEW s \in Transactions, NEW up \in BOOLEAN, NEW X \in Objects(s.db)
        PROVE  ~RecycleWithin[0][<<s, s.db[X], up>>].ok
    BY StoredIsRecord, RecycleUnfolds
  <2> QED BY <2>1 DEF Moves
<1>2. ASSUME NEW n \in T PROVE n + 1 \in T
  <2> DEFINE m == RecycleWithin[n]
  <2>1. m \in Methods(BOOLEAN) /\ Moves(m, TRUE)
    BY RecycleWithinUnfolds
  <2>2. ASSUME NEW s \in Transactions, NEW up \in BOOLEAN, NEW X \in Objects(s.db),
               Ready(s), s.ok, RecycleWithin[n + 1][<<s, s.db[X], up>>].ok
        PROVE  MovedOver(s, RecycleWithin[n + 1][<<s, s.db[X], up>>], {X}, TRUE)
    <3>1. s.db[X] \in Records /\ n + 1 \in Nat /\ n + 1 > 0 /\ n + 1 - 1 = n
      BY StoredIsRecord
    <3>2. RecycleWithin[n + 1][<<s, s.db[X], up>>] = RecycleWith(s, s.db[X], up, m)
      BY <3>1, RecycleUnfolds
    <3> HIDE DEF m
    <3> QED BY <2>1, <2>2, <3>2, RecycleStepMoves
  <2>3. Moves(RecycleWithin[n + 1], TRUE)
    BY <2>2 DEF Moves, MovedOver
  <2>4. n + 1 \in Nat
    OBVIOUS
  <2> QED BY <2>3, <2>4
<1> HIDE DEF T
<1>3. Nat \subseteq T
  BY <1>1, <1>2, SetInduction
<1> QED BY <1>3 DEF T

-----------------------------------------------------------------------------
(* Bringing back.                                                          *)

\* A method that shows the object in memory and everything below it, stored
\* or not: db is the store with the object in it.
ShownOver(s, self, r) ==
  LET db == Written(s.db, self.id, self)
  IN /\ r \in Transactions /\ r.used = s.used
     /\ \E S : Spans(db, {self.id}, S) /\ Hidden(r.db, db, S)

ReadyFor(s, self) ==
  /\ Ready(s) /\ self.id \in s.used
  /\ Sound(Written(s.db, self.id, self))
  /\ self.id \in Objects(s.db) => SameItem(s.db[self.id], self)

Shows(m) ==
  \A s \in Transactions, self \in Records, up \in BOOLEAN :
    LET r == m[<<s, self, up>>]
    IN ReadyFor(s, self) /\ s.ok /\ r.ok => ShownOver(s, self, r)

\* _undelete of an object as it is stored shows it with all below it.
LEMMA ShowsMoves ==
  ASSUME NEW m, Shows(m)
  PROVE  Moves(m, FALSE)
<1> SUFFICES ASSUME NEW s \in Transactions, NEW up \in BOOLEAN,
                    NEW X \in Objects(s.db), Ready(s), s.ok,
                    m[<<s, s.db[X], up>>].ok
             PROVE  LET r == m[<<s, s.db[X], up>>]
                    IN /\ r.used = s.used
                       /\ \E S : Spans(s.db, {X}, S) /\ Moved(s.db, r.db, S, FALSE)
  BY DEF Moves
<1> DEFINE self == s.db[X]
           r == m[<<s, self, up>>]
<1>1. s.db \in Stores /\ Sound(s.db) /\ X \in s.used
  BY DEF Ready, Sound
<1>2. self \in Records /\ self.id = X
  BY <1>1, StoredIsRecord DEF Sound
<1> HIDE DEF self
<1>3. Written(s.db, X, self) = s.db
  BY <1>1, <1>2, PutStored DEF self
<1>4. ReadyFor(s, self)
  BY <1>1, <1>2, <1>3 DEF ReadyFor, SameItem, self
<1>5. r.ok
  BY DEF self
<1>6. ShownOver(s, self, r)
  BY <1>2, <1>4, <1>5 DEF Shows
<1> HIDE DEF r
<1>7. r.used = s.used /\ \E S : Spans(s.db, {X}, S) /\ Moved(s.db, r.db, S, FALSE)
  BY <1>2, <1>3, <1>6 DEF ShownOver, Moved
<1> QED BY <1>7 DEF r, self

\* _undelete does if its nested calls do.
LEMMA UndeleteStepShows ==
  ASSUME NEW m \in Methods(BOOLEAN), Shows(m),
         NEW s, NEW self \in Records, ReadyFor(s, self), s.ok, NEW up \in BOOLEAN,
         UndeleteWith(s, self, up, m).ok
  PROVE  ShownOver(s, self, UndeleteWith(s, self, up, m))
<1> DEFINE X == self.id
           r == UndeleteWith(s, self, up, m)
           shown == [self EXCEPT !.level = @ - 1]
           d0 == Written(s.db, X, self)
<1>1. /\ s \in Transactions /\ s.db \in Stores /\ Sound(s.db)
      /\ X \in s.used /\ Ready(s)
      /\ X \in Objects(s.db) => SameItem(s.db[X], self)
  BY DEF ReadyFor, Ready, Sound
<1>2. /\ X \in Ids /\ d0 \in Stores /\ d0[X] = self
      /\ Objects(d0) = Objects(s.db) \cup {X}
      /\ \A i : i # X => d0[i] = s.db[i]
  BY <1>1, PutStored
<1>3. Sound(d0)
  BY DEF ReadyFor
<1>4. /\ shown \in Records /\ shown.id = X /\ SameItem(shown, self)
      /\ self.level = shown.level + 1
  <2>1. self.level - 1 \in Int /\ self.level - 1 + 1 = self.level
    BY DEF Records
  <2> QED BY <2>1, LevelChanged DEF SameItem
<1>5. r \in Transactions /\ UndeleteSteps(s, self, up, m, r)
  BY <1>1, UndeleteWithSteps
<1> HIDE DEF r, shown, d0
<1>6. PICK a, b, c \in Transactions :
       /\ a = IF IsDeleted(shown) THEN s
              ELSE ForEach(s, shown.shortcuts, m, TRUE)
       /\ b = IF up THEN CountInParent(a, self, 1) ELSE a
       /\ c = IF ~IsCollection(self) THEN b
              ELSE ForEachChild(b, self.id, m, FALSE)
       /\ r = Put(c, shown)
       /\ a.ok /\ b.ok /\ c.ok
  BY <1>5 DEF UndeleteSteps, shown
<1>7. Moves(m, FALSE)
  BY ShowsMoves
<1>8. /\ a.used = s.used
      /\ Hidden(a.db, s.db, IF shown.level = 0 THEN shown.shortcuts \cap Oids ELSE {})
  <2>1. CASE IsDeleted(shown)
    <3>1. a = s /\ shown.level # 0
      BY <1>6, <2>1 DEF IsDeleted
    <3>2. SameLevels(s.db, s.db)
      BY DEF SameLevels, Frame, SameItem
    <3>3. Hidden(s.db, s.db, {})
      BY <1>1, <3>2, SameLevelsMoved DEF Moved
    <3> QED BY <3>1, <3>3
  <2>2. CASE ~IsDeleted(shown)
    <3>1. a = ForEach(s, shown.shortcuts, m, TRUE) /\ shown.level = 0 /\ a.ok
      BY <1>6, <2>2 DEF IsDeleted
    <3>2. \A i \in shown.shortcuts \cap Objects(s.db) : ~IsCollection(s.db[i])
      <4> SUFFICES ASSUME NEW i \in shown.shortcuts \cap Objects(s.db)
                   PROVE  ~IsCollection(s.db[i])
        OBVIOUS
      <4>1. i \in d0[X].shortcuts \cap Objects(d0) /\ X \in Objects(d0)
        BY <1>2, <1>4 DEF SameItem
      <4>2. ~IsCollection(d0[i]) /\ i # X
        BY <1>3, <4>1, ShortcutsAreLeaves
      <4> QED BY <1>2, <4>2
    <3>3. /\ a.used = s.used
          /\ Moved(s.db, a.db, shown.shortcuts \cap Oids, FALSE)
      BY <1>1, <1>7, <3>1, <3>2, MovesLeaves
    <3> QED BY <3>1, <3>3 DEF Moved
  <2> QED BY <2>1, <2>2
<1>9. Frame(s.db, a.db) /\ Ready(a) /\ a.db \in Stores
  <2>1. Frame(s.db, a.db)
    BY <1>8, FrameSymmetric DEF Hidden
  <2>2. Ready(a)
    BY <1>1, <1>8, <2>1, MovedReady
  <2> QED BY <2>1, <2>2 DEF Ready, Sound
<1> DEFINE a1 == Written(a.db, X, shown)
           b1 == Written(b.db, X, shown)
           c1 == Written(c.db, X, shown)
<1>10. /\ a1 \in Stores /\ a1[X] = shown
       /\ Objects(a1) = Objects(a.db) \cup {X}
       /\ \A i : i # X => a1[i] = a.db[i]
  BY <1>4, <1>9, PutStored
<1> HIDE DEF a1
<1>11. Frame(d0, a1) /\ Sound(a1)
  <2>1. Frame(d0, a1)
    BY <1>2, <1>4, <1>9, <1>10 DEF Frame, SameItem
  <2> QED BY <1>3, <1>10, <2>1, FrameSound
<1>12. Hidden(a1, d0, {X})
  <2>1. X \in Objects(a.db) => SameItem(a.db[X], shown)
    BY <1>1, <1>4, <1>9 DEF Frame, SameItem
  <2>2. Sound(a.db) /\ Sound(Written(a.db, X, shown))
    BY <1>9, <1>11 DEF Ready, a1
  <2> QED BY <1>1, <1>4, <1>8, <1>9, <2>1, <2>2, SwitchHidden DEF a1, d0
<1>13. b.used = s.used /\ SameLevels(a.db, b.db) /\ Ready(b) /\ b.db \in Stores
  <2>1. b.used = a.used /\ SameLevels(a.db, b.db)
    <3>1. CASE up
      <4>1. b = CountInParent(a, self, 1) /\ b.ok /\ 1 \in Int
        BY <1>6, <3>1
      <4>2. Sound(a.db) /\ Objects(a.db) \subseteq a.used
        BY <1>9 DEF Ready
      <4> QED BY <4>1, <4>2, CountKeepsLevels
    <3>2. CASE ~up
      BY <1>6, <3>2 DEF SameLevels, Frame, SameItem
    <3> QED BY <3>1, <3>2
  <2>2. Ready(b)
    BY <1>9, <2>1, MovedReady DEF SameLevels
  <2> QED BY <1>8, <2>1, <2>2 DEF Ready, Sound
<1>14. /\ b1 \in Stores /\ b1[X] = shown
       /\ Objects(b1) = Objects(b.db) \cup {X}
       /\ \A i : i # X => b1[i] = b.db[i]
  BY <1>4, <1>13, PutStored
<1> HIDE DEF b1
<1>15. Hidden(b1, d0, {X})
  <2>1. SameLevels(a1, b1)
    BY <1>10, <1>13, <1>14 DEF SameLevels, Frame, SameItem
  <2>2. Hidden(b1, a1, {})
    BY <1>10, <2>1, SameLevelsMoved DEF Moved
  <2>3. {} \cap {X} = {} /\ {} \cup {X} = {X}
    OBVIOUS
  <2> QED BY <1>2, <1>10, <1>12, <1>14, <2>2, <2>3, HiddenComposes
<1>16. r.db = c1 /\ r.used = c.used \cup {X}
  <2>1. r.ok /\ r = Put(c, shown)
    BY <1>6 DEF r
  <2>2. PutDone(c, shown, r)
    BY <1>4, <2>1, PutEffect
  <2> QED BY <1>4, <2>2 DEF PutDone, Written
<1>17. CASE ~IsCollection(self)
  <2>1. c = b
    BY <1>6, <1>17
  <2>2. Spans(d0, {X}, {X})
    BY <1>2, <1>3, <1>17 DEF Sound, Spans
  <2> QED BY <1>1, <1>5, <1>13, <1>15, <1>16, <2>1, <2>2 DEF ShownOver, b1, d0,
             r
<1>18. CASE IsCollection(self)
  <2>1. c = ForEachChild(b, X, m, FALSE) /\ c.ok
    BY <1>6, <1>18
  <2>2. X # None
    BY <1>2, IdsOf
  <2>3. /\ c.used = b.used
        /\ \E S : /\ Spans(b.db, Children(b, X), S)
                  /\ X \notin S
                  /\ Moved(b.db, c.db, S, FALSE)
    <3>1. b.ok /\ ForEachChild(b, X, m, FALSE).ok
      BY <1>6, <2>1
    <3> HIDE DEF X
    <3> QED BY <1>7, <1>13, <2>1, <2>2, <3>1, MovesChildren
  <2>4. PICK S : /\ Spans(b.db, Children(b, X), S)
                 /\ X \notin S
                 /\ Moved(b.db, c.db, S, FALSE)
    BY <2>3
  <2>5. shown.target = None
    BY <1>2, <1>3, <1>4, <1>18 DEF Sound, IsCollection, SameItem
  <2>6. X \in Objects(b.db) => SameItem(b.db[X], shown)
    BY <1>1, <1>4, <1>9, <1>13 DEF SameLevels, Frame, SameItem
  <2>7. c.db \in Stores
    BY DEF Transactions, Stores
  <2>8. X \in Objects(c.db) => SameItem(c.db[X], shown)
    BY <2>4, <2>6 DEF Moved, Hidden, Frame, SameItem
  <2>9. Hidden(c1, b1, S)
    BY <1>4, <1>13, <2>4, <2>5, <2>7, <2>8, KeepHidden DEF Moved, b1
  <2>10. c1 \in Stores
    BY <1>4, <2>7, PutStored
  <2> HIDE DEF c1
  <2>11. Hidden(c1, d0, S \cup {X})
    BY <1>2, <1>14, <1>15, <2>4, <2>9, <2>10, HiddenComposes
  <2>12. Spans(d0, {X}, S \cup {X})
    <3>1. /\ Objects(b.db) = Objects(s.db)
          /\ \A i \in Objects(b.db) : b.db[i].pid = s.db[i].pid
      BY <1>9, <1>13 DEF SameLevels, Frame, SameItem
    <3>2. S \subseteq Objects(d0)
      BY <1>2, <2>4, <3>1 DEF Spans
    <3>3. ASSUME NEW i \in Objects(d0), i # X
          PROVE  i \in S <=> d0[i].pid \in S \cup {X}
      <4>1. i \in Objects(b.db) /\ d0[i].pid = b.db[i].pid
        BY <1>2, <3>1, <3>3
      <4> QED BY <2>4, <4>1 DEF Spans, Children
    <3> QED BY <1>2, <3>2, <3>3 DEF Spans
  <2> QED BY <1>1, <1>5, <1>13, <1>16, <2>3, <2>11, <2>12 DEF ShownOver, d0, r
<1> QED BY <1>17, <1>18

\* Undelete shows the object and everything below it once more, and the
\* shortcuts of all that becomes visible.
LEMMA UndeleteShows == \A n \in Nat : Shows(UndeleteWithin[n])
<1> DEFINE T == {n \in Nat : Shows(UndeleteWithin[n])}
<1>1. 0 \in T
  <2>1. ASSUME NEW s \in Transactions, NEW self \in Records, NEW up \in BOOLEAN
        PROVE  ~UndeleteWithin[0][<<s, self, up>>].ok
    BY UndeleteUnfolds
  <2> QED BY <2>1 DEF Shows
<1>2. ASSUME NEW n \in T PROVE n + 1 \in T
  <2> DEFINE m == UndeleteWithin[n]
  <2>1. m \in Methods(BOOLEAN) /\ Shows(m)
    BY UndeleteWithinUnfolds
  <2>2. ASSUME NEW s \in Transactions, NEW self \in Records, NEW up \in BOOLEAN,
               ReadyFor(s, self), s.ok, UndeleteWithin[n + 1][<<s, self, up>>].ok
        PROVE  ShownOver(s, self, UndeleteWithin[n + 1][<<s, self, up>>])
    <3>1. n + 1 \in Nat /\ n + 1 > 0 /\ n + 1 - 1 = n
      OBVIOUS
    <3>2. UndeleteWithin[n + 1][<<s, self, up>>] = UndeleteWith(s, self, up, m)
      BY <3>1, UndeleteUnfolds
    <3> HIDE DEF m
    <3> QED BY <2>1, <2>2, <3>2, UndeleteStepShows
  <2>3. Shows(UndeleteWithin[n + 1])
    BY <2>2 DEF Shows
  <2>4. n + 1 \in Nat
    OBVIOUS
  <2> QED BY <2>3, <2>4
<1> HIDE DEF T
<1>3. Nat \subseteq T
  BY <1>1, <1>2, SetInduction
<1> QED BY <1>3 DEF T

-----------------------------------------------------------------------------
(* Deleting.                                                               *)

\* The objects D are gone, and other objects have lost them from their lists.
Cut(d0, d1, D) ==
  /\ D \subseteq Objects(d0)
  /\ Objects(d1) = Objects(d0) \ D
  /\ \A i \in Objects(d1) :
       /\ d1[i].id = d0[i].id /\ d1[i].kind = d0[i].kind
       /\ d1[i].pid = d0[i].pid
       /\ d1[i].level = d0[i].level /\ d1[i].target = d0[i].target
       /\ d1[i].ref = d0[i].ref
       /\ d1[i].shortcuts = d0[i].shortcuts \ D

\* Nothing that is left is in one of them or points to one of them.
Detached(db, D) ==
  \A i \in Objects(db) \ D : db[i].pid \notin D /\ db[i].target \notin D

\* R is among them, and each of the others is in one of them or points to one.
Hangs(db, D, R) ==
  R \subseteq D /\ \A i \in D : i \in R \/ db[i].pid \in D \/ db[i].target \in D

Removed(d0, d1, D, R) == Cut(d0, d1, D) /\ Detached(d0, D) /\ Hangs(d0, D, R)

\* Removing objects with their shortcuts leaves a sound store.
LEMMA CutSound ==
  ASSUME NEW d0, Sound(d0), NEW d1 \in Stores, NEW D, Cut(d0, d1, D)
  PROVE  Sound(d1)
<1>1. Objects(d1) \subseteq Objects(d0) /\ Objects(d1) \cap D = {}
  BY DEF Cut
<1>2. \A i \in Objects(d1) : d1[i].id = i
  BY <1>1 DEF Sound, Cut
<1>3. \A i \in Objects(d1) :
       /\ d1[i].pid \in Objects(d1) => IsCollection(d1[d1[i].pid])
       /\ d1[i].target # None => d1[i].kind = "shortcut"
       /\ i \notin Oids => d1[i].pid = None /\ d1[i].target = None
  BY <1>1 DEF Sound, Cut, IsCollection
<1>4. ASSUME NEW i \in Objects(d1), NEW k \in Objects(d1)
      PROVE  k \in d1[i].shortcuts <=> d1[k].target = i
  <2>1. d1[i].shortcuts = d0[i].shortcuts \ D /\ d1[k].target = d0[k].target
    BY DEF Cut
  <2>2. k \in d0[i].shortcuts <=> d0[k].target = i
    BY <1>1 DEF Sound
  <2>3. k \notin D
    BY <1>1
  <2> QED BY <2>1, <2>2, <2>3
<1>5. ASSUME NEW S \in SUBSET Objects(d1), S # {}
      PROVE  (\E i \in S : d1[i].pid \notin S) /\ (\E i \in S : d1[i].target \notin S)
  <2>1. S \in SUBSET Objects(d0)
    BY <1>1
  <2>2. \A i \in S : d1[i].pid = d0[i].pid /\ d1[i].target = d0[i].target
    BY DEF Cut
  <2>3. (\E i \in S : d0[i].pid \notin S) /\ (\E i \in S : d0[i].target \notin S)
    BY <1>5, <2>1 DEF Sound
  <2> QED BY <2>2, <2>3
<1> QED BY <1>2, <1>3, <1>4, <1>5 DEF Sound

\* And a transaction that can go on.
LEMMA CutReady ==
  ASSUME NEW s, Ready(s), NEW r \in Transactions, r.used = s.used,
         NEW D, Cut(s.db, r.db, D)
  PROVE  Ready(r)
<1>1. r.db \in Stores
  BY DEF Transactions, Stores
<1>2. Sound(r.db)
  BY <1>1, CutSound DEF Ready
<1>3. Objects(r.db) \subseteq Objects(s.db)
  BY DEF Cut
<1> QED BY <1>2, <1>3 DEF Ready

\* Removing two sets one after the other removes their union.
LEMMA CutComposes ==
  ASSUME NEW d0, NEW d1, NEW d2, NEW D1, NEW D2, Cut(d0, d1, D1), Cut(d1, d2, D2)
  PROVE  Cut(d0, d2, D1 \cup D2)
<1>1. D1 \cup D2 \subseteq Objects(d0) /\ Objects(d2) = Objects(d0) \ (D1 \cup D2)
  BY DEF Cut
<1>2. \A i \in Objects(d2) : i \in Objects(d1)
  BY DEF Cut
<1>3. ASSUME NEW i \in Objects(d2)
      PROVE  d2[i].shortcuts = d0[i].shortcuts \ (D1 \cup D2)
  <2>1. d2[i].shortcuts = d1[i].shortcuts \ D2
    BY DEF Cut
  <2>2. d1[i].shortcuts = d0[i].shortcuts \ D1
    BY <1>2 DEF Cut
  <2> QED BY <2>1, <2>2
<1> QED BY <1>1, <1>2, <1>3 DEF Cut

\* The same with all that hangs from them.
LEMMA RemovedComposes ==
  ASSUME NEW d0, NEW d1, NEW d2, NEW D1, NEW D2, NEW R1, NEW R2,
         Removed(d0, d1, D1, R1), Removed(d1, d2, D2, R2)
  PROVE  Removed(d0, d2, D1 \cup D2, R1 \cup R2)
<1>1. Cut(d0, d2, D1 \cup D2)
  BY CutComposes DEF Removed
<1>2. \A i \in Objects(d1) : d1[i].pid = d0[i].pid /\ d1[i].target = d0[i].target
  BY DEF Removed, Cut
<1>3. Objects(d1) = Objects(d0) \ D1 /\ D2 \subseteq Objects(d1)
  BY DEF Removed, Cut
<1>4. Detached(d0, D1 \cup D2)
  BY <1>2, <1>3 DEF Removed, Detached
<1>5. Hangs(d0, D1 \cup D2, R1 \cup R2)
  BY <1>2, <1>3 DEF Removed, Hangs
<1> QED BY <1>1, <1>4, <1>5 DEF Removed

\* Method m removes the object it is called on with all that hangs from it.
Deletes(m) ==
  \A s \in Transactions, up \in BOOLEAN : \A X \in Objects(s.db) :
    LET r == m[<<s, s.db[X], up>>]
    IN Ready(s) /\ s.ok /\ r.ok =>
         r.used = s.used /\ \E D : Removed(s.db, r.db, D, {X})

RemovedOver(s, r, R) ==
  /\ r \in Transactions /\ r.used = s.used
  /\ \E D : Removed(s.db, r.db, D, R)

\* Removing no object changes nothing.
LEMMA RemovedNothing ==
  ASSUME NEW db, Sound(db)
  PROVE  Removed(db, db, {}, {})
BY DEF Removed, Cut, Detached, Hangs

\* For each of a set of objects.
LEMMA DeletesInTurn ==
  ASSUME NEW m \in Methods(BOOLEAN), Deletes(m), NEW s, Ready(s), s.ok,
         NEW ids, NEW up \in BOOLEAN, NEW skips \in BOOLEAN,
         skips => ids \subseteq Objects(s.db),
         InTurn(s, ids, m, up, skips).ok
  PROVE  RemovedOver(s, InTurn(s, ids, m, up, skips), ids \cap Oids)
<1> DEFINE r == InTurn(s, ids, m, up, skips)
           J == {p \in (SUBSET Oids) \X Transactions : RemovedOver(s, p[2], p[1])}
<1>1. s \in Transactions /\ <<{}, s>> \in J
  BY RemovedNothing DEF Ready, RemovedOver
<1>2. KeptInTurn(J, ids, m, up, skips)
  <2> SUFFICES ASSUME NEW done \in SUBSET (ids \cap Oids), NEW t \in Transactions,
                      NEW k \in (ids \cap Oids) \ done,
                      <<done, t>> \in J, t.ok
               PROVE  /\ k \in Objects(t.db) /\ m[<<t, t.db[k], up>>].ok =>
                           <<done \cup {k}, m[<<t, t.db[k], up>>]>> \in J
                      /\ k \notin Objects(t.db) /\ skips =>
                           <<done \cup {k}, t>> \in J
    BY DEF KeptInTurn
  <2>1. RemovedOver(s, t, done)
    OBVIOUS
  <2>2. PICK D : Removed(s.db, t.db, D, done)
    BY <2>1 DEF RemovedOver
  <2>3. t.used = s.used
    BY <2>1 DEF RemovedOver
  <2>4. Ready(t)
    BY <2>2, <2>3, CutReady DEF Removed
  <2>5. done \cup {k} \in SUBSET Oids
    OBVIOUS
  <2>6. ASSUME k \in Objects(t.db), m[<<t, t.db[k], up>>].ok
        PROVE  <<done \cup {k}, m[<<t, t.db[k], up>>]>> \in J
    <3> DEFINE q == m[<<t, t.db[k], up>>]
    <3>1. q \in Transactions
      BY <2>6, StoredIsRecord DEF Methods
    <3>2. q.used = t.used /\ \E E : Removed(t.db, q.db, E, {k})
      BY <2>4, <2>6 DEF Deletes
    <3> HIDE DEF q
    <3>3. PICK E : Removed(t.db, q.db, E, {k})
      BY <3>2
    <3>4. Removed(s.db, q.db, D \cup E, done \cup {k})
      BY <2>2, <3>3, RemovedComposes
    <3>5. RemovedOver(s, q, done \cup {k})
      BY <2>3, <3>1, <3>2, <3>4 DEF RemovedOver
    <3> QED BY <2>5, <3>1, <3>5 DEF q
  <2>7. ASSUME k \notin Objects(t.db), skips
        PROVE  <<done \cup {k}, t>> \in J
    <3>1. k \in D
      BY <2>2, <2>7 DEF Removed, Cut
    <3>2. Removed(s.db, t.db, D, done \cup {k})
      BY <2>2, <3>1 DEF Removed, Hangs
    <3> QED BY <2>3, <2>5, <3>2 DEF RemovedOver
  <2> QED BY <2>6, <2>7
<1>3. r \in Transactions /\ <<ids \cap Oids, r>> \in J
  BY <1>1, <1>2, InTurnRule
<1> QED BY <1>3

-----------------------------------------------------------------------------

\* _delete removes the object with all that hangs from it if its nested calls do.
LEMMA DeleteStepDeletes ==
  ASSUME NEW m \in Methods(BOOLEAN), Deletes(m),
         NEW s, Ready(s), s.ok, NEW up \in BOOLEAN, NEW X \in Objects(s.db),
         DeleteWith(s, s.db[X], up, m).ok
  PROVE  RemovedOver(s, DeleteWith(s, s.db[X], up, m), {X})
<1> DEFINE self == s.db[X]
           r == DeleteWith(s, self, up, m)
           R == RecycleWithin[CallDepth]
           links == self.shortcuts \cap Oids
<1>1. s \in Transactions /\ s.db \in Stores /\ Sound(s.db) /\ X \in s.used /\ X \in Ids
  BY DEF Ready, Sound, Objects
<1>2. self \in Records /\ self.id = X
  BY <1>1, StoredIsRecord DEF Sound
<1>3. R \in Methods(BOOLEAN) /\ Moves(R, TRUE)
  BY RecycleWithinUnfolds, RecycleMoves, ItemOperationsAssumption
<1> HIDE DEF R
<1>4. r \in Transactions /\ DeleteSteps(s, self, up, m, r)
  BY <1>1, <1>2, <1>3, DeleteWithSteps DEF R
<1>5. r.ok
  OBVIOUS
<1> HIDE DEF r
<1>6. PICK a, b, c, d, e \in Transactions : DeleteStep(a, b, c, d, e, s, self, up, m, r)
  BY <1>4 DEF DeleteSteps
<1>7. a.ok /\ b.ok /\ c.ok /\ d.ok /\ e.ok
  BY <1>6 DEF DeleteStep
<1>8. /\ a.used = s.used
      /\ \E T : T \subseteq links /\ Hidden(s.db, a.db, T)
  <2>1. CASE IsDeleted(self)
    <3>1. a = s
      BY <1>6, <2>1 DEF DeleteStep
    <3>2. SameLevels(s.db, s.db)
      BY DEF SameLevels, Frame, SameItem
    <3>3. Hidden(s.db, s.db, {}) /\ {} \subseteq links
      BY <1>1, <3>2, SameLevelsMoved DEF Moved
    <3> QED BY <3>1, <3>3
  <2>2. CASE ~IsDeleted(self)
    <3>1. a = ForEach(s, self.shortcuts, R, TRUE)
      BY <1>6, <2>2 DEF DeleteStep, R
    <3>2. \A i \in self.shortcuts \cap Objects(s.db) : ~IsCollection(s.db[i])
      BY <1>1, ShortcutsAreLeaves
    <3>3. a.used = s.used /\ Moved(s.db, a.db, links, TRUE)
      BY <1>3, <1>7, <3>1, <3>2, MovesLeaves
    <3> QED BY <3>3 DEF Moved
  <2> QED BY <2>1, <2>2
<1>9. PICK T : T \subseteq links /\ Hidden(s.db, a.db, T)
  BY <1>8
<1>10. Ready(a) /\ a.db \in Stores
  BY <1>8, <1>9, MovedReady DEF Hidden, Ready, Sound
<1>11. b.used = a.used /\ \E D : Removed(a.db, b.db, D, links)
  <2>1. b = InTurn(a, self.shortcuts, m, TRUE, FALSE)
    BY <1>6 DEF DeleteStep, ForEach
  <2>2. RemovedOver(a, b, links)
    BY <1>7, <1>10, <2>1, DeletesInTurn
  <2> QED BY <2>2 DEF RemovedOver
<1>12. PICK D2 : Removed(a.db, b.db, D2, links)
  BY <1>11
<1>13. Removed(s.db, b.db, D2, links)
  <2>1. /\ Objects(a.db) = Objects(s.db)
        /\ \A i \in Objects(s.db) : SameItem(s.db[i], a.db[i])
    BY <1>9 DEF Hidden, Frame
  <2> DEFINE C == {i \in Objects(s.db) \ D2 : s.db[i].level # a.db[i].level}
  <2>2. ASSUME NEW i \in C PROVE s.db[i].target \in C
    <3>1. s.db[i].level \in Int /\ a.db[i].level \in Int
      BY <1>1, <1>10, <2>1 DEF Stores, Objects, Records
    <3>2. i \notin T
      BY <1>9, <1>12 DEF Removed, Hangs
    <3>3. Rises(s.db, a.db, s.db[i].target)
      BY <1>9, <3>1, <3>2 DEF Hidden
    <3>4. s.db[i].target \notin D2
      BY <1>12, <2>1 DEF Removed, Detached, SameItem
    <3>5. s.db[s.db[i].target].level # a.db[s.db[i].target].level
      <4>1. s.db[i].target \in Objects(s.db)
        BY <3>3 DEF Rises
      <4>2. /\ s.db[s.db[i].target].level \in Int
            /\ a.db[s.db[i].target].level \in Int
        BY <1>1, <1>10, <2>1, <4>1 DEF Stores, Objects, Records
      <4> QED BY <3>3, <4>2 DEF Rises
    <3> QED BY <3>3, <3>4, <3>5 DEF Rises
  <2>3. C = {}
    <3>1. C \in SUBSET Objects(s.db)
      OBVIOUS
    <3> HIDE DEF C
    <3> QED BY <1>1, <2>2, <3>1 DEF Sound
  <2>4. Cut(s.db, b.db, D2)
    BY <1>12, <2>1, <2>3 DEF Removed, Cut, SameItem
  <2>5. Detached(s.db, D2) /\ Hangs(s.db, D2, links)
    <3>1. D2 \subseteq Objects(s.db)
      BY <2>4 DEF Cut
    <3> QED BY <1>12, <2>1, <3>1 DEF Removed, Detached, Hangs, SameItem
  <2> QED BY <2>4, <2>5 DEF Removed
<1>14. Ready(b) /\ b.used = s.used
  BY <1>8, <1>11, <1>13, CutReady DEF Removed
<1>15. c = RemoveFromTarget(b, self, self.target) /\ d = Erase(c, self)
  BY <1>6 DEF DeleteStep
<1>16. /\ c.used = s.used /\ Objects(c.db) = Objects(b.db)
       /\ \A i \in Objects(b.db) : i # self.target => c.db[i] = b.db[i]
       /\ self.target \in Objects(b.db) =>
            c.db[self.target] = [b.db[self.target] EXCEPT !.shortcuts = @ \ {X}]
  <2>1. self.target \in Ids \cup {None}
    BY <1>2 DEF Records
  <2> DEFINE t == self.target
             q == [b.db[t] EXCEPT !.shortcuts = @ \ {X}]
  <2>2. CASE t = None /\ c = b
    <3>1. None \notin Objects(b.db)
      BY IdsOf DEF Objects
    <3> QED BY <1>14, <2>2, <3>1
  <2>3. CASE t \in Objects(b.db) /\ PutDone(b, q, c)
    <3>1. b.db[t] \in Records /\ b.db[t].id = t /\ b.db \in Stores
      BY <1>14, <2>3, StoredIsRecord DEF Ready, Sound
    <3>2. b.db[t].shortcuts \ {X} \in SUBSET Ids
      BY <3>1 DEF Records
    <3>3. q \in Records /\ q.id = t
      BY <3>1, <3>2, ShortcutsChanged
    <3> HIDE DEF q
    <3>4. c.db = Written(b.db, t, q) /\ c.used = b.used \cup {t}
      BY <2>3, <3>3 DEF PutDone, Written
    <3>5. t \in b.used
      BY <1>14, <2>3 DEF Ready
    <3>6. /\ Objects(c.db) = Objects(b.db) \cup {t} /\ c.db[t] = q
          /\ \A i : i # t => c.db[i] = b.db[i]
      BY <3>1, <3>3, <3>4, PutStored
    <3>7. c.db[t] = [b.db[t] EXCEPT !.shortcuts = @ \ {X}]
      BY <3>6 DEF q
    <3>8. Objects(c.db) = Objects(b.db) /\ c.used = s.used
      BY <1>14, <2>3, <3>4, <3>5, <3>6
    <3> QED BY <3>6, <3>7, <3>8
  <2>4. (t = None /\ c = b) \/ (t \in Objects(b.db) /\ PutDone(b, q, c))
    BY <1>2, <1>7, <1>15, <2>1, RemoveFromTargetEffect
  <2> QED BY <2>2, <2>3, <2>4
<1>17. /\ d.used = s.used /\ X \in Objects(b.db)
       /\ Objects(d.db) = Objects(b.db) \ {X}
       /\ \A i \in Objects(d.db) : d.db[i] = c.db[i]
  <2>1. EraseDone(c, self, d)
    BY <1>2, <1>7, <1>15, EraseEffect
  <2>2. d.db = [c.db EXCEPT ![X] = Nothing] /\ X \in Objects(c.db) /\ d.used = c.used
    BY <1>2, <2>1 DEF EraseDone
  <2>3. c.db \in Stores
    BY DEF Transactions, Stores
  <2>4. Objects(d.db) = Objects(c.db) \ {X} /\ \A i : i # X => d.db[i] = c.db[i]
    BY <2>2, <2>3 DEF Objects, Stores
  <2> QED BY <1>16, <2>2, <2>4
<1>18. Cut(s.db, d.db, D2 \cup {X})
  <2>1. Objects(d.db) = Objects(s.db) \ (D2 \cup {X}) /\ D2 \cup {X} \subseteq Objects(s.db)
    BY <1>13, <1>17 DEF Removed, Cut
  <2>2. ASSUME NEW i \in Objects(d.db)
        PROVE /\ d.db[i].id = s.db[i].id /\ d.db[i].kind = s.db[i].kind
              /\ d.db[i].pid = s.db[i].pid
              /\ d.db[i].level = s.db[i].level /\ d.db[i].target = s.db[i].target
              /\ d.db[i].ref = s.db[i].ref
              /\ d.db[i].shortcuts = s.db[i].shortcuts \ (D2 \cup {X})
    <3>1. i \in Objects(b.db) /\ i \in Objects(s.db) /\ d.db[i] = c.db[i]
      BY <1>17, <2>1
    <3>2. /\ b.db[i].id = s.db[i].id /\ b.db[i].kind = s.db[i].kind
          /\ b.db[i].pid = s.db[i].pid
          /\ b.db[i].level = s.db[i].level /\ b.db[i].target = s.db[i].target
          /\ b.db[i].ref = s.db[i].ref
          /\ b.db[i].shortcuts = s.db[i].shortcuts \ D2
      BY <1>13, <3>1 DEF Removed, Cut
    <3>3. CASE i = self.target
      <4>1. b.db[i] \in Records
        BY <1>14, <3>1, StoredIsRecord DEF Ready
      <4>2. b.db[i].shortcuts \ {X} \in SUBSET Ids
        BY <4>1 DEF Records
      <4>3. c.db[i] = [b.db[i] EXCEPT !.shortcuts = @ \ {X}]
        BY <1>16, <3>1, <3>3
      <4>4. /\ c.db[i].id = b.db[i].id /\ c.db[i].kind = b.db[i].kind
            /\ c.db[i].pid = b.db[i].pid
            /\ c.db[i].level = b.db[i].level /\ c.db[i].target = b.db[i].target
            /\ c.db[i].ref = b.db[i].ref
            /\ c.db[i].shortcuts = b.db[i].shortcuts \ {X}
        BY <4>1, <4>2, <4>3, ShortcutsChanged
      <4>5. (s.db[i].shortcuts \ D2) \ {X} = s.db[i].shortcuts \ (D2 \cup {X})
        OBVIOUS
      <4> QED BY <3>1, <3>2, <4>4, <4>5
    <3>4. CASE i # self.target
      <4>1. X \notin s.db[i].shortcuts
        BY <1>1, <3>1, <3>4 DEF Sound
      <4>2. s.db[i].shortcuts \ D2 = s.db[i].shortcuts \ (D2 \cup {X})
        BY <4>1
      <4> QED BY <1>16, <3>1, <3>2, <3>4, <4>2
    <3> QED BY <3>3, <3>4
  <2> QED BY <2>1, <2>2 DEF Cut
<1>19. Ready(d)
  BY <1>17, <1>18, CutReady
<1>20. Cut(s.db, e.db, D2 \cup {X}) /\ Ready(e) /\ e.used = s.used
  <2>1. CASE e = d
    BY <1>17, <1>18, <1>19, <2>1
  <2>2. CASE e = CountInParent(d, self, -1)
    <3>1. e.used = d.used /\ SameLevels(d.db, e.db)
      <4>1. e.ok /\ -1 \in Int /\ Sound(d.db) /\ Objects(d.db) \subseteq d.used
        BY <1>7, <1>19 DEF Ready
      <4> QED BY <1>2, <2>2, <4>1, CountKeepsLevels
    <3>2. Cut(s.db, e.db, D2 \cup {X})
      BY <1>18, <3>1 DEF SameLevels, Frame, SameItem, Cut
    <3> QED BY <1>17, <3>1, <3>2, CutReady
  <2> QED BY <1>6, <2>1, <2>2 DEF DeleteStep
<1>21. r.used = s.used /\ \E D3 : Removed(e.db, r.db, D3, Children(e, X))
  <2>1. CASE IsCollection(self)
    <3>1. r = InTurn(e, Children(e, X), m, FALSE, TRUE)
      BY <1>2, <1>6, <2>1 DEF DeleteStep, ForEachChild
    <3>2. Children(e, X) \subseteq Objects(e.db) /\ Children(e, X) \cap Oids = Children(e, X)
      <4>1. X # None
        BY <1>1, IdsOf
      <4> QED BY <1>20, <4>1 DEF Children, Ready, Sound
    <3>3. RemovedOver(e, r, Children(e, X) \cap Oids)
      BY <1>5, <1>7, <1>20, <3>1, <3>2, DeletesInTurn
    <3> QED BY <1>20, <3>2, <3>3 DEF RemovedOver
  <2>2. CASE ~IsCollection(self)
    <3>1. r = e
      BY <1>6, <2>2 DEF DeleteStep
    <3>2. Children(e, X) = {}
      <4> SUFFICES ASSUME NEW i \in Objects(e.db), e.db[i].pid = X PROVE FALSE
        BY DEF Children
      <4>1. i \in Objects(s.db) /\ s.db[i].pid = X
        BY <1>20 DEF Cut
      <4> QED BY <1>1, <2>2, <4>1 DEF Sound
    <3>3. Removed(e.db, e.db, {}, {})
      BY <1>20, RemovedNothing DEF Ready
    <3> QED BY <1>20, <3>1, <3>2, <3>3
  <2> QED BY <2>1, <2>2
<1>22. PICK D3 : Removed(e.db, r.db, D3, Children(e, X))
  BY <1>21
<1> DEFINE D == (D2 \cup {X}) \cup D3
<1>23. Cut(s.db, r.db, D)
  BY <1>20, <1>22, CutComposes DEF Removed
<1>24. /\ Objects(e.db) = Objects(s.db) \ (D2 \cup {X}) /\ D3 \subseteq Objects(e.db)
       /\ \A i \in Objects(e.db) : /\ e.db[i].pid = s.db[i].pid
                                  /\ e.db[i].target = s.db[i].target
  BY <1>20, <1>22 DEF Cut, Removed
<1>25. \A i \in Objects(s.db) : s.db[i].target = X => i \in links
  <2>1. X # None
    BY <1>1, IdsOf
  <2> QED BY <1>1, <2>1 DEF Sound
<1>26. \A i \in Objects(s.db) : i \in links => s.db[i].target = X
  BY <1>1 DEF Sound
<1>27. Detached(s.db, D)
  <2> SUFFICES ASSUME NEW i \in Objects(s.db) \ D
               PROVE  s.db[i].pid \notin D /\ s.db[i].target \notin D
    BY DEF Detached
  <2>1. s.db[i].pid \notin D2 /\ s.db[i].target \notin D2
    BY <1>13 DEF Removed, Detached
  <2>2. i \in Objects(e.db) \ D3
    BY <1>24
  <2>3. s.db[i].pid \notin D3 /\ s.db[i].target \notin D3
    BY <1>22, <1>24, <2>2 DEF Removed, Detached
  <2>4. s.db[i].pid # X
    BY <1>22, <1>24, <2>2 DEF Removed, Hangs, Children
  <2>5. s.db[i].target # X
    BY <1>13, <1>25 DEF Removed, Hangs
  <2> QED BY <2>1, <2>3, <2>4, <2>5
<1>28. Hangs(s.db, D, {X})
  <2> SUFFICES ASSUME NEW i \in D
               PROVE  i = X \/ s.db[i].pid \in D \/ s.db[i].target \in D
    BY DEF Hangs
  <2>1. CASE i \in D2
    <3>1. i \in links \/ s.db[i].pid \in D2 \/ s.db[i].target \in D2
      BY <1>13, <2>1 DEF Removed, Hangs
    <3>2. i \in Objects(s.db)
      BY <1>13, <2>1 DEF Removed, Cut
    <3> QED BY <1>26, <3>1, <3>2
  <2>2. CASE i \in D3
    <3>1. \/ i \in Children(e, X) \/ e.db[i].pid \in D3 \/ e.db[i].target \in D3
      BY <1>22, <2>2 DEF Removed, Hangs
    <3> QED BY <1>24, <2>2, <3>1 DEF Children
  <2> QED BY <2>1, <2>2
<1>29. Removed(s.db, r.db, D, {X})
  BY <1>23, <1>27, <1>28 DEF Removed
<1> QED BY <1>4, <1>21, <1>29 DEF RemovedOver, r

\* Deleting removes the object with everything in it and every shortcut to
\* what is removed, and nothing else changes for the objects that are left.
LEMMA DeleteDeletes == \A n \in Nat : Deletes(DeleteWithin[n])
<1> DEFINE T == {n \in Nat : Deletes(DeleteWithin[n])}
<1>1. 0 \in T
  <2>1. ASSUME NEW s \in Transactions, NEW up \in BOOLEAN, NEW X \in Objects(s.db)
        PROVE  ~DeleteWithin[0][<<s, s.db[X], up>>].ok
    BY StoredIsRecord, DeleteUnfolds
  <2> QED BY <2>1 DEF Deletes
<1>2. ASSUME NEW n \in T PROVE n + 1 \in T
  <2> DEFINE m == DeleteWithin[n]
  <2>1. m \in Methods(BOOLEAN) /\ Deletes(m)
    BY DeleteWithinUnfolds
  <2>2. ASSUME NEW s \in Transactions, NEW up \in BOOLEAN, NEW X \in Objects(s.db),
               Ready(s), s.ok, DeleteWithin[n + 1][<<s, s.db[X], up>>].ok
        PROVE  RemovedOver(s, DeleteWithin[n + 1][<<s, s.db[X], up>>], {X})
    <3>1. s.db[X] \in Records /\ n + 1 \in Nat /\ n + 1 > 0 /\ n + 1 - 1 = n
      BY StoredIsRecord
    <3>2. DeleteWithin[n + 1][<<s, s.db[X], up>>] = DeleteWith(s, s.db[X], up, m)
      BY <3>1, DeleteUnfolds
    <3> HIDE DEF m
    <3> QED BY <2>1, <2>2, <3>2, DeleteStepDeletes
  <2>3. Deletes(DeleteWithin[n + 1])
    BY <2>2 DEF Deletes, RemovedOver
  <2>4. n + 1 \in Nat
    OBVIOUS
  <2> QED BY <2>3, <2>4
<1> HIDE DEF T
<1>3. Nat \subseteq T
  BY <1>1, <1>2, SetInduction
<1> QED BY <1>3 DEF T

-----------------------------------------------------------------------------
(* The invariant of the store between two transactions.                    *)

\* An object and what it hangs from.
Shape(db, i) ==
  LET item == db[i]
  IN /\ item.kind = "root" <=> i = Root
     /\ item.kind = "bin" <=> i = Bin
     /\ item.kind \in {"root", "bin", "deleted"} => item.level = 0
     /\ item.kind = "deleted" =>
          item.pid = Bin /\ item.shortcuts = {} /\ item.ref \in Oids
     /\ item.kind \in Movables =>
          /\ item.pid \in Objects(db)
          /\ db[item.pid].kind \in {"root", "folder"}
     /\ item.kind = "shortcut" => item.target \in Objects(db)
     /\ item.shortcuts \subseteq Objects(db)

\* What the store is between two transactions.
Whole(db) ==
  /\ Sound(db)
  /\ {Root, Bin} \subseteq Objects(db)
  /\ \A i \in Objects(db) : Shape(db, i)

\* The entries of the bin for object i.
Entries(db, i) ==
  {d \in Objects(db) : db[d].kind = "deleted" /\ db[d].ref = i}

\* How often an object is hidden for its target and for its folder, and how
\* often for itself.
Hides(db, i)   == IF i \in Objects(db) /\ db[i].level > 0 THEN 1 ELSE 0
LevelOf(db, i) == IF i \in Objects(db) THEN db[i].level ELSE 0
Own(db, i) == db[i].level - Hides(db, db[i].target) - LevelOf(db, db[i].pid)

\* Restoring an object to another folder makes it visible there, whatever
\* had hidden what is in it.
Exact == "restoreTo" \notin Operations
Weighs(db, i, n) == Own(db, i) >= n /\ (Exact => Own(db, i) = n)

\* The entries R are about to be removed.
Weighed(db, R) ==
  \A i \in Objects(db) : Weighs(db, i, Cardinality(Entries(db, i) \ R))

\* Only one entry then, for it makes the object visible.
Single(db) ==
  ~Exact => \A d, e \in Objects(db) :
              /\ db[d].kind = "deleted" /\ db[e].kind = "deleted"
              /\ db[d].ref = db[e].ref
              => d = e

\* An entry stands for an object that was given an id, and is deletable.
References(db, ids) ==
  \A d \in Objects(db) :
    db[d].kind = "deleted" =>
      /\ db[d].ref \in ids
      /\ db[d].ref \in Objects(db) => db[db[d].ref].kind \in Movables

\* The invariant of the store.
Valid(s) ==
  /\ Ready(s)
  /\ Whole(s.db)
  /\ Weighed(s.db, {})
  /\ Single(s.db)
  /\ References(s.db, s.used)

\* The root, the bin and None are no ids that are given out.
LEMMA SpecialIds ==
  /\ Root \in Ids /\ Bin \in Ids /\ Root # Bin /\ Root \notin Oids
  /\ Bin \notin Oids /\ Root # None /\ Bin # None /\ None \notin Ids
BY ItemOperationsAssumption DEF Root, Bin, None, Oids, Ids

\* There are finitely many ids.
LEMMA IdsFinite == IsFiniteSet(Ids)
<1> DEFINE N == Len(KeyOrder)
<1>1. KeyOrder \in Seq(Nat \ {0}) /\ N \in Nat /\ DOMAIN KeyOrder = 1 .. N
  BY ItemOperationsAssumption
<1>2. KeyOrder \in [1 .. N -> Oids] /\ \A i \in Oids : \E k \in 1 .. N : KeyOrder[k] = i
  BY <1>1 DEF Oids
<1>3. KeyOrder \in Surjection(1 .. N, Oids)
  BY <1>2 DEF Surjection
<1>4. IsFiniteSet(1 .. N)
  BY <1>1, FS_Interval
<1>5. IsFiniteSet(Oids)
  BY <1>3, <1>4, FS_Surjection
<1>6. IsFiniteSet({Root, Bin})
  <2>1. IsFiniteSet({Root}) /\ IsFiniteSet({Bin}) /\ {Root, Bin} = {Root} \cup {Bin}
    BY FS_Singleton
  <2> QED BY <2>1, FS_Union
<1> QED BY <1>5, <1>6, FS_Union DEF Ids

\* So the entries of the bin can be counted.
LEMMA EntriesFinite ==
  ASSUME NEW db, NEW i
  PROVE  /\ IsFiniteSet(Entries(db, i))
         /\ Cardinality(Entries(db, i)) \in Nat
         /\ Entries(db, i) = {} <=> Cardinality(Entries(db, i)) = 0
<1>1. Entries(db, i) \in SUBSET Ids
  BY DEF Entries, Objects
<1> QED BY <1>1, IdsFinite, FS_Subset, FS_CardinalityType, FS_EmptySet

\* The kind and the level of a stored object.
LEMMA KindOf ==
  ASSUME NEW db \in Stores, NEW i \in Objects(db)
  PROVE  /\ db[i].kind \in {"root", "bin", "deleted", "folder", "document", "shortcut"}
         /\ db[i].level \in Int
         /\ db[i] \in Records
<1>1. db[i] \in Records
  BY DEF Stores, Objects
<1> QED BY <1>1 DEF Records, Kinds

\* The folder of an object is no shortcut.
LEMMA ParentHasNoTarget ==
  ASSUME NEW db, Sound(db), NEW i \in Objects(db), db[i].pid \in Objects(db)
  PROVE  db[db[i].pid].target = None
BY DEF Sound, IsCollection

\* A store with other names, counters and levels is as whole.
LEMMA FrameWhole ==
  ASSUME NEW d0, Whole(d0), NEW d1 \in Stores, Frame(d0, d1),
         \A i \in Objects(d0) : d0[i].kind \in {"root", "bin", "deleted"} =>
                                  d1[i].level = d0[i].level
  PROVE  Whole(d1)
<1>1. Sound(d1)
  BY FrameSound DEF Whole
<1>2. Objects(d1) = Objects(d0)
  BY DEF Frame
<1>3. ASSUME NEW i \in Objects(d1) PROVE Shape(d1, i)
  <2>1. Shape(d0, i) /\ SameItem(d0[i], d1[i])
    BY <1>2 DEF Whole, Frame
  <2>2. d0[i].pid \in Objects(d0) => d1[d0[i].pid].kind = d0[d0[i].pid].kind
    BY <1>2 DEF Frame, SameItem
  <2>3. d0[i].kind \in {"root", "bin", "deleted"} => d1[i].level = d0[i].level
    BY <1>2
  <2> QED BY <1>2, <2>1, <2>2, <2>3 DEF Shape, SameItem
<1> QED BY <1>1, <1>2, <1>3 DEF Whole

\* It has the same entries.
LEMMA FrameEntries ==
  ASSUME NEW d0, NEW d1, Frame(d0, d1), NEW i
  PROVE  Entries(d1, i) = Entries(d0, i)
BY DEF Frame, SameItem, Entries

\* The bin and its entries are not in any other object.
LEMMA SpanKinds ==
  ASSUME NEW db, Whole(db), NEW X \in Objects(db), db[X].kind \in Movables,
         NEW S, Spans(db, {X}, S),
         NEW i \in Objects(db), db[i].kind \in {"root", "bin", "deleted"}
  PROVE  i \notin S
<1>1. X # Root /\ X # Bin /\ db[X].kind \notin {"root", "bin", "deleted"}
  BY SpecialIds DEF Whole, Shape, Movables
<1>2. db[Bin].pid = None /\ db[Root].pid = None /\ Bin \in Objects(db)
  BY SpecialIds DEF Whole, Sound
<1>3. None \notin S
  BY SpecialIds DEF Spans, Objects
<1>4. Bin \notin S
  BY <1>1, <1>2, <1>3 DEF Spans
<1>5. i = Root \/ i = Bin \/ db[i].pid = Bin
  BY DEF Whole, Shape
<1> QED BY <1>1, <1>2, <1>3, <1>4, <1>5 DEF Spans

\* Hiding X with everything below it hides X once more on its own account,
\* and nothing else.
LEMMA HiddenOwn ==
  ASSUME NEW lo, Sound(lo), NEW hi \in Stores, NEW X \in Objects(lo),
         NEW S, Spans(lo, {X}, S), Hidden(lo, hi, S), NEW i \in Objects(lo)
  PROVE  Own(hi, i) = Own(lo, i) + (IF i = X THEN 1 ELSE 0)
<1>1. Objects(hi) = Objects(lo) /\ SameItem(lo[i], hi[i]) /\ lo \in Stores
  BY DEF Hidden, Frame, Sound
<1>2. \A j \in Objects(lo) :
        /\ lo[j].level \in Int /\ hi[j].level \in Int
        /\ hi[j].level = lo[j].level + (IF j \in S THEN 1 ELSE 0)
                         + (IF Rises(lo, hi, lo[j].target) THEN 1 ELSE 0)
  BY <1>1, KindOf DEF Hidden
<1> DEFINE t == lo[i].target
           p == lo[i].pid
<1>3. hi[i].target = t /\ hi[i].pid = p
  BY <1>1 DEF SameItem
<1> HIDE DEF t, p
<1>4. Hides(hi, t) = Hides(lo, t) + (IF Rises(lo, hi, t) THEN 1 ELSE 0)
  <2>1. CASE t \in Objects(lo)
    <3>1. lo[t].level <= hi[t].level
      BY <1>2, <2>1
    <3> QED BY <1>1, <1>2, <2>1, <3>1 DEF Hides, Rises
  <2>2. CASE t \notin Objects(lo)
    BY <1>1, <2>2 DEF Hides, Rises
  <2> QED BY <2>1, <2>2
<1>5. LevelOf(hi, p) = LevelOf(lo, p) + (IF p \in S THEN 1 ELSE 0)
  <2>1. CASE p \in Objects(lo)
    <3>1. lo[p].target = None
      BY <2>1, ParentHasNoTarget DEF p
    <3>2. ~Rises(lo, hi, None)
      BY SpecialIds DEF Rises, Objects
    <3> QED BY <1>1, <1>2, <2>1, <3>1, <3>2 DEF LevelOf
  <2>2. CASE p \notin Objects(lo)
    <3>1. p \notin S
      BY <2>2 DEF Spans
    <3> QED BY <1>1, <2>2, <3>1 DEF LevelOf
  <2> QED BY <2>1, <2>2
<1>6. i \in S <=> i = X \/ p \in S
  BY DEF Spans, p
<1>7. i = X => p \notin S
  <2>1. InFolder(lo, {X}, lo[X].pid)
    BY DEF InFolder
  <2>2. lo[X].pid \notin S
    BY <2>1, SpansBelow
  <2> QED BY <2>2 DEF p
<1>8. hi[i].level = lo[i].level + (IF i \in S THEN 1 ELSE 0)
                    + (IF Rises(lo, hi, t) THEN 1 ELSE 0)
  BY <1>2 DEF t
<1>9. lo[i].level \in Int /\ LevelOf(lo, p) \in Int /\ Hides(lo, t) \in Int
  BY <1>2 DEF LevelOf, Hides
<1>10. /\ Own(hi, i) = hi[i].level - Hides(hi, t) - LevelOf(hi, p)
       /\ Own(lo, i) = lo[i].level - Hides(lo, t) - LevelOf(lo, p)
  BY <1>3 DEF Own, t, p
<1> QED BY <1>4, <1>5, <1>6, <1>7, <1>8, <1>9, <1>10

\* The number of times an object is hidden is never negative.
LEMMA LevelsNatural ==
  ASSUME NEW db, Sound(db), NEW R, Weighed(db, R), NEW i \in Objects(db)
  PROVE  db[i].level >= 0
<1> DEFINE N == {j \in Objects(db) : ~(db[j].level >= 0)}
<1>1. db \in Stores
  BY DEF Sound
<1>2. ASSUME NEW j \in N PROVE db[j].pid \in N
  <2>1. j \in Objects(db) /\ db[j].level \in Int /\ ~(db[j].level >= 0)
    BY <1>1, KindOf
  <2>2. Cardinality(Entries(db, j) \ R) \in Nat
    <3>1. Entries(db, j) \ R \in SUBSET Entries(db, j)
      OBVIOUS
    <3> QED BY <3>1, EntriesFinite, FS_Subset, FS_CardinalityType
  <2>3. Own(db, j) >= Cardinality(Entries(db, j) \ R)
    BY <2>1 DEF Weighed, Weighs
  <2>4. Hides(db, db[j].target) \in {0, 1}
    BY DEF Hides
  <2>5. Own(db, j) = db[j].level - Hides(db, db[j].target) - LevelOf(db, db[j].pid)
    BY DEF Own
  <2>6. CASE db[j].pid \in Objects(db)
    <3>1. LevelOf(db, db[j].pid) = db[db[j].pid].level /\ db[db[j].pid].level \in Int
      BY <1>1, <2>6, KindOf DEF LevelOf
    <3> QED BY <2>1, <2>2, <2>3, <2>4, <2>5, <2>6, <3>1
  <2>7. CASE db[j].pid \notin Objects(db)
    <3>1. LevelOf(db, db[j].pid) = 0
      BY <2>7 DEF LevelOf
    <3> QED BY <2>1, <2>2, <2>3, <2>4, <2>5, <3>1
  <2> QED BY <2>6, <2>7
<1>3. N \in SUBSET Objects(db)
  OBVIOUS
<1> HIDE DEF N
<1>4. N = {}
  BY <1>2, <1>3 DEF Sound
<1> QED BY <1>4 DEF N

\* What the requests that hold a copy rely on: an id is never given out twice.
Keeps(s, r) ==
  /\ s.used \subseteq r.used
  /\ \A i \in Objects(r.db) :
       \/ /\ i \in Objects(s.db)
          /\ r.db[i].kind = s.db[i].kind
          /\ r.db[i].ref = s.db[i].ref
       \/ i \notin s.used

\* The transaction got from s to r and left a valid store.
Done(s, r) == Valid(r) /\ Keeps(s, r)

\* A set of natural numbers that is not empty has a smallest.
LEMMA SmallestOf ==
  ASSUME NEW S, S \subseteq Nat, S # {}
  PROVE  \E i \in S : \A j \in S : i <= j
<1> SUFFICES ASSUME \A i \in S : \E j \in S : j < i PROVE FALSE
  OBVIOUS
<1> DEFINE T == {n \in Nat : \A m \in S : m > n}
<1>1. 0 \in T
  OBVIOUS
<1>2. ASSUME NEW n \in T \cap Nat PROVE n + 1 \in T
  OBVIOUS
<1> HIDE DEF T
<1>3. Nat \subseteq T
  BY <1>1, <1>2, SetInduction
<1>4. PICK i \in S : TRUE
  OBVIOUS
<1>5. i \in T /\ i \in Nat
  BY <1>3, <1>4
<1> QED BY <1>4, <1>5 DEF T

\* A new id was never given out.
LEMMA NewIdIsNew ==
  ASSUME NEW s, ~NoIdLeft(s)
  PROVE  NewId(s) \in Oids /\ NewId(s) \notin s.used
<1> DEFINE S == Oids \ s.used
<1>1. S # {} /\ S \subseteq Nat
  BY ItemOperationsAssumption DEF NoIdLeft, Oids
<1> HIDE DEF S
<1>2. \E i \in S : \A j \in S : i <= j
  BY <1>1, SmallestOf
<1> QED BY <1>2 DEF NewId, S

-----------------------------------------------------------------------------
(* A new object.                                                           *)

\* A new object without shortcuts, in a folder, leaves the store sound.
LEMMA AddSound ==
  ASSUME NEW db, Sound(db), NEW j \in Oids, j \notin Objects(db),
         NEW item \in Records, item.id = j, item.shortcuts = {},
         item.pid \in Objects(db), IsCollection(db[item.pid]),
         item.target # None => item.kind = "shortcut", item.target # j,
         \A i \in Objects(db) : /\ db[i].pid # j /\ db[i].target # j
                                /\ j \in db[i].shortcuts <=> item.target = i
  PROVE  Sound(Written(db, j, item))
<1> DEFINE d1 == Written(db, j, item)
<1>1. /\ db \in Stores /\ d1 \in Stores /\ d1[j] = item /\ j \in Ids
      /\ Objects(d1) = Objects(db) \cup {j}
      /\ \A i : i # j => d1[i] = db[i]
  BY PutStored DEF Sound
<1> HIDE DEF d1
<1>2. \A i \in Objects(d1) : d1[i].id = i
  BY <1>1 DEF Sound
<1>3. ASSUME NEW i \in Objects(d1)
      PROVE  /\ d1[i].pid \in Objects(d1) => IsCollection(d1[d1[i].pid])
             /\ d1[i].target # None => d1[i].kind = "shortcut"
             /\ i \notin Oids => d1[i].pid = None /\ d1[i].target = None
  BY <1>1 DEF Sound
<1>4. ASSUME NEW i \in Objects(d1), NEW k \in Objects(d1)
      PROVE  k \in d1[i].shortcuts <=> d1[k].target = i
  BY <1>1 DEF Sound
<1>5. ASSUME NEW S \in SUBSET Objects(d1), S # {}
      PROVE  \E i \in S : d1[i].pid \notin S
  <2>1. CASE S = {j}
    BY <1>1, <2>1
  <2>2. CASE S # {j}
    <3>1. S \ {j} \in SUBSET Objects(db) /\ S \ {j} # {}
      BY <1>1, <1>5, <2>2
    <3>2. PICK i \in S \ {j} : db[i].pid \notin S \ {j}
      BY <3>1 DEF Sound
    <3> QED BY <1>1, <3>1, <3>2
  <2> QED BY <2>1, <2>2
<1>6. ASSUME NEW S \in SUBSET Objects(d1), S # {}
      PROVE  \E i \in S : d1[i].target \notin S
  <2>1. CASE S = {j}
    BY <1>1, <2>1
  <2>2. CASE S # {j}
    <3>1. S \ {j} \in SUBSET Objects(db) /\ S \ {j} # {}
      BY <1>1, <1>6, <2>2
    <3>2. PICK i \in S \ {j} : db[i].target \notin S \ {j}
      BY <3>1 DEF Sound
    <3> QED BY <1>1, <3>1, <3>2
  <2> QED BY <2>1, <2>2
<1>7. Sound(d1)
  BY <1>1, <1>2, <1>3, <1>4, <1>5, <1>6 DEF Sound
<1> QED BY <1>7 DEF d1

\* Nothing hangs from an id that was not given out.
LEMMA NothingHangsFromNew ==
  ASSUME NEW db, Whole(db), NEW j \in Oids, j \notin Objects(db),
         NEW i \in Objects(db)
  PROVE  db[i].pid # j /\ db[i].target # j /\ j \notin db[i].shortcuts
<1>1. db[i].kind \in {"root", "bin", "deleted", "folder", "document", "shortcut"}
  BY KindOf DEF Whole, Sound
<1>2. Shape(db, i)
  BY DEF Whole
<1>3. j # None /\ j # Bin
  BY SpecialIds DEF Ids
<1>4. Bin \in Objects(db)
  BY DEF Whole
<1>5. db[i].kind \in {"root", "bin"} => db[i].pid = None
  BY <1>2, SpecialIds DEF Whole, Sound, Shape
<1>6. db[i].target # j
  BY <1>2, <1>3 DEF Whole, Sound, Shape
<1> QED BY <1>1, <1>2, <1>3, <1>4, <1>5, <1>6 DEF Shape, Movables

\* The level of every stored object, and so what it weighs, is the same.
LEMMA AddOwn ==
  ASSUME NEW db, Whole(db), NEW j \in Oids, j \notin Objects(db), NEW d1,
         Objects(d1) = Objects(db) \cup {j},
         \A i \in Objects(db) : /\ d1[i].level = db[i].level
                                /\ d1[i].pid = db[i].pid
                                /\ d1[i].target = db[i].target,
         NEW i \in Objects(db)
  PROVE  Own(d1, i) = Own(db, i)
<1>1. db[i].pid # j /\ db[i].target # j
  BY NothingHangsFromNew
<1> QED BY <1>1 DEF Own, Hides, LevelOf

-----------------------------------------------------------------------------
(* Recycling an object.                                                    *)

\* The new entry of the bin.
LEMMA BinEntryIsRecord ==
  ASSUME NEW s, NEW self, self.id \in Ids, NewId(s) \in Oids
  PROVE  LET e == BinEntry(s, self)
         IN /\ e \in Records
            /\ e.id = NewId(s) /\ e.kind = "deleted" /\ e.pid = Bin
            /\ e.level = 0 /\ e.shortcuts = {} /\ e.target = None
            /\ e.ref = self.id
<1>1. NewId(s) \in Ids /\ Bin \in Ids
  BY SpecialIds DEF Ids
<1> QED BY <1>1 DEF BinEntry, Object, Records, Kinds

\* The new entry hides the object once.
HasEntry(s, d1, j, X) ==
  /\ d1 \in Stores
  /\ Objects(d1) = Objects(s.db) \cup {j}
  /\ \A i \in Objects(s.db) : d1[i] = s.db[i]
  /\ d1[j].kind = "deleted" /\ d1[j].ref = X /\ d1[j].level = 0
  /\ d1[j].pid = Bin /\ d1[j].target = None /\ d1[j].shortcuts = {}

\* The store with it is whole.
LEMMA EntryWhole ==
  ASSUME NEW s, Valid(s), NEW j \in Oids, j \notin s.used,
         NEW X \in Objects(s.db), s.db[X].kind \in Movables,
         NEW e \in Records, e.id = j, e.kind = "deleted", e.pid = Bin,
         e.level = 0, e.shortcuts = {}, e.target = None, e.ref = X
  PROVE  /\ HasEntry(s, Written(s.db, j, e), j, X)
         /\ Whole(Written(s.db, j, e))
<1> DEFINE db == s.db
           d1 == Written(db, j, e)
<1>1. Whole(db) /\ Sound(db) /\ db \in Stores /\ j \notin Objects(db)
  BY DEF Valid, Whole, Sound, Ready
<1>2. /\ d1 \in Stores /\ d1[j] = e
      /\ Objects(d1) = Objects(db) \cup {j}
      /\ \A i : i # j => d1[i] = db[i]
  BY <1>1, PutStored
<1>3. HasEntry(s, d1, j, X)
  BY <1>1, <1>2 DEF HasEntry
<1>4. Bin \in Objects(db) /\ IsCollection(db[Bin])
  BY <1>1 DEF Whole, Shape, IsCollection
<1>5. \A i \in Objects(db) : db[i].pid # j /\ db[i].target # j /\ j \notin db[i].shortcuts
  BY <1>1, NothingHangsFromNew
<1>6. None \notin Objects(db) /\ j # None
  BY SpecialIds DEF Objects, Ids
<1>7. Sound(d1)
  BY <1>1, <1>4, <1>5, <1>6, AddSound
<1>8. ASSUME NEW i \in Objects(d1) PROVE Shape(d1, i)
  <2>1. CASE i = j
    <3>1. j # Root /\ j # Bin /\ X \in Oids
      BY SpecialIds, <1>1 DEF Ids, Whole, Shape, Objects, Movables
    <3> QED BY <1>2, <2>1, <3>1 DEF Shape, Movables
  <2>2. CASE i # j
    <3>1. i \in Objects(db) /\ Shape(db, i) /\ d1[i] = db[i]
      BY <1>1, <1>2, <2>2 DEF Whole
    <3>2. db[i].pid \in Objects(db) => d1[db[i].pid] = db[db[i].pid]
      BY <1>1, <1>2
    <3> QED BY <1>2, <3>1, <3>2 DEF Shape
  <2> QED BY <2>1, <2>2
<1>9. Whole(d1)
  BY <1>1, <1>2, <1>7, <1>8 DEF Whole
<1> QED BY <1>3, <1>9

\* The object now has one entry more than it is hidden for.
LEMMA EntryWeighs ==
  ASSUME NEW s, Valid(s), NEW j \in Oids, j \notin s.used,
         NEW X \in Objects(s.db), NEW d1, HasEntry(s, d1, j, X),
         NEW i \in Objects(d1)
  PROVE  LET n == Cardinality(Entries(d1, i))
         IN /\ n \in Nat
            /\ Own(d1, i) \in Int
            /\ Weighs(d1, i, IF i = X THEN n - 1 ELSE n)
<1> DEFINE db == s.db
           n == Cardinality(Entries(d1, i))
<1>1. Whole(db) /\ Sound(db) /\ db \in Stores /\ j \notin Objects(db)
  BY DEF Valid, Whole, Sound, Ready
<1>2. n \in Nat
  BY EntriesFinite
<1>3. Own(d1, i) \in Int
  <2>1. \A k \in Objects(d1) : d1[k].level \in Int
    BY KindOf DEF HasEntry
  <2> QED BY <2>1 DEF Own, Hides, LevelOf
<1>4. CASE i = j
  <2>1. Entries(d1, i) = {}
    BY <1>4 DEF Entries, HasEntry, Valid, References
  <2>2. Own(d1, i) = 0
    <3>1. d1[i].level = 0 /\ d1[i].target = None /\ d1[i].pid = Bin
      BY <1>4 DEF HasEntry
    <3>2. None \notin Objects(d1)
      BY SpecialIds DEF Objects
    <3>3. Bin \in Objects(d1) /\ d1[Bin].level = 0
      BY <1>1 DEF HasEntry, Whole, Shape
    <3>4. Hides(d1, None) = 0 /\ LevelOf(d1, Bin) = 0
      BY <3>2, <3>3 DEF Hides, LevelOf
    <3> QED BY <3>1, <3>4 DEF Own
  <2>3. n = 0 /\ i # X
    BY <1>1, <1>4, <2>1, FS_EmptySet
  <2> QED BY <1>2, <1>3, <2>2, <2>3 DEF Weighs
<1>5. CASE i # j
  <2>1. i \in Objects(db)
    BY <1>5 DEF HasEntry
  <2>2. Own(d1, i) = Own(db, i)
    BY <1>1, <2>1, AddOwn DEF HasEntry
  <2>3. Weighs(db, i, Cardinality(Entries(db, i)))
    <3>1. Entries(db, i) \ {} = Entries(db, i)
      OBVIOUS
    <3> QED BY <2>1, <3>1 DEF Valid, Weighed
  <2>4. CASE i # X
    <3>1. Entries(d1, i) = Entries(db, i)
      BY <1>1, <2>4 DEF Entries, HasEntry
    <3> QED BY <1>2, <1>3, <2>2, <2>3, <2>4, <3>1 DEF Weighs
  <2>5. CASE i = X
    <3>1. Entries(d1, i) = Entries(db, i) \cup {j} /\ j \notin Entries(db, i)
      BY <1>1, <2>5 DEF Entries, HasEntry
    <3>2. n = Cardinality(Entries(db, i)) + 1
      BY <3>1, EntriesFinite, FS_AddElement
    <3>3. Cardinality(Entries(db, i)) \in Nat
      BY EntriesFinite
    <3> QED BY <1>2, <1>3, <2>2, <2>3, <2>5, <3>2, <3>3 DEF Weighs
  <2> QED BY <2>4, <2>5
<1> QED BY <1>2, <1>3, <1>4, <1>5

\* A call of a method that hides or shows objects.
LEMMA MovesCall ==
  ASSUME NEW m \in Methods(BOOLEAN), NEW down, Moves(m, down),
         NEW s, Ready(s), s.ok, NEW X \in Objects(s.db), NEW up \in BOOLEAN,
         m[<<s, s.db[X], up>>].ok
  PROVE  MovedOver(s, m[<<s, s.db[X], up>>], {X}, down)
<1> DEFINE r == m[<<s, s.db[X], up>>]
<1>1. s \in Transactions /\ s.db[X] \in Records
  BY StoredIsRecord DEF Ready
<1>2. r \in Transactions
  BY <1>1 DEF Methods
<1>3. r.used = s.used /\ \E S : Spans(s.db, {X}, S) /\ Moved(s.db, r.db, S, down)
  BY <1>1 DEF Moves
<1> QED BY <1>2, <1>3 DEF MovedOver

\* Removable.recycle: the new entry is counted in the level.
LEMMA RecycleKeeps ==
  ASSUME NEW s, Valid(s), s.ok, NEW self, self.id \in Objects(s.db),
         s.db[self.id].kind \in Movables,
         ~Exact => Entries(s.db, self.id) = {},
         RecycleItem(s, self).ok
  PROVE  Done(s, RecycleItem(s, self))
<1> DEFINE db == s.db
           X == self.id
           j == NewId(s)
           e == BinEntry(s, self)
           a == Put(s, e)
           r == Recycle(a, db[X], TRUE)
<1>1. s \in Transactions /\ Whole(db) /\ Sound(db) /\ db \in Stores
  BY DEF Valid, Whole, Sound, Ready
<1>2. ~NoIdLeft(s)
  BY DEF RecycleItem, Raise
<1>3. j \in Oids /\ j \notin s.used
  BY <1>2, NewIdIsNew
<1>4. X \in Ids /\ Has(s, X)
  BY DEF Objects, Has
<1>5. /\ e \in Records /\ e.id = j /\ e.kind = "deleted" /\ e.pid = Bin
      /\ e.level = 0 /\ e.shortcuts = {} /\ e.target = None /\ e.ref = X
  BY <1>3, <1>4, BinEntryIsRecord
<1>6. RecycleItem(s, self) = IF a.ok THEN r ELSE a
  BY <1>2, <1>4 DEF RecycleItem, With, Then
<1> HIDE DEF j, e, a
<1>7. a.ok /\ r.ok /\ RecycleItem(s, self) = r
  BY <1>6
<1>8. a \in Transactions /\ PutDone(s, e, a)
  BY <1>1, <1>5, <1>7, PutEffect DEF a
<1>9. a.used = s.used \cup {j} /\ a.db = Written(db, j, e)
  BY <1>5, <1>8 DEF PutDone, Written
<1>10. HasEntry(s, a.db, j, X) /\ Whole(a.db)
  BY <1>3, <1>5, <1>9, EntryWhole
<1>11. Ready(a)
  <2>1. Objects(a.db) \subseteq a.used
    BY <1>9, <1>10 DEF HasEntry, Valid, Ready
  <2> QED BY <1>8, <1>10, <2>1 DEF Ready, Whole
<1>12. X \in Objects(a.db) /\ a.db[X] = db[X]
  BY <1>10 DEF HasEntry
<1>13. r = RecycleWithin[CallDepth][<<a, a.db[X], TRUE>>]
  BY <1>12 DEF Recycle
<1>14. /\ RecycleWithin[CallDepth] \in Methods(BOOLEAN)
       /\ Moves(RecycleWithin[CallDepth], TRUE)
  BY ItemOperationsAssumption, RecycleWithinUnfolds, RecycleMoves
<1> HIDE DEF r
<1>15. MovedOver(a, r, {X}, TRUE)
  BY <1>7, <1>11, <1>12, <1>13, <1>14, MovesCall
<1>16. /\ r \in Transactions /\ r.used = a.used
       /\ \E S : Spans(a.db, {X}, S) /\ Moved(a.db, r.db, S, TRUE)
  BY <1>15 DEF MovedOver
<1>17. PICK S : Spans(a.db, {X}, S) /\ Hidden(a.db, r.db, S)
  BY <1>16 DEF Moved
<1>18. r.db \in Stores /\ Frame(a.db, r.db)
  BY <1>16, <1>17 DEF Transactions, Stores, Hidden
<1>19. ASSUME NEW i \in Objects(a.db), a.db[i].kind \in {"root", "bin", "deleted"}
       PROVE  r.db[i].level = a.db[i].level
  <2>1. a.db[X].kind \in Movables
    BY <1>12
  <2>2. i \notin S
    BY <1>10, <1>12, <1>17, <1>19, <2>1, SpanKinds
  <2>3. a.db[i].target = None
    BY <1>10, <1>19 DEF Whole, Sound
  <2>4. ~Rises(a.db, r.db, None)
    BY SpecialIds DEF Rises, Objects
  <2>5. a.db[i].level \in Int
    BY <1>10, KindOf DEF HasEntry
  <2> QED BY <1>17, <2>2, <2>3, <2>4, <2>5 DEF Hidden
<1>20. Whole(r.db)
  BY <1>10, <1>18, <1>19, FrameWhole
<1>21. Objects(r.db) = Objects(a.db)
  BY <1>18 DEF Frame
<1>22. Weighed(r.db, {})
  <2> SUFFICES ASSUME NEW i \in Objects(r.db)
               PROVE  Weighs(r.db, i, Cardinality(Entries(r.db, i) \ {}))
    BY DEF Weighed
  <2> DEFINE n == Cardinality(Entries(a.db, i))
  <2>1. /\ n \in Nat /\ Own(a.db, i) \in Int
        /\ Weighs(a.db, i, IF i = X THEN n - 1 ELSE n)
    BY <1>3, <1>10, <1>21, EntryWeighs
  <2>2. Own(r.db, i) = Own(a.db, i) + (IF i = X THEN 1 ELSE 0)
    BY <1>10, <1>12, <1>17, <1>18, <1>21, HiddenOwn DEF Whole
  <2>3. Entries(r.db, i) \ {} = Entries(a.db, i)
    BY <1>18, FrameEntries
  <2> HIDE DEF n
  <2>4. Weighs(r.db, i, n)
    BY <2>1, <2>2 DEF Weighs
  <2> QED BY <2>3, <2>4 DEF n
<1>23. \A i \in Objects(r.db) :
         /\ r.db[i].kind = a.db[i].kind /\ r.db[i].ref = a.db[i].ref
         /\ i = j \/ (i \in Objects(db) /\ a.db[i] = db[i])
  BY <1>10, <1>18, <1>21 DEF Frame, SameItem, HasEntry
<1>24. a.db[j].kind = "deleted" /\ a.db[j].ref = X
  BY <1>10 DEF HasEntry
<1>25. Single(r.db)
  BY <1>23, <1>24 DEF Single, Valid, Entries
<1>26. References(r.db, r.used)
  <2>1. X \in s.used
    BY DEF Valid, Ready
  <2>2. s.used \subseteq r.used /\ X # j
    BY <1>3, <1>9, <1>16, <2>1
  <2> SUFFICES ASSUME NEW d \in Objects(r.db), r.db[d].kind = "deleted"
               PROVE  /\ r.db[d].ref \in r.used
                      /\ r.db[d].ref \in Objects(r.db) =>
                           r.db[r.db[d].ref].kind \in Movables
    BY DEF References
  <2>3. CASE d = j
    BY <1>12, <1>21, <1>23, <1>24, <2>1, <2>2, <2>3
  <2>4. CASE d # j
    <3>1. d \in Objects(db) /\ db[d].kind = "deleted" /\ r.db[d].ref = db[d].ref
      BY <1>23, <2>4
    <3>2. db[d].ref \in s.used /\ db[d].ref # j
      BY <1>3, <3>1 DEF Valid, References
    <3> QED BY <1>23, <2>2, <3>1, <3>2 DEF Valid, References
  <2> QED BY <2>3, <2>4
<1>27. Ready(r)
  BY <1>11, <1>16, <1>18, MovedReady
<1>28. Valid(r)
  BY <1>20, <1>22, <1>25, <1>26, <1>27 DEF Valid
<1>29. Keeps(s, r)
  BY <1>3, <1>9, <1>16, <1>23 DEF Keeps
<1> QED BY <1>7, <1>28, <1>29 DEF Done, r

-----------------------------------------------------------------------------
(* Deleting an object, and an entry of the bin with its object.            *)

\* A store without some objects, and all that hangs from them, is whole.
LEMMA RemovedWhole ==
  ASSUME NEW d0, Whole(d0), NEW d1 \in Stores, NEW D, NEW R,
         Removed(d0, d1, D, R), Root \notin R, Bin \notin R
  PROVE  /\ Whole(d1)
         /\ \A i \in Objects(d1) : /\ Own(d1, i) = Own(d0, i)
                                  /\ Entries(d1, i) = Entries(d0, i) \ R
<1>1. Sound(d0) /\ Cut(d0, d1, D) /\ Detached(d0, D) /\ Hangs(d0, D, R)
  BY DEF Whole, Removed
<1>2. Sound(d1)
  BY <1>1, CutSound
<1>3. D \subseteq Objects(d0) /\ Objects(d1) = Objects(d0) \ D /\ R \subseteq D
  BY <1>1 DEF Cut, Hangs
<1>4. None \notin D
  BY <1>3, SpecialIds DEF Objects
<1>5. Root \notin D /\ Bin \notin D
  <2>1. \A i \in {Root, Bin} : i \in Objects(d0) /\ d0[i].pid = None /\ d0[i].target = None
    BY SpecialIds DEF Whole, Sound
  <2> QED BY <1>1, <1>4, <2>1 DEF Hangs
<1>6. \A i \in Objects(d1) :
        /\ d1[i].kind = d0[i].kind /\ d1[i].pid = d0[i].pid
        /\ d1[i].level = d0[i].level /\ d1[i].target = d0[i].target
        /\ d1[i].ref = d0[i].ref /\ d1[i].shortcuts = d0[i].shortcuts \ D
        /\ d0[i].pid \notin D /\ d0[i].target \notin D /\ i \in Objects(d0)
  BY <1>1, <1>3 DEF Cut, Detached
<1>7. ASSUME NEW i \in Objects(d1) PROVE Shape(d1, i)
  <2>1. Shape(d0, i)
    BY <1>3 DEF Whole
  <2>2. d0[i].pid \in Objects(d0) =>
          d0[i].pid \in Objects(d1) /\ d1[d0[i].pid].kind = d0[d0[i].pid].kind
    BY <1>3, <1>6
  <2> QED BY <1>3, <1>6, <2>1, <2>2 DEF Shape
<1>8. Whole(d1)
  BY <1>2, <1>3, <1>5, <1>7 DEF Whole
<1>9. ASSUME NEW i \in Objects(d1) PROVE Own(d1, i) = Own(d0, i)
  <2>1. Hides(d1, d0[i].target) = Hides(d0, d0[i].target)
    BY <1>3, <1>6 DEF Hides
  <2>2. LevelOf(d1, d0[i].pid) = LevelOf(d0, d0[i].pid)
    BY <1>3, <1>6 DEF LevelOf
  <2> QED BY <1>6, <2>1, <2>2 DEF Own
<1>10. ASSUME NEW i \in Objects(d1) PROVE Entries(d1, i) = Entries(d0, i) \ R
  <2>1. ASSUME NEW d \in D, d0[d].kind = "deleted" PROVE d \in R
    <3>1. d \in Objects(d0) /\ d0[d].pid = Bin
      BY <1>3, <2>1 DEF Whole, Shape
    <3>2. d0[d].target = None
      BY <1>1, <2>1, <3>1 DEF Sound
    <3> QED BY <1>1, <1>4, <1>5, <3>1, <3>2 DEF Hangs
  <2> QED BY <1>3, <1>6, <2>1 DEF Entries
<1> QED BY <1>8, <1>9, <1>10

\* And it is valid if the entries removed hide none of the objects left.
LEMMA RemovedKeeps ==
  ASSUME NEW s, Ready(s), Whole(s.db), Single(s.db), References(s.db, s.used),
         NEW r \in Transactions, r.used = s.used, NEW D, NEW R,
         Removed(s.db, r.db, D, R), Root \notin R, Bin \notin R,
         \A i \in Objects(r.db) :
           Weighs(s.db, i, Cardinality(Entries(s.db, i) \ R))
  PROVE  Done(s, r)
<1>1. Cut(s.db, r.db, D)
  BY DEF Removed
<1>2. r.db \in Stores
  BY DEF Transactions, Stores
<1>3. /\ Whole(r.db)
      /\ \A i \in Objects(r.db) : /\ Own(r.db, i) = Own(s.db, i)
                                 /\ Entries(r.db, i) = Entries(s.db, i) \ R
  BY <1>2, RemovedWhole
<1>4. Weighed(r.db, {})
  <2> SUFFICES ASSUME NEW i \in Objects(r.db)
               PROVE  Weighs(r.db, i, Cardinality(Entries(r.db, i) \ {}))
    BY DEF Weighed
  <2>1. Entries(r.db, i) \ {} = Entries(s.db, i) \ R
    BY <1>3
  <2> QED BY <1>3, <2>1 DEF Weighs
<1>5. Ready(r)
  BY <1>1, CutReady
<1>6. Objects(r.db) \subseteq Objects(s.db) /\
      \A i \in Objects(r.db) : r.db[i].kind = s.db[i].kind /\ r.db[i].ref = s.db[i].ref
  BY <1>1 DEF Cut
<1>7. Single(r.db)
  BY <1>6 DEF Single
<1>8. References(r.db, r.used)
  <2> SUFFICES ASSUME NEW d \in Objects(r.db), r.db[d].kind = "deleted"
               PROVE  /\ r.db[d].ref \in r.used
                      /\ r.db[d].ref \in Objects(r.db) =>
                           r.db[r.db[d].ref].kind \in Movables
    BY DEF References
  <2>1. d \in Objects(s.db) /\ s.db[d].kind = "deleted" /\ s.db[d].ref = r.db[d].ref
    BY <1>6
  <2>2. /\ s.db[d].ref \in s.used
        /\ s.db[d].ref \in Objects(s.db) => s.db[s.db[d].ref].kind \in Movables
    BY <2>1 DEF References
  <2> QED BY <1>6, <2>1, <2>2
<1>9. Valid(r)
  BY <1>3, <1>4, <1>5, <1>7, <1>8 DEF Valid
<1>10. Keeps(s, r)
  BY <1>6 DEF Keeps
<1> QED BY <1>9, <1>10 DEF Done

\* A call of _delete on a stored object.
LEMMA DeleteCall ==
  ASSUME NEW s, Ready(s), s.ok, NEW X \in Objects(s.db),
         Delete(s, s.db[X], TRUE).ok
  PROVE  RemovedOver(s, Delete(s, s.db[X], TRUE), {X})
<1> DEFINE m == DeleteWithin[CallDepth]
           r == m[<<s, s.db[X], TRUE>>]
<1>1. Delete(s, s.db[X], TRUE) = r
  BY DEF Delete
<1>2. m \in Methods(BOOLEAN) /\ Deletes(m)
  BY ItemOperationsAssumption, DeleteWithinUnfolds, DeleteDeletes
<1>3. s \in Transactions /\ s.db[X] \in Records
  BY StoredIsRecord DEF Ready
<1> HIDE DEF m
<1>4. r \in Transactions
  BY <1>2, <1>3 DEF Methods
<1>5. r.used = s.used /\ \E D : Removed(s.db, r.db, D, {X})
  BY <1>1, <1>2, <1>3 DEF Deletes
<1>6. RemovedOver(s, r, {X})
  BY <1>4, <1>5 DEF RemovedOver
<1> QED BY <1>1, <1>6

\* Removable.delete reads the object again.
LEMMA DeleteItemCall ==
  ASSUME NEW s, Ready(s), s.ok, NEW self, DeleteItem(s, self).ok
  PROVE  /\ self.id \in Objects(s.db)
         /\ RemovedOver(s, DeleteItem(s, self), {self.id})
<1>1. self.id \in Objects(s.db)
  BY DEF DeleteItem, With, Has, Raise, Ready, Transactions
<1>2. DeleteItem(s, self) = Delete(s, s.db[self.id], TRUE)
  BY <1>1 DEF DeleteItem, With, Has
<1> QED BY <1>1, <1>2, DeleteCall

\* Removable.delete: no entry of the bin hides an object that is left.
LEMMA DeleteKeeps ==
  ASSUME NEW s, Valid(s), s.ok, NEW self,
         self.id \in Objects(s.db) => s.db[self.id].kind \in Movables,
         DeleteItem(s, self).ok
  PROVE  Done(s, DeleteItem(s, self))
<1> DEFINE X == self.id
           r == DeleteItem(s, self)
<1>1. Ready(s) /\ Whole(s.db) /\ Single(s.db) /\ References(s.db, s.used)
  BY DEF Valid
<1>2. X \in Objects(s.db) /\ RemovedOver(s, r, {X})
  BY <1>1, DeleteItemCall
<1>3. PICK D : Removed(s.db, r.db, D, {X})
  BY <1>2 DEF RemovedOver
<1>4. r \in Transactions /\ r.used = s.used
  BY <1>2 DEF RemovedOver
<1>5. s.db[X].kind \in Movables
  BY <1>2
<1>6. X # Root /\ X # Bin
  BY <1>1, <1>2, <1>5 DEF Whole, Shape, Movables
<1>7. ASSUME NEW i \in Objects(r.db)
      PROVE  Weighs(s.db, i, Cardinality(Entries(s.db, i) \ {X}))
  <2>1. i \in Objects(s.db)
    BY <1>3 DEF Removed, Cut
  <2>2. Entries(s.db, i) \ {X} = Entries(s.db, i) \ {}
    BY <1>5 DEF Entries, Movables
  <2> QED BY <2>1, <2>2 DEF Valid, Weighed
<1> HIDE DEF r, X
<1>8. Done(s, r)
  BY <1>1, <1>3, <1>4, <1>6, <1>7, RemovedKeeps
<1> QED BY <1>8 DEF r

\* The copy of an entry of the bin that a request holds.
IsEntry(s, self) ==
  self.id \in Objects(s.db) =>
    s.db[self.id].kind = "deleted" /\ s.db[self.id].ref = self.ref

\* DeletedItem.delete removes the entry and the object it stands for.
LEMMA PurgeRemoves ==
  ASSUME NEW s, Valid(s), s.ok, NEW self, IsEntry(s, self),
         PurgeItem(s, self).ok
  PROVE  LET r == PurgeItem(s, self)
         IN /\ r \in Transactions /\ r.used = s.used
            /\ self.id \in Objects(s.db)
            /\ self.ref \notin Objects(r.db)
            /\ \E D : \/ Removed(s.db, r.db, D, {self.id})
                      \/ /\ self.ref \in Objects(s.db)
                         /\ Removed(s.db, r.db, D, {self.id, self.ref})
<1> DEFINE E == self.id
           X == self.ref
           a == DeleteItem(s, self)
           b == Delete(a, a.db[X], TRUE)
           r == PurgeItem(s, self)
<1>1. Ready(s)
  BY DEF Valid
<1>2. r = IF a.ok THEN IF Has(a, X) THEN b ELSE a ELSE a
  BY DEF PurgeItem, Then
<1>3. a.ok
  BY <1>2
<1>4. E \in Objects(s.db) /\ RemovedOver(s, a, {E})
  BY <1>1, <1>3, DeleteItemCall
<1>5. a \in Transactions /\ a.used = s.used
  BY <1>4 DEF RemovedOver
<1>6. PICK D1 : Removed(s.db, a.db, D1, {E})
  BY <1>4 DEF RemovedOver
<1> HIDE DEF a, r
<1>7. CASE ~Has(a, X)
  <2>1. r = a
    BY <1>2, <1>3, <1>7
  <2>2. X \notin Objects(r.db)
    BY <1>7, <2>1 DEF Has
  <2>3. \E D : Removed(s.db, r.db, D, {E})
    BY <1>6, <2>1
  <2> QED BY <1>4, <1>5, <2>1, <2>2, <2>3 DEF r
<1>8. CASE Has(a, X)
  <2>1. r = b /\ b.ok /\ X \in Objects(a.db)
    BY <1>2, <1>3, <1>8 DEF Has, r
  <2>2. Ready(a)
    BY <1>1, <1>5, <1>6, CutReady DEF Removed
  <2>3. RemovedOver(a, b, {X})
    BY <1>3, <2>1, <2>2, DeleteCall
  <2> HIDE DEF b
  <2>4. PICK D2 : Removed(a.db, b.db, D2, {X})
    BY <2>3 DEF RemovedOver
  <2>5. b \in Transactions /\ b.used = s.used
    BY <1>5, <2>3 DEF RemovedOver
  <2>6. Removed(s.db, b.db, D1 \cup D2, {E} \cup {X})
    BY <1>6, <2>4, RemovedComposes
  <2>7. {E} \cup {X} = {E, X}
    OBVIOUS
  <2>8. X \notin Objects(b.db)
    BY <2>4 DEF Removed, Cut, Hangs
  <2>9. X \in Objects(s.db)
    BY <1>6, <2>1 DEF Removed, Cut
  <2>10. \E D : Removed(s.db, b.db, D, {E, X})
    BY <2>6, <2>7
  <2> QED BY <1>4, <2>1, <2>5, <2>8, <2>9, <2>10 DEF r
<1> QED BY <1>7, <1>8

\* So the entry hides none of the objects left.
LEMMA PurgeKeeps ==
  ASSUME NEW s, Valid(s), s.ok, NEW self, IsEntry(s, self),
         PurgeItem(s, self).ok
  PROVE  Done(s, PurgeItem(s, self)) /\ PurgeItem(s, self).used = s.used
<1> DEFINE E == self.id
           X == self.ref
           r == PurgeItem(s, self)
<1>1. /\ r \in Transactions /\ r.used = s.used
      /\ E \in Objects(s.db)
      /\ X \notin Objects(r.db)
      /\ \E D : \/ Removed(s.db, r.db, D, {E})
                \/ /\ X \in Objects(s.db)
                   /\ Removed(s.db, r.db, D, {E, X})
  BY PurgeRemoves
<1> HIDE DEF r
<1>2. Ready(s) /\ Whole(s.db) /\ Single(s.db) /\ References(s.db, s.used)
  BY DEF Valid
<1>3. PICK D, R : /\ Removed(s.db, r.db, D, R)
                  /\ R = {E} \/ (X \in Objects(s.db) /\ R = {E, X})
  BY <1>1
<1>4. s.db[E].kind = "deleted" /\ s.db[E].ref = X
  BY <1>1 DEF IsEntry
<1>5. X \in Objects(s.db) => s.db[X].kind \in Movables
  BY <1>1, <1>2, <1>4 DEF References
<1>6. Root \notin R /\ Bin \notin R
  BY <1>1, <1>2, <1>3, <1>4, <1>5 DEF Whole, Shape, Movables
<1>7. ASSUME NEW i \in Objects(r.db)
      PROVE  Weighs(s.db, i, Cardinality(Entries(s.db, i) \ R))
  <2>1. i \in Objects(s.db) /\ i # X
    BY <1>1, <1>3 DEF Removed, Cut
  <2>2. Entries(s.db, i) \ R = Entries(s.db, i) \ {}
    BY <1>3, <1>4, <1>5, <2>1 DEF Entries, Movables
  <2> QED BY <2>1, <2>2 DEF Valid, Weighed
<1>8. Done(s, r)
  BY <1>1, <1>2, <1>3, <1>6, <1>7, RemovedKeeps
<1> QED BY <1>1, <1>8 DEF r

-----------------------------------------------------------------------------
(* Undelete stores nothing new but the object it is called on.             *)

Keyed(db) == \A i \in Objects(db) : db[i].id = i

AddsOnly(m) ==
  \A s \in Transactions, self \in Records, up \in BOOLEAN :
    LET r == m[<<s, self, up>>]
    IN Keyed(s.db) /\ s.ok /\ r.ok =>
         Keyed(r.db) /\ Objects(r.db) \subseteq Objects(s.db) \cup {self.id}

\* A write stores the object under its own id.
LEMMA PutKeyed ==
  ASSUME NEW s \in Transactions, Keyed(s.db), NEW item \in Records,
         NEW r, PutDone(s, item, r)
  PROVE  Keyed(r.db) /\ Objects(r.db) = Objects(s.db) \cup {item.id}
<1>1. s.db \in Stores
  BY DEF Transactions, Stores
<1>2. r.db = Written(s.db, item.id, item)
  BY DEF PutDone, Written
<1> QED BY <1>1, <1>2, PutStored DEF Keyed

\* Calling a method in turn brings no object back if the method does not.
LEMMA InTurnAddsNothing ==
  ASSUME NEW m \in Methods(BOOLEAN), AddsOnly(m), NEW s \in Transactions,
         Keyed(s.db), NEW ids, NEW up \in BOOLEAN, NEW skips \in BOOLEAN,
         InTurn(s, ids, m, up, skips).ok
  PROVE  LET r == InTurn(s, ids, m, up, skips)
         IN /\ r \in Transactions /\ Keyed(r.db)
            /\ Objects(r.db) \subseteq Objects(s.db)
<1> DEFINE r == InTurn(s, ids, m, up, skips)
           J == {p \in (SUBSET Oids) \X Transactions :
                   Keyed(p[2].db) /\ Objects(p[2].db) \subseteq Objects(s.db)}
<1>1. <<{}, s>> \in J
  OBVIOUS
<1>2. KeptInTurn(J, ids, m, up, skips)
  <2> SUFFICES ASSUME NEW done \in SUBSET (ids \cap Oids), NEW t \in Transactions,
                      NEW k \in (ids \cap Oids) \ done, <<done, t>> \in J, t.ok
               PROVE  /\ k \in Objects(t.db) /\ m[<<t, t.db[k], up>>].ok =>
                           <<done \cup {k}, m[<<t, t.db[k], up>>]>> \in J
                      /\ k \notin Objects(t.db) /\ skips =>
                           <<done \cup {k}, t>> \in J
    BY DEF KeptInTurn
  <2>1. Keyed(t.db) /\ Objects(t.db) \subseteq Objects(s.db)
    OBVIOUS
  <2>2. done \cup {k} \in SUBSET Oids
    OBVIOUS
  <2>3. ASSUME k \in Objects(t.db), m[<<t, t.db[k], up>>].ok
        PROVE  <<done \cup {k}, m[<<t, t.db[k], up>>]>> \in J
    <3> DEFINE q == m[<<t, t.db[k], up>>]
    <3>1. t.db[k] \in Records /\ t.db[k].id = k
      BY <2>1, <2>3, StoredIsRecord DEF Keyed
    <3>2. q \in Transactions
      BY <3>1 DEF Methods
    <3>3. Keyed(q.db) /\ Objects(q.db) \subseteq Objects(t.db) \cup {k}
      BY <2>1, <2>3, <3>1 DEF AddsOnly
    <3> HIDE DEF q
    <3>4. <<done \cup {k}, q>> \in J
      BY <2>1, <2>2, <2>3, <3>2, <3>3
    <3> QED BY <3>4 DEF q
  <2> QED BY <2>1, <2>2, <2>3
<1> HIDE DEF J
<1>3. r \in Transactions /\ <<ids \cap Oids, r>> \in J
  BY <1>1, <1>2, InTurnRule
<1> QED BY <1>3 DEF J

\* _undelete writes no object but its own back, if its nested calls do not.
LEMMA UndeleteStepAdds ==
  ASSUME NEW m \in Methods(BOOLEAN), AddsOnly(m), NEW s \in Transactions,
         Keyed(s.db), s.ok, NEW self \in Records, NEW up \in BOOLEAN,
         UndeleteWith(s, self, up, m).ok
  PROVE  LET r == UndeleteWith(s, self, up, m)
         IN Keyed(r.db) /\ Objects(r.db) \subseteq Objects(s.db) \cup {self.id}
<1> DEFINE r == UndeleteWith(s, self, up, m)
           shown == [self EXCEPT !.level = @ - 1]
<1>1. r \in Transactions /\ UndeleteSteps(s, self, up, m, r) /\ r.ok
  BY UndeleteWithSteps
<1>2. self.level - 1 \in Int
  BY DEF Records
<1>3. shown \in Records /\ shown.id = self.id
  BY <1>2, LevelChanged
<1> HIDE DEF r
<1>4. PICK a, b, c \in Transactions :
       /\ a = IF IsDeleted(shown) THEN s
              ELSE ForEach(s, shown.shortcuts, m, TRUE)
       /\ b = IF up THEN CountInParent(a, self, 1) ELSE a
       /\ c = IF ~IsCollection(self) THEN b
              ELSE ForEachChild(b, self.id, m, FALSE)
       /\ r = Put(c, shown)
       /\ a.ok /\ b.ok /\ c.ok
  BY <1>1 DEF UndeleteSteps
<1> HIDE DEF shown
<1>5. TRUE \in BOOLEAN /\ FALSE \in BOOLEAN
  OBVIOUS
<1>6. Keyed(a.db) /\ Objects(a.db) \subseteq Objects(s.db)
  BY <1>4, <1>5, InTurnAddsNothing DEF ForEach
<1>7. Keyed(b.db) /\ Objects(b.db) \subseteq Objects(a.db)
  <2>1. CASE ~up
    BY <1>4, <1>6, <2>1
  <2>2. CASE up
    <3> DEFINE q == Count(a.db[self.pid], self, 1)
    <3>1. self.pid \in Objects(a.db) /\ PutDone(a, q, b)
      <4>1. 1 \in Int
        OBVIOUS
      <4> QED BY <1>4, <2>2, <4>1, CountInParentEffect
    <3>2. a.db[self.pid] \in Records /\ a.db[self.pid].id = self.pid
      BY <1>6, <3>1, StoredIsRecord DEF Keyed
    <3>3. q \in Records /\ q.id = self.pid
      <4>1. 1 \in Int
        OBVIOUS
      <4> QED BY <3>2, <4>1, Counted
    <3> HIDE DEF q
    <3> QED BY <1>6, <3>1, <3>3, PutKeyed
  <2> QED BY <2>1, <2>2
<1>8. Keyed(c.db) /\ Objects(c.db) \subseteq Objects(b.db)
  <2>1. CASE ~IsCollection(self)
    BY <1>4, <1>7, <2>1
  <2>2. CASE IsCollection(self)
    <3> DEFINE ids == Children(b, self.id)
    <3>1. c = InTurn(b, ids, m, FALSE, TRUE)
      BY <1>4, <2>2 DEF ForEachChild
    <3> HIDE DEF ids
    <3>2. InTurn(b, ids, m, FALSE, TRUE).ok
      BY <1>4, <3>1
    <3> QED BY <1>4, <1>5, <1>7, <3>1, <3>2, InTurnAddsNothing
  <2> QED BY <2>1, <2>2
<1>9. PutDone(c, shown, r)
  BY <1>1, <1>3, <1>4, PutEffect
<1>10. Keyed(r.db) /\ Objects(r.db) = Objects(c.db) \cup {self.id}
  BY <1>3, <1>8, <1>9, PutKeyed
<1> QED BY <1>6, <1>7, <1>8, <1>10 DEF r

\* _undelete brings at most its own object back, within any number of calls.
LEMMA UndeleteAddsOnly == \A n \in Nat : AddsOnly(UndeleteWithin[n])
<1> DEFINE T == {n \in Nat : AddsOnly(UndeleteWithin[n])}
<1>1. 0 \in T
  <2>1. ASSUME NEW s \in Transactions, NEW self \in Records, NEW up \in BOOLEAN
        PROVE  ~UndeleteWithin[0][<<s, self, up>>].ok
    BY UndeleteUnfolds
  <2> QED BY <2>1 DEF AddsOnly
<1>2. ASSUME NEW n \in T PROVE n + 1 \in T
  <2>1. n \in Nat /\ n + 1 \in Nat /\ n + 1 > 0 /\ n + 1 - 1 = n
    OBVIOUS
  <2>2. AddsOnly(UndeleteWithin[n]) /\ UndeleteWithin[n] \in Methods(BOOLEAN)
    BY <2>1, UndeleteWithinUnfolds
  <2> DEFINE m == UndeleteWithin[n]
             q == UndeleteWithin[n + 1]
  <2>3. ASSUME NEW s \in Transactions, NEW self \in Records, NEW up \in BOOLEAN,
               Keyed(s.db), s.ok, q[<<s, self, up>>].ok
        PROVE  /\ Keyed(q[<<s, self, up>>].db)
               /\ Objects(q[<<s, self, up>>].db) \subseteq Objects(s.db) \cup {self.id}
    <3>1. q[<<s, self, up>>] = UndeleteWith(s, self, up, m)
      BY <2>1, UndeleteUnfolds
    <3> HIDE DEF m, q
    <3> QED BY <2>2, <2>3, <3>1, UndeleteStepAdds DEF m
  <2>4. AddsOnly(q)
    <3> HIDE DEF q
    <3> QED BY <2>3 DEF AddsOnly
  <2> QED BY <2>1, <2>4
<1> HIDE DEF T
<1>3. Nat \subseteq T
  <2>1. \A n \in T \cap Nat : n + 1 \in T
    BY <1>2
  <2> QED BY <1>1, <2>1, SetInduction
<1> QED BY <1>3 DEF T

-----------------------------------------------------------------------------
(* Restoring an object, to its folder or to another one.                   *)

\* The store without an object that was taken out to be put elsewhere.
LEMMA EraseSound ==
  ASSUME NEW db, Sound(db), NEW X \in Objects(db)
  PROVE  /\ Sound([db EXCEPT ![X] = Nothing])
         /\ Objects([db EXCEPT ![X] = Nothing]) = Objects(db) \ {X}
<1> DEFINE d1 == [db EXCEPT ![X] = Nothing]
<1>1. db \in Stores /\ X \in Ids
  BY DEF Sound, Objects
<1>2. d1 \in Stores /\ d1[X] = Nothing /\ \A i \in Ids \ {X} : d1[i] = db[i]
  BY <1>1 DEF Stores
<1>3. Objects(d1) = Objects(db) \ {X}
  BY <1>1, <1>2 DEF Objects
<1> HIDE DEF d1
<1>4. \A i \in Objects(d1) : i \in Objects(db) /\ d1[i] = db[i]
  BY <1>2, <1>3 DEF Objects
<1>5. Sound(d1)
  <2>1. \A i \in Objects(d1) :
          /\ d1[i].id = i
          /\ d1[i].pid \in Objects(d1) => IsCollection(d1[d1[i].pid])
          /\ d1[i].target # None => d1[i].kind = "shortcut"
          /\ i \notin Oids => d1[i].pid = None /\ d1[i].target = None
    BY <1>4 DEF Sound
  <2>2. \A i, k \in Objects(d1) : k \in d1[i].shortcuts <=> d1[k].target = i
    BY <1>4 DEF Sound
  <2>3. ASSUME NEW S \in SUBSET Objects(d1), S # {}
        PROVE  (\E i \in S : d1[i].pid \notin S) /\ (\E i \in S : d1[i].target \notin S)
    <3>1. S \in SUBSET Objects(db)
      BY <1>3
    <3> QED BY <1>4, <2>3, <3>1 DEF Sound
  <2> QED BY <1>2, <2>1, <2>2, <2>3 DEF Sound
<1> QED BY <1>3, <1>5 DEF d1

\* Writing a stored object again.
LEMMA RewriteStored ==
  ASSUME NEW db \in Stores, NEW X \in Objects(db), NEW item \in Records,
         item.id = X
  PROVE  /\ Written(db, X, item) \in Stores
         /\ Objects(Written(db, X, item)) = Objects(db)
         /\ Written(db, X, item)[X] = item
         /\ \A i : i # X => Written(db, X, item)[i] = db[i]
<1>1. Objects(Written(db, X, item)) = Objects(db) \cup {X}
  BY PutStored
<1> QED BY <1>1, PutStored

\* The object in another folder.
InOtherFolder(db, X, P, back) ==
  /\ X \in Objects(db) /\ P \in Objects(db) /\ P # X
  /\ db[X].kind \in Movables
  /\ db[P].kind \in {"root", "folder"}
  /\ back \in Records /\ back.id = X /\ back.kind = db[X].kind
  /\ back.pid = P /\ back.target = db[X].target
  /\ back.shortcuts = db[X].shortcuts /\ back.ref = db[X].ref

\* A store with an object in another folder is whole if no loop came about.
LEMMA OtherFolderWhole ==
  ASSUME NEW db, Whole(db), NEW X, NEW P, NEW back,
         InOtherFolder(db, X, P, back),
         \A S \in SUBSET Objects(db) :
           S # {} => \E i \in S : Written(db, X, back)[i].pid \notin S
  PROVE  Whole(Written(db, X, back))
<1> DEFINE d1 == Written(db, X, back)
<1>1. /\ db \in Stores /\ Sound(db) /\ X \in Objects(db)
      /\ back \in Records /\ back.id = X
  BY DEF Whole, Sound, InOtherFolder
<1>2. /\ d1 \in Stores /\ Objects(d1) = Objects(db) /\ d1[X] = back
      /\ \A i : i # X => d1[i] = db[i]
  BY <1>1, RewriteStored
<1> HIDE DEF d1
<1>3. \A i \in Objects(db) : /\ d1[i].id = i /\ d1[i].kind = db[i].kind
                             /\ d1[i].target = db[i].target
                             /\ d1[i].shortcuts = db[i].shortcuts
                             /\ i # X => d1[i].pid = db[i].pid
  BY <1>1, <1>2 DEF Sound, InOtherFolder
<1>4. /\ P \in Objects(db) /\ P # X /\ IsCollection(db[P])
      /\ X \in Objects(db) /\ d1[X].pid = P
  BY <1>2 DEF InOtherFolder, IsCollection
<1>5. X \in Oids
  <2>1. X # Root /\ X # Bin
    BY DEF Whole, Shape, InOtherFolder, Movables
  <2> QED BY <1>4, <2>1 DEF Objects, Ids
<1>6. ASSUME NEW i \in Objects(d1)
      PROVE  /\ d1[i].id = i
             /\ d1[i].pid \in Objects(d1) => IsCollection(d1[d1[i].pid])
             /\ d1[i].target # None => d1[i].kind = "shortcut"
             /\ i \notin Oids => d1[i].pid = None /\ d1[i].target = None
  <2>1. \A k \in Objects(db) : IsCollection(d1[k]) <=> IsCollection(db[k])
    BY <1>3 DEF IsCollection
  <2> QED BY <1>1, <1>2, <1>3, <1>4, <1>5, <2>1 DEF Sound
<1>7. \A i, k \in Objects(d1) : k \in d1[i].shortcuts <=> d1[k].target = i
  BY <1>1, <1>2, <1>3 DEF Sound
<1>8. ASSUME NEW S \in SUBSET Objects(d1), S # {}
      PROVE  \E i \in S : d1[i].target \notin S
  BY <1>1, <1>2, <1>3, <1>8 DEF Sound
<1>9. ASSUME NEW S \in SUBSET Objects(d1), S # {}
      PROVE  \E i \in S : d1[i].pid \notin S
  BY <1>2, <1>9 DEF d1
<1>10. Sound(d1)
  BY <1>2, <1>6, <1>7, <1>8, <1>9 DEF Sound
<1>11. ASSUME NEW i \in Objects(d1), i # X PROVE Shape(d1, i)
  <2>1. Shape(db, i) /\ d1[i] = db[i]
    BY <1>2, <1>11 DEF Whole
  <2>2. d1[i].pid \in Objects(db) => d1[d1[i].pid].kind = db[d1[i].pid].kind
    BY <1>3
  <2> QED BY <1>2, <2>1, <2>2 DEF Shape
<1>12. Shape(d1, X)
  <2>1. Shape(db, X)
    BY <1>1 DEF Whole
  <2>2. d1[P].kind = db[P].kind
    BY <1>3, <1>4
  <2> QED BY <1>2, <2>1, <2>2 DEF InOtherFolder, Shape, Movables
<1>13. Whole(d1)
  BY <1>2, <1>10, <1>11, <1>12 DEF Whole
<1> QED BY <1>13 DEF d1

\* The folder is visible, and the object is hidden no more often than before.
PutInFolder(db, X, P, back) ==
  /\ InOtherFolder(db, X, P, back)
  /\ db[X].level >= 1 /\ db[P].level = 0
  /\ back.level >= 1 /\ back.level <= db[X].level

\* Nor does one: a hidden object is not around a visible folder.
LEMMA BackWhole ==
  ASSUME NEW db, Whole(db), Weighed(db, {}), NEW X, NEW P, NEW back,
         PutInFolder(db, X, P, back)
  PROVE  Whole(Written(db, X, back))
<1> DEFINE d1 == Written(db, X, back)
<1>1. /\ db \in Stores /\ Sound(db) /\ X \in Objects(db)
      /\ back \in Records /\ back.id = X /\ back.pid = P
      /\ db[X].level >= 1 /\ P \in Objects(db) /\ db[P].level = 0
  BY DEF Whole, Sound, PutInFolder, InOtherFolder
<1>2. /\ Objects(d1) = Objects(db) /\ d1[X] = back
      /\ \A i : i # X => d1[i] = db[i]
  BY <1>1, RewriteStored
<1> HIDE DEF d1
<1>3. ASSUME NEW S \in SUBSET Objects(db), S # {}
      PROVE  \E i \in S : d1[i].pid \notin S
  <2> SUFFICES ASSUME \A i \in S : d1[i].pid \in S PROVE FALSE
    OBVIOUS
  <2>1. X \in S
    BY <1>1, <1>2, <1>3 DEF Sound
  <2> DEFINE T == {i \in S : db[i].level = 0}
  <2>2. P \in T
    BY <1>1, <1>2, <2>1
  <2>3. ASSUME NEW i \in T PROVE db[i].pid \in T
    <3>1. i \in Objects(db) /\ i # X /\ db[i].level = 0
      BY <1>1
    <3>2. db[i].pid \in S
      BY <1>2, <3>1
    <3>3. db[i].pid \in Objects(db) /\ db[db[i].pid].level >= 0
      BY <1>1, <3>2, LevelsNatural
    <3>4. Own(db, i) >= Cardinality(Entries(db, i) \ {})
      BY <3>1 DEF Weighed, Weighs
    <3>5. Entries(db, i) \ {} = Entries(db, i)
      OBVIOUS
    <3>6. Cardinality(Entries(db, i)) \in Nat
      BY EntriesFinite
    <3>7. Hides(db, db[i].target) \in {0, 1}
      BY DEF Hides
    <3>8. LevelOf(db, db[i].pid) = db[db[i].pid].level /\ db[db[i].pid].level \in Int
      BY <1>1, <3>3, KindOf DEF LevelOf
    <3>9. Own(db, i) = 0 - Hides(db, db[i].target) - db[db[i].pid].level
      BY <3>1, <3>8 DEF Own
    <3>10. db[db[i].pid].level = 0
      BY <3>3, <3>4, <3>5, <3>6, <3>7, <3>8, <3>9
    <3> QED BY <3>2, <3>10
  <2>4. T \in SUBSET Objects(db) /\ T # {}
    BY <2>2
  <2> HIDE DEF T
  <2> QED BY <1>1, <2>3, <2>4 DEF Sound
<1>4. InOtherFolder(db, X, P, back)
  BY DEF PutInFolder
<1> QED BY <1>3, <1>4, OtherFolderWhole DEF d1

\* The same weight for the other objects.
LEMMA BackOwn ==
  ASSUME NEW db, Whole(db), Weighed(db, {}), NEW X, NEW P, NEW back,
         PutInFolder(db, X, P, back), NEW i \in Objects(db), i # X
  PROVE  /\ Own(Written(db, X, back), i) \in Int /\ Own(db, i) \in Int
         /\ Own(Written(db, X, back), i) >= Own(db, i)
         /\ back.level = db[X].level =>
              Own(Written(db, X, back), i) = Own(db, i)
<1> DEFINE d1 == Written(db, X, back)
<1>1. db \in Stores /\ Sound(db) /\ X \in Objects(db)
      /\ back \in Records /\ back.id = X
  BY DEF Whole, Sound, PutInFolder, InOtherFolder
<1>2. /\ d1 \in Stores /\ d1[X] = back /\ Objects(d1) = Objects(db)
      /\ \A k : k # X => d1[k] = db[k]
  BY <1>1, RewriteStored
<1> HIDE DEF d1
<1>3. /\ db[X].level \in Int /\ back.level \in Int /\ X \in Objects(db)
      /\ back.level >= 1 /\ back.level <= db[X].level
  BY <1>1, KindOf DEF PutInFolder, InOtherFolder, Records
<1>4. d1[i] = db[i] /\ db[i].level \in Int
  BY <1>1, <1>2, KindOf
<1>5. ASSUME NEW t PROVE Hides(d1, t) = Hides(db, t)
  BY <1>2, <1>3 DEF Hides
<1>6. ASSUME NEW p PROVE /\ LevelOf(d1, p) \in Int /\ LevelOf(db, p) \in Int
                         /\ LevelOf(d1, p) <= LevelOf(db, p)
                         /\ back.level = db[X].level => LevelOf(d1, p) = LevelOf(db, p)
  <2>1. p \in Objects(db) => db[p].level \in Int
    BY <1>1, KindOf
  <2> QED BY <1>2, <1>3, <2>1 DEF LevelOf
<1>7. Hides(db, db[i].target) \in Int
  BY DEF Hides
<1>8. /\ Own(d1, i) = db[i].level - Hides(db, db[i].target) - LevelOf(d1, db[i].pid)
      /\ Own(db, i) = db[i].level - Hides(db, db[i].target) - LevelOf(db, db[i].pid)
  BY <1>4, <1>5 DEF Own
<1>9. /\ Own(d1, i) \in Int /\ Own(db, i) \in Int
      /\ Own(d1, i) >= Own(db, i)
      /\ back.level = db[X].level => Own(d1, i) = Own(db, i)
  BY <1>4, <1>6, <1>7, <1>8
<1> QED BY <1>9 DEF d1

\* The object itself: its new folder is visible.
LEMMA BackOwnItself ==
  ASSUME NEW db, Whole(db), Weighed(db, {}), NEW X, NEW P, NEW back,
         PutInFolder(db, X, P, back)
  PROVE  LET d1 == Written(db, X, back)
         IN /\ Own(d1, X) \in Int /\ Own(db, X) \in Int
            /\ back.level = db[X].level =>
                 Own(d1, X) >= Own(db, X) /\ (P = db[X].pid => Own(d1, X) = Own(db, X))
            /\ back.kind # "shortcut" => Own(d1, X) = back.level
<1> DEFINE d1 == Written(db, X, back)
<1>1. db \in Stores /\ Sound(db) /\ X \in Objects(db)
      /\ back \in Records /\ back.id = X
  BY DEF Whole, Sound, PutInFolder, InOtherFolder
<1>2. /\ d1 \in Stores /\ d1[X] = back /\ Objects(d1) = Objects(db)
      /\ \A k : k # X => d1[k] = db[k]
  BY <1>1, RewriteStored
<1> HIDE DEF d1
<1>3. /\ db[X].level \in Int /\ back.level \in Int /\ X \in Objects(db)
      /\ back.level >= 1 /\ back.level <= db[X].level
      /\ P \in Objects(db) /\ P # X /\ db[P].level = 0
  BY <1>1, KindOf DEF PutInFolder, InOtherFolder, Records
<1>4. ASSUME NEW t PROVE Hides(d1, t) = Hides(db, t) /\ Hides(db, t) \in Int
  BY <1>2, <1>3 DEF Hides
<1>5. LevelOf(d1, P) = 0 /\ LevelOf(db, P) = 0
  BY <1>2, <1>3 DEF LevelOf
<1>6. LevelOf(db, db[X].pid) \in Int /\ LevelOf(db, db[X].pid) >= 0
  <2>1. CASE db[X].pid \in Objects(db)
    <3>1. db[db[X].pid].level \in Int /\ db[db[X].pid].level >= 0
      BY <1>1, <2>1, KindOf, LevelsNatural
    <3> QED BY <2>1, <3>1 DEF LevelOf
  <2>2. CASE db[X].pid \notin Objects(db)
    BY <2>2 DEF LevelOf
  <2> QED BY <2>1, <2>2
<1>7. back.target = db[X].target /\ back.pid = P
  BY DEF PutInFolder, InOtherFolder
<1>8. /\ Own(d1, X) = back.level - Hides(db, db[X].target)
      /\ Own(db, X) = db[X].level - Hides(db, db[X].target) - LevelOf(db, db[X].pid)
  BY <1>2, <1>3, <1>4, <1>5, <1>7 DEF Own
<1>9. back.kind # "shortcut" => Hides(db, db[X].target) = 0
  <2>1. back.kind # "shortcut" => db[X].target = None
    BY <1>1, <1>3 DEF Sound, PutInFolder, InOtherFolder
  <2> QED BY <2>1, SpecialIds DEF Hides, Objects
<1>10. /\ Own(d1, X) \in Int /\ Own(db, X) \in Int
       /\ back.level = db[X].level =>
            Own(d1, X) >= Own(db, X) /\ (P = db[X].pid => Own(d1, X) = Own(db, X))
       /\ back.kind # "shortcut" => Own(d1, X) = back.level
  BY <1>3, <1>4, <1>5, <1>6, <1>8, <1>9
<1> QED BY <1>10 DEF d1

\* Undelete of an object, put in a visible folder: r has everything below it
\* shown once, and the entry E for it may go.
LEMMA ShownWeighed ==
  ASSUME NEW db, Whole(db), Weighed(db, {}), Single(db), NEW X, NEW P, NEW back,
         PutInFolder(db, X, P, back),
         NEW E \in Objects(db), db[E].kind = "deleted", db[E].ref = X,
         Exact => P = db[X].pid /\ back.level = db[X].level,
         back.level = db[X].level \/ (~Exact /\ back.level = 1 /\ back.kind # "shortcut"),
         NEW d2 \in Stores, NEW S, Spans(Written(db, X, back), {X}, S),
         Hidden(d2, Written(db, X, back), S)
  PROVE  /\ Whole(d2) /\ Frame(Written(db, X, back), d2)
         /\ Weighed(d2, {E})
<1> DEFINE d1 == Written(db, X, back)
<1>1. db \in Stores /\ Sound(db) /\ X \in Objects(db) /\ back \in Records /\ back.id = X
  BY DEF Whole, Sound, PutInFolder, InOtherFolder
<1>2. /\ d1 \in Stores /\ Objects(d1) = Objects(db) /\ d1[X] = back
      /\ \A i : i # X => d1[i] = db[i]
  BY <1>1, RewriteStored
<1>3. Whole(d1) /\ Sound(d1)
  BY BackWhole DEF Whole
<1>4. Frame(d2, d1) /\ Frame(d1, d2)
  BY FrameSymmetric DEF Hidden
<1>5. d1[X].kind \in Movables /\ back.kind = db[X].kind /\ back.ref = db[X].ref
  BY <1>2 DEF PutInFolder, InOtherFolder
<1>6. ASSUME NEW i \in Objects(d1) PROVE Own(d1, i) \in Int /\ Own(db, i) \in Int
  BY <1>2, <1>6, BackOwn, BackOwnItself
<1>7. ASSUME NEW i \in Objects(d1), i # X
      PROVE  /\ Own(d1, i) >= Own(db, i)
             /\ back.level = db[X].level => Own(d1, i) = Own(db, i)
  BY <1>2, <1>7, BackOwn
<1>8. /\ back.level = db[X].level =>
           Own(d1, X) >= Own(db, X) /\ (P = db[X].pid => Own(d1, X) = Own(db, X))
      /\ back.kind # "shortcut" => Own(d1, X) = back.level
  BY BackOwnItself
<1> HIDE DEF d1
<1>9. Objects(d2) = Objects(d1) /\ Sound(d2)
  BY <1>3, <1>4, FrameSound DEF Frame
<1>10. ASSUME NEW i \in Objects(d1), d1[i].kind \in {"root", "bin", "deleted"}
       PROVE  d2[i].level = d1[i].level
  <2>1. i \notin S
    BY <1>1, <1>2, <1>3, <1>5, <1>10, SpanKinds DEF d1
  <2>2. d1[i].target = None /\ d2[i].target = None
    BY <1>3, <1>4, <1>10 DEF Sound, Frame, SameItem
  <2>3. ~Rises(d2, d1, None)
    BY SpecialIds DEF Rises, Objects
  <2>4. d1[i].level \in Int /\ d2[i].level \in Int
    BY <1>2, <1>9, KindOf
  <2> QED BY <1>9, <2>1, <2>2, <2>3, <2>4 DEF Hidden, d1
<1>11. Whole(d2)
  BY <1>3, <1>4, <1>10, FrameWhole
<1>12. Spans(d2, {X}, S)
  BY <1>4, SpansFrame DEF d1
<1>13. ASSUME NEW i \in Objects(d2)
       PROVE  Own(d1, i) = Own(d2, i) + (IF i = X THEN 1 ELSE 0)
  BY <1>1, <1>2, <1>9, <1>12, HiddenOwn DEF d1
<1>14. ASSUME NEW i \in Objects(d2) PROVE Own(d2, i) \in Int
  <2>1. \A k \in Objects(d2) : d2[k].level \in Int
    BY KindOf
  <2> QED BY <2>1 DEF Own, Hides, LevelOf
<1>15. ASSUME NEW i PROVE Entries(d2, i) = Entries(db, i)
  <2>1. Entries(d2, i) = Entries(d1, i)
    BY <1>4, FrameEntries
  <2>2. \A d \in Objects(db) : d1[d].kind = db[d].kind /\ d1[d].ref = db[d].ref
    BY <1>2, <1>5
  <2> QED BY <1>2, <2>1, <2>2 DEF Entries
<1>16. ASSUME NEW i \in Objects(d2)
       PROVE  Weighs(d2, i, Cardinality(Entries(d2, i) \ {E}))
  <2> DEFINE n == Cardinality(Entries(db, i))
  <2>1. n \in Nat
    BY EntriesFinite
  <2>2. Own(db, i) >= n /\ (Exact => Own(db, i) = n)
    <3>1. Entries(db, i) \ {} = Entries(db, i)
      OBVIOUS
    <3> QED BY <1>2, <1>9, <3>1 DEF Weighed, Weighs
  <2>3. CASE i # X
    <3>1. Entries(d2, i) \ {E} = Entries(db, i)
      BY <1>15, <2>3 DEF Entries
    <3> HIDE DEF n
    <3>2. Own(d2, i) >= n /\ (Exact => Own(d2, i) = n)
      <4>1. i \in Objects(d1) /\ Own(d1, i) = Own(d2, i) + 0
        BY <1>9, <1>13, <2>3
      <4>2. /\ Own(d1, i) >= Own(db, i)
            /\ back.level = db[X].level => Own(d1, i) = Own(db, i)
        BY <4>1, <1>7, <2>3
      <4>3. Own(d1, i) \in Int /\ Own(db, i) \in Int /\ Own(d2, i) \in Int
        BY <4>1, <1>6, <1>14
      <4> QED BY <4>1, <4>2, <4>3, <2>1, <2>2
    <3> QED BY <3>1, <3>2 DEF Weighs, n
  <2>4. CASE i = X
    <3>1. E \in Entries(db, X)
      BY DEF Entries
    <3>2. Cardinality(Entries(d2, i) \ {E}) = n - 1
      BY <1>15, <2>4, <3>1, EntriesFinite, FS_RemoveElement
    <3>3. CASE back.level = db[X].level
      <4> HIDE DEF n
      <4>1. Own(d2, i) >= n - 1 /\ (Exact => Own(d2, i) = n - 1)
        BY <1>6, <1>8, <1>9, <1>13, <1>14, <2>1, <2>2, <2>4, <3>3
      <4> QED BY <3>2, <4>1 DEF Weighs
    <3>4. CASE ~Exact /\ back.level = 1 /\ back.kind # "shortcut"
      <4>1. Entries(db, X) = {E}
        BY <3>1, <3>4 DEF Single, Entries
      <4>2. n - 1 = 0
        <5>1. Cardinality({E}) = 1
          BY FS_Singleton
        <5>2. n = 1
          BY <2>4, <4>1, <5>1
        <5> QED BY <5>2
      <4> HIDE DEF n
      <4>3. Own(d2, i) >= n - 1
        BY <1>8, <1>9, <1>13, <1>14, <2>1, <2>4, <3>4, <4>2
      <4> QED BY <3>2, <3>4, <4>3 DEF Weighs
    <3> QED BY <3>3, <3>4
  <2> QED BY <2>3, <2>4
<1>17. Weighed(d2, {E})
  BY <1>16 DEF Weighed
<1> QED BY <1>4, <1>11, <1>17 DEF d1

\* Changing the level or the folder of an object in memory.
LEMMA PidChanged ==
  ASSUME NEW r \in Records, NEW p \in Ids
  PROVE  LET n == [r EXCEPT !.pid = p]
         IN /\ n \in Records
            /\ n.pid = p
            /\ n.id = r.id /\ n.kind = r.kind /\ n.level = r.level
            /\ n.name = r.name /\ n.ni = r.ni /\ n.nc = r.nc
            /\ n.shortcuts = r.shortcuts /\ n.target = r.target /\ n.ref = r.ref
BY DEF Records

\* The object as it is brought back.
Unstacked(old, parentId) ==
  IF parentId # None /\ old.kind # "shortcut" THEN [old EXCEPT !.level = 1]
                                              ELSE old
Back(old, parentId, P) == [Unstacked(old, parentId) EXCEPT !.pid = P]

\* What an object is brought back as.
LEMMA BackIsRecord ==
  ASSUME NEW old \in Records, NEW parentId, NEW P \in Ids
  PROVE  LET back == Back(old, parentId, P)
         IN /\ back \in Records /\ back.pid = P
            /\ back.id = old.id /\ back.kind = old.kind /\ back.name = old.name
            /\ back.shortcuts = old.shortcuts /\ back.target = old.target
            /\ back.ref = old.ref
            /\ back.level = IF parentId # None /\ old.kind # "shortcut"
                            THEN 1 ELSE old.level
<1> DEFINE one == Unstacked(old, parentId)
           back == Back(old, parentId, P)
<1>1. 1 \in Int
  OBVIOUS
<1>2. /\ one \in Records
      /\ one.id = old.id /\ one.kind = old.kind /\ one.name = old.name
      /\ one.shortcuts = old.shortcuts /\ one.target = old.target
      /\ one.ref = old.ref
      /\ one.level = IF parentId # None /\ old.kind # "shortcut"
                     THEN 1 ELSE old.level
  <2>1. CASE parentId # None /\ old.kind # "shortcut"
    <3>1. one = [old EXCEPT !.level = 1]
      BY <2>1 DEF Unstacked
    <3> HIDE DEF one
    <3> QED BY <1>1, <2>1, <3>1, LevelChanged
  <2>2. CASE ~(parentId # None /\ old.kind # "shortcut")
    BY <2>2 DEF Unstacked
  <2> QED BY <2>1, <2>2
<1> HIDE DEF one
<1>3. back = [one EXCEPT !.pid = P]
  BY DEF Back, one
<1> HIDE DEF back
<1>4. /\ back \in Records /\ back.pid = P
      /\ back.id = one.id /\ back.kind = one.kind /\ back.name = one.name
      /\ back.shortcuts = one.shortcuts /\ back.target = one.target
      /\ back.ref = one.ref /\ back.level = one.level
  BY <1>2, <1>3, PidChanged
<1> QED BY <1>2, <1>4 DEF back

\* The steps of restore_to that did not raise an exception.
RestoreSteps(s, self, parentId, P, a, b, r) ==
  LET X == self.ref
      back == Back(s.db[X], parentId, P)
  IN /\ X \in Objects(s.db) /\ P \in Objects(s.db)
     /\ P = IF parentId = None THEN s.db[X].pid ELSE parentId
     /\ ~IsDeleted(s.db[P]) /\ AcceptsBack(s, s.db[P], s.db[X])
     /\ a = IF parentId \notin {None, s.db[X].pid} THEN Erase(s, s.db[X]) ELSE s
     /\ b = UndeleteWithin[CallDepth][<<a, back, TRUE>>]
     /\ r = DeleteItem(b, self)
     /\ a.ok /\ b.ok /\ r.ok

\* A call of DeletedItem.restore_to that raises no exception.
LEMMA RestoreToSteps ==
  ASSUME NEW s, Ready(s), s.ok, NEW self, NEW parentId,
         RestoreTo(s, self, parentId).ok
  PROVE  \E P, a, b : RestoreSteps(s, self, parentId, P, a, b, RestoreTo(s, self, parentId))
<1> DEFINE X == self.ref
           r == RestoreTo(s, self, parentId)
           P == IF parentId = None THEN s.db[X].pid ELSE parentId
           a == IF parentId \notin {None, s.db[X].pid} THEN Erase(s, s.db[X]) ELSE s
           b == PutBack(a, Unstacked(s.db[X], parentId), s.db[P])
<1>1. ~Raise(s).ok
  BY RaiseIsTransaction DEF Ready
<1>2. Has(s, X)
  BY <1>1 DEF RestoreTo, With
<1>3. Has(s, P)
  BY <1>1, <1>2 DEF RestoreTo, With
<1>4. ~(IsDeleted(s.db[P]) \/ ~AcceptsBack(s, s.db[P], s.db[X]))
  BY <1>1, <1>2, <1>3 DEF RestoreTo, With
<1>5. r = IF a.ok THEN IF b.ok THEN DeleteItem(b, self) ELSE b ELSE a
  <2>1. r = Then(Then(a, LAMBDA c : PutBack(c, Unstacked(s.db[X], parentId), s.db[P])),
                 LAMBDA c : DeleteItem(c, self))
    BY <1>2, <1>3, <1>4 DEF RestoreTo, With, Unstacked
  <2> QED BY <2>1, Zenon DEF Then
<1>6. X \in Objects(s.db) /\ P \in Objects(s.db)
  BY <1>2, <1>3 DEF Has
<1>7. s.db[P].id = P
  BY <1>6 DEF Ready, Sound
<1>8. b = UndeleteWithin[CallDepth][<<a, Back(s.db[X], parentId, P), TRUE>>]
  BY <1>7 DEF PutBack, Undelete, Back
<1> HIDE DEF a, b, P, r
<1>9. a.ok /\ b.ok /\ r = DeleteItem(b, self)
  BY <1>5 DEF r
<1>10. RestoreSteps(s, self, parentId, P, a, b, r)
  BY <1>4, <1>6, <1>8, <1>9 DEF RestoreSteps, a, P, r
<1> QED BY <1>10 DEF r

\* An object with an entry in the bin is hidden.
LEMMA EntryHides ==
  ASSUME NEW db, Whole(db), Weighed(db, {}), NEW E \in Objects(db),
         db[E].kind = "deleted", db[E].ref \in Objects(db)
  PROVE  db[db[E].ref].level >= 1
<1> DEFINE X == db[E].ref
           n == Cardinality(Entries(db, X))
<1>1. db \in Stores /\ Sound(db)
  BY DEF Whole, Sound
<1>2. n \in Nat /\ n # 0
  <2>1. E \in Entries(db, X)
    BY DEF Entries
  <2> QED BY <2>1, EntriesFinite
<1>3. Own(db, X) >= n
  <2>1. Entries(db, X) \ {} = Entries(db, X)
    OBVIOUS
  <2> QED BY <2>1 DEF Weighed, Weighs
<1>4. Hides(db, db[X].target) \in {0, 1}
  BY DEF Hides
<1>5. LevelOf(db, db[X].pid) \in Int /\ LevelOf(db, db[X].pid) >= 0
  <2>1. CASE db[X].pid \in Objects(db)
    <3>1. db[db[X].pid].level \in Int /\ db[db[X].pid].level >= 0
      BY <1>1, <2>1, KindOf, LevelsNatural
    <3> QED BY <2>1, <3>1 DEF LevelOf
  <2>2. CASE db[X].pid \notin Objects(db)
    BY <2>2 DEF LevelOf
  <2> QED BY <2>1, <2>2
<1>6. db[X].level \in Int
  BY <1>1, KindOf
<1>7. Own(db, X) = db[X].level - Hides(db, db[X].target) - LevelOf(db, db[X].pid)
  BY DEF Own
<1> HIDE DEF n
<1> QED BY <1>2, <1>3, <1>4, <1>5, <1>6, <1>7

\* Taking an object out of its folder, before it is put into another.
LEMMA TakenOut ==
  ASSUME NEW s, Ready(s), s.ok, NEW X \in Objects(s.db), NEW back \in Records,
         back.id = X, Erase(s, s.db[X]).ok
  PROVE  LET a == Erase(s, s.db[X])
         IN /\ a \in Transactions /\ a.used = s.used /\ Sound(a.db)
            /\ Objects(a.db) = Objects(s.db) \ {X}
            /\ Written(a.db, X, back) = Written(s.db, X, back)
<1> DEFINE a == Erase(s, s.db[X])
<1>1. s \in Transactions /\ Sound(s.db) /\ s.db \in Stores /\ s.db[X].id = X
  BY DEF Ready, Sound
<1>2. s.db[X] \in Records
  BY <1>1, StoredIsRecord
<1>3. a \in Transactions /\ EraseDone(s, s.db[X], a)
  BY <1>1, <1>2, EraseEffect
<1> HIDE DEF a
<1>4. a.used = s.used /\ a.db = [s.db EXCEPT ![X] = Nothing]
  BY <1>1, <1>3 DEF EraseDone
<1>5. Sound(a.db) /\ Objects(a.db) = Objects(s.db) \ {X}
  BY <1>1, <1>4, EraseSound
<1>6. Written(a.db, X, back) = Written(s.db, X, back)
  BY <1>1, <1>4 DEF Written, Stores
<1> QED BY <1>3, <1>4, <1>5, <1>6 DEF a

\* The entries of the bin stand for the same objects.
LEMMA FrameReferences ==
  ASSUME NEW d0, NEW d1, NEW ids, Objects(d1) = Objects(d0),
         \A i \in Objects(d0) : d1[i].kind = d0[i].kind /\ d1[i].ref = d0[i].ref,
         Single(d0), References(d0, ids)
  PROVE  Single(d1) /\ References(d1, ids)
BY DEF Single, References

\* DeletedItem.restore_to: the level goes down as the entry goes.
LEMMA RestoreKeeps ==
  ASSUME NEW s, Valid(s), s.ok, NEW self, IsEntry(s, self), NEW parentId,
         Exact => parentId = None,
         RestoreTo(s, self, parentId).ok
  PROVE  Done(s, RestoreTo(s, self, parentId))
<1> DEFINE r == RestoreTo(s, self, parentId)
           db == s.db
           X == self.ref
           E == self.id
<1>1. /\ Ready(s) /\ Whole(db) /\ Weighed(db, {}) /\ Single(db)
      /\ References(db, s.used) /\ Sound(db) /\ db \in Stores
      /\ s \in Transactions
  BY DEF Valid, Whole, Sound, Ready
<1>2. PICK P, a, b : RestoreSteps(s, self, parentId, P, a, b, r)
  BY <1>1, RestoreToSteps
<1> HIDE DEF r
<1> DEFINE old == db[X]
           back == Back(old, parentId, P)
           d1 == Written(db, X, back)
<1>3. /\ X \in Objects(db) /\ P \in Objects(db)
      /\ P = IF parentId = None THEN old.pid ELSE parentId
      /\ ~IsDeleted(db[P]) /\ AcceptsBack(s, db[P], old)
      /\ a = IF parentId \notin {None, old.pid} THEN Erase(s, old) ELSE s
      /\ b = UndeleteWithin[CallDepth][<<a, back, TRUE>>]
      /\ r = DeleteItem(b, self)
      /\ a.ok /\ b.ok /\ r.ok
  BY <1>2 DEF RestoreSteps
<1>4. old \in Records /\ old.id = X /\ P \in Ids
  BY <1>1, <1>3, KindOf DEF Sound, Objects
<1>5. /\ back \in Records /\ back.pid = P
      /\ back.id = X /\ back.kind = old.kind /\ back.name = old.name
      /\ back.shortcuts = old.shortcuts /\ back.target = old.target
      /\ back.ref = old.ref
      /\ back.level = IF parentId # None /\ old.kind # "shortcut"
                      THEN 1 ELSE old.level
  BY <1>4, BackIsRecord
<1> HIDE DEF back, d1
<1>6. /\ a \in Transactions /\ a.used = s.used /\ Sound(a.db)
      /\ Objects(a.db) \subseteq Objects(db)
      /\ Written(a.db, X, back) = d1
      /\ X \in Objects(a.db) => SameItem(a.db[X], back)
  <2>1. CASE parentId \notin {None, old.pid}
    <3>1. a = Erase(s, old)
      BY <1>3, <2>1
    <3>2. /\ a \in Transactions /\ a.used = s.used /\ Sound(a.db)
          /\ Objects(a.db) = Objects(db) \ {X}
          /\ Written(a.db, X, back) = d1
      <4>1. Erase(s, db[X]).ok
        BY <1>3, <3>1
      <4>2. LET q == Erase(s, db[X])
            IN /\ q \in Transactions /\ q.used = s.used /\ Sound(q.db)
               /\ Objects(q.db) = Objects(db) \ {X}
               /\ Written(q.db, X, back) = Written(db, X, back)
        <5>1. Ready(s) /\ s.ok /\ X \in Objects(s.db) /\ back \in Records /\ back.id = X
          BY <1>1, <1>3, <1>5
        <5> HIDE DEF X
        <5> QED BY <4>1, <5>1, TakenOut
      <4> QED BY <3>1, <4>2 DEF d1
    <3> QED BY <3>2
  <2>2. CASE parentId \in {None, old.pid}
    <3>1. a = s /\ P = old.pid
      BY <1>3, <2>2
    <3>2. SameItem(old, back)
      BY <1>4, <1>5, <3>1 DEF SameItem
    <3> QED BY <1>1, <3>1, <3>2 DEF d1
  <2> QED BY <2>1, <2>2
<1>7. /\ CallDepth \in Nat /\ TRUE \in BOOLEAN
      /\ Shows(UndeleteWithin[CallDepth]) /\ AddsOnly(UndeleteWithin[CallDepth])
  BY ItemOperationsAssumption, UndeleteShows, UndeleteAddsOnly
<1>8. E \in Objects(b.db)
  <2>1. r = IF Has(b, E) THEN Delete(b, b.db[E], TRUE) ELSE Raise(b)
    BY <1>3 DEF DeleteItem, With
  <2>2. b \in Transactions
    BY <1>3, <1>5, <1>6, <1>7, UndeleteUnfolds
  <2>3. ~Raise(b).ok
    BY <2>2, RaiseIsTransaction
  <2> QED BY <1>3, <2>1, <2>3 DEF Has
<1>9. E \in Objects(db) /\ db[E].kind = "deleted" /\ db[E].ref = X
  <2>1. Keyed(a.db)
    BY <1>6 DEF Sound, Keyed
  <2>2. Objects(b.db) \subseteq Objects(a.db) \cup {X}
    BY <1>3, <1>5, <1>6, <1>7, <2>1 DEF AddsOnly
  <2>3. E \in Objects(db)
    BY <1>3, <1>6, <1>8, <2>2
  <2> QED BY <2>3 DEF IsEntry
<1>10. old.kind \in Movables /\ old.level \in Int /\ old.level >= 1
  <2>1. old.kind \in Movables
    BY <1>1, <1>3, <1>9 DEF References
  <2> QED BY <1>1, <1>3, <1>9, <2>1, EntryHides, KindOf
<1>11. PutInFolder(db, X, P, back)
  <2>1. db[P].kind \in {"root", "folder"}
    <3>1. old.target # None \/ old.kind # "shortcut"
      <4>1. Shape(db, X)
        BY <1>1, <1>3 DEF Whole
      <4>2. None \notin Objects(db)
        BY SpecialIds DEF Objects
      <4> QED BY <4>1, <4>2 DEF Shape
    <3>2. DOMAIN Containment = {"root", "folder"}
      BY ItemOperationsAssumption
    <3> QED BY <1>3, <3>1, <3>2 DEF AcceptsBack, Accepts
  <2>2. db[P].level = 0
    BY <1>3 DEF IsDeleted
  <2>3. back.level >= 1 /\ back.level <= old.level
    BY <1>5, <1>10
  <2>4. P # X
    BY <1>10, <2>2
  <2> QED BY <1>3, <1>5, <1>10, <2>1, <2>2, <2>3, <2>4 DEF PutInFolder,
             InOtherFolder
<1>12. Sound(d1) /\ Objects(d1) = Objects(db) /\ d1[X] = back
       /\ \A i : i # X => d1[i] = db[i]
  <2>1. Sound(d1)
    <3>1. Whole(d1)
      <4> HIDE DEF X, back
      <4> QED BY <1>1, <1>11, BackWhole DEF d1
    <3> QED BY <3>1 DEF Whole
  <2>2. back \in Records /\ back.id = X
    BY <1>5
  <2>3. Objects(d1) = Objects(db) /\ d1[X] = back
        /\ \A i : i # X => d1[i] = db[i]
    <3> HIDE DEF X, back
    <3> QED BY <1>1, <1>3, <2>2, RewriteStored DEF d1
  <2> QED BY <2>1, <2>3
<1>13. ReadyFor(a, back)
  <2>1. Objects(a.db) \subseteq a.used /\ X \in a.used
    BY <1>1, <1>3, <1>6 DEF Ready
  <2> QED BY <1>5, <1>6, <1>12, <2>1 DEF ReadyFor, Ready
<1>14. ShownOver(a, back, b)
  BY <1>3, <1>5, <1>6, <1>7, <1>13 DEF Shows
<1>15. /\ b \in Transactions /\ b.used = s.used
       /\ \E S : Spans(d1, {X}, S) /\ Hidden(b.db, d1, S)
  BY <1>5, <1>6, <1>14 DEF ShownOver
<1>16. PICK S : Spans(d1, {X}, S) /\ Hidden(b.db, d1, S)
  BY <1>15
<1>17. b.db \in Stores
  BY <1>15 DEF Transactions, Stores
<1>18. Exact => P = old.pid /\ back.level = old.level
  BY <1>3, <1>5
<1>19. back.level = old.level \/ (~Exact /\ back.level = 1 /\ back.kind # "shortcut")
  BY <1>5
<1>20. Whole(b.db) /\ Frame(d1, b.db) /\ Weighed(b.db, {E})
  BY <1>1, <1>9, <1>11, <1>16, <1>17, <1>18, <1>19, ShownWeighed DEF d1
<1>21. Objects(b.db) = Objects(db)
       /\ \A i \in Objects(db) : b.db[i].kind = db[i].kind /\ b.db[i].ref = db[i].ref
  BY <1>5, <1>12, <1>20 DEF Frame, SameItem
<1>22. Single(b.db) /\ References(b.db, b.used)
  BY <1>1, <1>15, <1>21, FrameReferences
<1>23. Ready(b)
  BY <1>1, <1>15, <1>20, <1>21 DEF Ready, Whole
<1>24. RemovedOver(b, r, {E})
  BY <1>3, <1>23, DeleteItemCall
<1>25. PICK D : Removed(b.db, r.db, D, {E})
  BY <1>24 DEF RemovedOver
<1>26. r \in Transactions /\ r.used = b.used
  BY <1>24 DEF RemovedOver
<1>27. E # Root /\ E # Bin
  BY <1>1, <1>9 DEF Whole, Shape
<1>28. \A i \in Objects(r.db) : Weighs(b.db, i, Cardinality(Entries(b.db, i) \ {E}))
  BY <1>20, <1>25 DEF Weighed, Removed, Cut
<1>29. Root \notin {E} /\ Bin \notin {E}
  BY <1>27
<1>30. Done(b, r)
  BY <1>20, <1>22, <1>23, <1>25, <1>26, <1>28, <1>29, RemovedKeeps
<1>31. Keeps(s, r)
  BY <1>15, <1>21, <1>30 DEF Done, Keeps
<1> QED BY <1>30, <1>31 DEF Done, r

-----------------------------------------------------------------------------
(* What an object leads to.                                                *)

ChainOf(next, up) ==
  up = [i \in DOMAIN next |->
          {i} \cup (IF next[i] \in DOMAIN next THEN up[next[i]] ELSE {})]

\* Whatever holds of an object and of all that follows one of which it holds.
Closed(next, C) ==
  C \subseteq DOMAIN next
  /\ \A k \in C : next[k] \in DOMAIN next => next[k] \in C

\* The objects that follow one are itself and those that follow the next.
LEMMA ChainUnfolds ==
  ASSUME NEW next
  PROVE  \A i \in DOMAIN next :
           Chain(next)[i] = {i} \cup (IF next[i] \in DOMAIN next
                                      THEN Chain(next)[next[i]] ELSE {})
<1> DEFINE Dom == DOMAIN next
           Reach(i) == {j \in Dom : \A C \in SUBSET Dom :
                                      Closed(next, C) /\ i \in C => j \in C}
           f == [i \in Dom |-> Reach(i)]
<1>1. ASSUME NEW i \in Dom
      PROVE  Reach(i) = {i} \cup (IF next[i] \in Dom THEN Reach(next[i]) ELSE {})
  <2>1. i \in Reach(i)
    OBVIOUS
  <2>2. CASE next[i] \notin Dom
    <3>1. Closed(next, {i}) /\ {i} \in SUBSET Dom
      BY <2>2 DEF Closed
    <3> QED BY <2>1, <2>2, <3>1
  <2>3. CASE next[i] \in Dom
    <3>1. Reach(next[i]) \subseteq Reach(i)
      BY <2>3 DEF Closed
    <3> DEFINE C == {i} \cup Reach(next[i])
    <3>2. C \in SUBSET Dom /\ i \in C
      OBVIOUS
    <3>3. next[i] \in Reach(next[i])
      BY <2>3
    <3>4. ASSUME NEW k \in Reach(next[i]), next[k] \in Dom
          PROVE  next[k] \in Reach(next[i])
      BY <2>3, <3>4 DEF Closed
    <3> HIDE DEF Reach
    <3>5. Closed(next, C)
      BY <3>2, <3>3, <3>4 DEF Closed
    <3>6. Reach(i) \subseteq C
      <4> HIDE DEF C
      <4> QED BY <3>2, <3>5 DEF Reach
    <3> QED BY <2>1, <2>3, <3>1, <3>6
  <2> QED BY <2>2, <2>3
<1>2. ChainOf(next, f)
  <2> HIDE DEF Reach
  <2>1. ASSUME NEW i \in Dom
        PROVE  f[i] = {i} \cup (IF next[i] \in Dom THEN f[next[i]] ELSE {})
    BY <1>1
  <2> QED BY <2>1 DEF ChainOf
<1> HIDE DEF f
<1>3. Chain(next) = CHOOSE up : ChainOf(next, up)
  BY DEF Chain, ChainOf
<1>4. ChainOf(next, Chain(next))
  BY <1>2, <1>3
<1> QED BY <1>4 DEF ChainOf

\* The line of an object is itself and the line of its folder.
LEMMA LineUnfolds ==
  ASSUME NEW db, NEW i \in Objects(db)
  PROVE  Line(db)[i] = {i} \cup (IF db[i].pid \in Objects(db)
                                 THEN Line(db)[db[i].pid] ELSE {})
<1> DEFINE next == [k \in Objects(db) |-> db[k].pid]
<1>1. DOMAIN next = Objects(db) /\ next[i] = db[i].pid
  OBVIOUS
<1>2. Line(db) = Chain(next)
  BY DEF Line
<1> HIDE DEF next
<1> QED BY <1>1, <1>2, ChainUnfolds

\* A shortcut cannot point to an entry of the bin.
LEMMA DeletedIsNoTarget ==
  ASSUME NEW s, Valid(s), NEW container, NEW item, item.kind = "shortcut",
         item.target \in Objects(s.db), Accepts(s, container, item)
  PROVE  s.db[item.target].kind # "deleted"
<1> SUFFICES ASSUME s.db[item.target].kind = "deleted" PROVE FALSE
  OBVIOUS
<1> DEFINE t == item.target
           next == [i \in Objects(s.db) |-> s.db[i].target]
           kinds == {s.db[i].kind : i \in Chain(next)[t]} \ {"shortcut"}
<1>1. s.db[t].target = None /\ None \notin Objects(s.db)
  BY SpecialIds DEF Valid, Whole, Sound, Objects
<1>2. DOMAIN next = Objects(s.db) /\ next[t] = None
  BY <1>1
<1>3. Chain(next)[t] = {t}
  <2> HIDE DEF next
  <2> QED BY <1>1, <1>2, ChainUnfolds
<1>4. kinds = {"deleted"}
  BY <1>3
<1>5. TargetKind(s, item) = CHOOSE kind \in kinds : TRUE
  BY <1>4 DEF TargetKind, Has
<1>6. TargetKind(s, item) = "deleted"
  <2> HIDE DEF kinds
  <2> QED BY <1>4, <1>5
<1>7. /\ container.kind \in DOMAIN Containment
      /\ "deleted" \in Containment[container.kind]
  BY <1>6 DEF Accepts
<1> QED BY <1>7, ItemOperationsAssumption

-----------------------------------------------------------------------------
(* Counting the children and renaming.                                     *)

\* Counting children leaves what every object weighs.
LEMMA SameLevelsOwn ==
  ASSUME NEW d0, NEW d1, SameLevels(d0, d1), NEW i \in Objects(d0)
  PROVE  Own(d1, i) = Own(d0, i)
BY DEF SameLevels, Frame, SameItem, Own, Hides, LevelOf

\* And a whole, weighed store.
LEMMA SameLevelsValid ==
  ASSUME NEW d0, Whole(d0), Weighed(d0, {}), NEW d1 \in Stores, SameLevels(d0, d1)
  PROVE  Whole(d1) /\ Weighed(d1, {})
<1>1. Frame(d0, d1) /\ Objects(d1) = Objects(d0)
  BY DEF SameLevels, Frame
<1>2. Whole(d1)
  BY <1>1, FrameWhole DEF SameLevels
<1>3. ASSUME NEW i \in Objects(d1)
      PROVE  Weighs(d1, i, Cardinality(Entries(d1, i) \ {}))
  <2>1. Entries(d1, i) = Entries(d0, i) /\ Own(d1, i) = Own(d0, i)
    BY <1>1, FrameEntries, SameLevelsOwn
  <2>2. Weighs(d0, i, Cardinality(Entries(d0, i) \ {}))
    BY <1>1 DEF Weighed
  <2> QED BY <2>1, <2>2 DEF Weighs
<1> QED BY <1>2, <1>3 DEF Weighed

\* So a transaction that does no more is valid.
LEMMA SameLevelsKeeps ==
  ASSUME NEW s, Valid(s), NEW r \in Transactions, r.used = s.used,
         SameLevels(s.db, r.db)
  PROVE  Done(s, r)
<1>1. r.db \in Stores /\ Frame(s.db, r.db)
  BY DEF Transactions, Stores, SameLevels
<1>2. Whole(r.db) /\ Weighed(r.db, {})
  BY <1>1, SameLevelsValid DEF Valid
<1>3. Objects(r.db) = Objects(s.db)
      /\ \A i \in Objects(s.db) : r.db[i].kind = s.db[i].kind /\ r.db[i].ref = s.db[i].ref
  BY <1>1 DEF Frame, SameItem
<1>4. Single(r.db) /\ References(r.db, r.used)
  BY <1>3, FrameReferences DEF Valid
<1>5. Ready(r)
  BY <1>2, <1>3 DEF Valid, Ready, Whole
<1>6. Keeps(s, r)
  BY <1>3 DEF Keeps
<1> QED BY <1>2, <1>4, <1>5, <1>6 DEF Done, Valid

\* Writing an object back, with the same contents but for name and counters.
LEMMA RewriteKeeps ==
  ASSUME NEW db, Sound(db), NEW item \in Records, item.id \in Objects(db),
         SameItem(db[item.id], item), db[item.id].level = item.level
  PROVE  SameLevels(db, Written(db, item.id, item))
<1>1. db \in Stores
  BY DEF Sound
<1>2. LET d1 == Written(db, item.id, item)
      IN /\ Objects(d1) = Objects(db) /\ d1[item.id] = item
         /\ \A i : i # item.id => d1[i] = db[i]
  BY <1>1, RewriteStored
<1> QED BY <1>2 DEF SameLevels, Frame, SameItem

\* One that writes an object so is one of them.
LEMMA PutSame ==
  ASSUME NEW s, Ready(s), NEW item \in Records, item.id \in Objects(s.db),
         SameItem(s.db[item.id], item), s.db[item.id].level = item.level,
         Put(s, item).ok
  PROVE  LET r == Put(s, item)
         IN /\ r \in Transactions /\ r.used = s.used
            /\ r.db = Written(s.db, item.id, item)
            /\ SameLevels(s.db, r.db) /\ Ready(r)
<1> DEFINE r == Put(s, item)
<1>1. s \in Transactions /\ Sound(s.db) /\ item.id \in s.used
  BY DEF Ready
<1>2. r \in Transactions /\ PutDone(s, item, r)
  BY <1>1, PutEffect
<1> HIDE DEF r
<1>3. r.used = s.used /\ r.db = Written(s.db, item.id, item)
  BY <1>1, <1>2 DEF PutDone, Written
<1>4. SameLevels(s.db, r.db)
  BY <1>1, <1>3, RewriteKeeps
<1>5. Ready(r)
  BY <1>2, <1>3, <1>4, MovedReady DEF SameLevels
<1> QED BY <1>2, <1>3, <1>4, <1>5 DEF r

-----------------------------------------------------------------------------
(* Creating an object.                                                     *)

\* A new object in a visible folder, a shortcut with its visible target.
NewObject(s, item) ==
  LET j == item.id
      db == s.db
  IN /\ item \in Records /\ j \in Oids /\ j \notin s.used
     /\ item.kind \in Movables /\ item.level = 0 /\ item.shortcuts = {}
     /\ item.pid \in Objects(db) /\ db[item.pid].level = 0
     /\ db[item.pid].kind \in {"root", "folder"}
     /\ \/ item.target = None /\ item.kind # "shortcut"
        \/ /\ item.kind = "shortcut" /\ item.target \in Objects(db)
           /\ db[item.target].level = 0 /\ db[item.target].kind # "deleted"

\* The store with it, and the target's list.
LinkedTo(db, item, d1) ==
  /\ d1 \in Stores /\ Objects(d1) = Objects(db)
  /\ \A i \in Objects(db) :
       /\ d1[i].id = db[i].id /\ d1[i].kind = db[i].kind
       /\ d1[i].pid = db[i].pid /\ d1[i].level = db[i].level
       /\ d1[i].target = db[i].target /\ d1[i].ref = db[i].ref
       /\ d1[i].shortcuts =
            db[i].shortcuts \cup (IF i = item.target THEN {item.id} ELSE {})

\* The store with a new object is whole.
LEMMA NewObjectWhole ==
  ASSUME NEW s, Valid(s), NEW item, NewObject(s, item), NEW d0,
         LinkedTo(s.db, item, d0)
  PROVE  Whole(Written(d0, item.id, item))
<1> DEFINE db == s.db
           j  == item.id
           d1 == Written(d0, j, item)
<1>1. Whole(db) /\ Sound(db) /\ db \in Stores /\ j \notin Objects(db)
  BY DEF Valid, Whole, Sound, Ready, NewObject
<1>2. d0 \in Stores /\ Objects(d0) = Objects(db)
  BY DEF LinkedTo
<1>3. item \in Records /\ j \in Oids /\ item.shortcuts = {}
  BY DEF NewObject
<1>4. /\ d1 \in Stores /\ d1[j] = item /\ Objects(d1) = Objects(db) \cup {j}
      /\ \A i : i # j => d1[i] = d0[i]
  BY <1>2, <1>3, PutStored
<1>5. \A i \in Objects(db) : db[i].pid # j /\ db[i].target # j /\ j \notin db[i].shortcuts
  BY <1>1, <1>3, NothingHangsFromNew
<1>6. j # None /\ None \notin Objects(db) /\ j # Root /\ j # Bin
  BY <1>3, SpecialIds DEF Objects, Ids
<1>7. Sound(d0)
  <2>1. \A i \in Objects(d0) :
          /\ d0[i].id = i
          /\ d0[i].pid \in Objects(d0) => IsCollection(d0[d0[i].pid])
          /\ d0[i].target # None => d0[i].kind = "shortcut"
          /\ i \notin Oids => d0[i].pid = None /\ d0[i].target = None
    BY <1>1, <1>2 DEF LinkedTo, Sound, IsCollection
  <2>2. \A i, k \in Objects(d0) : k \in d0[i].shortcuts <=> d0[k].target = i
    BY <1>1, <1>2 DEF LinkedTo, Sound
  <2>3. ASSUME NEW S \in SUBSET Objects(d0), S # {}
        PROVE  (\E i \in S : d0[i].pid \notin S) /\ (\E i \in S : d0[i].target \notin S)
    BY <1>1, <1>2, <2>3 DEF LinkedTo, Sound
  <2> QED BY <1>2, <2>1, <2>2, <2>3 DEF Sound
<1>8. Sound(d1)
  <2>1. /\ item.pid \in Objects(d0) /\ IsCollection(d0[item.pid])
        /\ item.target # None => item.kind = "shortcut"
        /\ item.target # j
    BY <1>1, <1>2, <1>6 DEF NewObject, LinkedTo, IsCollection
  <2>2. \A i \in Objects(d0) : /\ d0[i].pid # j /\ d0[i].target # j
                               /\ j \in d0[i].shortcuts <=> item.target = i
    BY <1>2, <1>5 DEF LinkedTo
  <2>3. j \notin Objects(d0)
    BY <1>1, <1>2
  <2> HIDE DEF d1
  <2>4. Sound(Written(d0, j, item))
    BY <1>3, <1>7, <2>1, <2>2, <2>3, AddSound
  <2> QED BY <2>4 DEF d1
<1>9. ASSUME NEW i \in Objects(d1) PROVE Shape(d1, i)
  <2>1. CASE i = j
    <3>1. d1[item.pid].kind \in {"root", "folder"}
      BY <1>1, <1>4 DEF NewObject, LinkedTo
    <3> QED BY <1>4, <1>6, <2>1, <3>1 DEF NewObject, Shape, Movables
  <2>2. CASE i # j
    <3>1. i \in Objects(db) /\ Shape(db, i) /\ d1[i] = d0[i]
      BY <1>1, <1>4, <2>2 DEF Whole
    <3>2. db[i].pid \in Objects(db) => d1[db[i].pid].kind = db[db[i].pid].kind
      BY <1>1, <1>4 DEF LinkedTo
    <3>3. /\ d0[i].kind = db[i].kind /\ d0[i].pid = db[i].pid
          /\ d0[i].level = db[i].level /\ d0[i].target = db[i].target
          /\ d0[i].ref = db[i].ref
      BY <3>1 DEF LinkedTo
    <3>4. d0[i].shortcuts \subseteq Objects(d1)
      BY <1>4, <3>1 DEF LinkedTo, Shape
    <3>5. db[i].kind = "deleted" => d0[i].shortcuts = {}
      <4>1. i = item.target => db[i].kind # "deleted"
        BY <1>6, <3>1 DEF NewObject
      <4> QED BY <3>1, <4>1 DEF LinkedTo, Shape
    <3> HIDE DEF d1
    <3> QED BY <1>4, <3>1, <3>2, <3>3, <3>4, <3>5 DEF Shape
  <2> QED BY <2>1, <2>2
<1>10. Whole(d1)
  BY <1>1, <1>4, <1>8, <1>9 DEF Whole
<1> QED BY <1>10

\* And valid: nothing hides the new object, and it hides nothing.
LEMMA NewObjectKeeps ==
  ASSUME NEW s, Valid(s), NEW item, NewObject(s, item), NEW d0,
         LinkedTo(s.db, item, d0), NEW b \in Transactions,
         b.db = Written(d0, item.id, item), b.used = s.used \cup {item.id}
  PROVE  Done(s, b)
<1> DEFINE db == s.db
           j  == item.id
           d1 == b.db
<1>1. Whole(db) /\ Sound(db) /\ db \in Stores /\ j \notin Objects(db)
  BY DEF Valid, Whole, Sound, Ready, NewObject
<1>2. d0 \in Stores /\ Objects(d0) = Objects(db)
  BY DEF LinkedTo
<1>3. item \in Records /\ j \in Oids /\ j \notin s.used
  BY DEF NewObject
<1>4. /\ d1 \in Stores /\ d1[j] = item /\ Objects(d1) = Objects(db) \cup {j}
      /\ \A i : i # j => d1[i] = d0[i]
  BY <1>2, <1>3, PutStored
<1>5. Whole(d1)
  BY NewObjectWhole
<1>6. \A i \in Objects(db) : /\ d1[i].level = db[i].level /\ d1[i].pid = db[i].pid
                             /\ d1[i].target = db[i].target /\ d1[i].kind = db[i].kind
                             /\ d1[i].ref = db[i].ref
  BY <1>1, <1>4 DEF LinkedTo
<1>7. d1[j].kind # "deleted" /\ item.kind # "deleted"
  BY <1>4 DEF NewObject, Movables
<1>8. ASSUME NEW i \in Objects(d1)
      PROVE  Weighs(d1, i, Cardinality(Entries(d1, i) \ {}))
  <2>1. Entries(d1, i) \ {} = Entries(db, i)
    BY <1>4, <1>6, <1>7 DEF Entries
  <2>2. CASE i # j
    <3>1. i \in Objects(db) /\ Entries(db, i) \ {} = Entries(db, i)
      BY <1>4, <2>2
    <3>2. Weighs(db, i, Cardinality(Entries(db, i)))
      BY <3>1 DEF Valid, Weighed
    <3>3. Own(d1, i) = Own(db, i)
      BY <1>1, <1>3, <1>4, <1>6, <3>1, AddOwn
    <3> QED BY <2>1, <3>2, <3>3 DEF Weighs
  <2>3. CASE i = j
    <3>1. Entries(db, i) = {}
      BY <1>3, <2>3 DEF Entries, Valid, References
    <3>2. Cardinality(Entries(db, i)) = 0
      BY <3>1, FS_EmptySet
    <3>3. /\ item.level = 0 /\ LevelOf(d1, item.pid) = 0
      BY <1>4, <1>6 DEF NewObject, LevelOf
    <3>4. Hides(d1, item.target) = 0
      <4>1. CASE item.target = None
        BY <4>1, SpecialIds DEF Hides, Objects
      <4>2. CASE item.target \in Objects(db) /\ db[item.target].level = 0
        BY <1>6, <4>2 DEF Hides
      <4> QED BY <4>1, <4>2 DEF NewObject
    <3>5. Own(d1, i) = 0
      BY <1>4, <2>3, <3>3, <3>4 DEF Own
    <3> QED BY <2>1, <3>2, <3>5 DEF Weighs
  <2> QED BY <2>2, <2>3
<1>9. Weighed(d1, {})
  BY <1>8 DEF Weighed
<1>10. Single(d1)
  BY <1>4, <1>6, <1>7 DEF Single, Valid
<1>11. References(d1, b.used)
  <2> SUFFICES ASSUME NEW d \in Objects(d1), d1[d].kind = "deleted"
               PROVE  /\ d1[d].ref \in b.used
                      /\ d1[d].ref \in Objects(d1) => d1[d1[d].ref].kind \in Movables
    BY DEF References
  <2>1. d \in Objects(db) /\ db[d].kind = "deleted" /\ d1[d].ref = db[d].ref
    BY <1>4, <1>6, <1>7
  <2>2. db[d].ref \in s.used /\ db[d].ref # j
    BY <1>3, <2>1 DEF Valid, References
  <2> QED BY <1>4, <1>6, <2>1, <2>2 DEF Valid, References
<1>12. Ready(b)
  BY <1>4, <1>5 DEF Valid, Ready, Whole
<1>13. Keeps(s, b)
  BY <1>3, <1>4, <1>6 DEF Keeps
<1> QED BY <1>5, <1>9, <1>10, <1>11, <1>12, <1>13 DEF Done, Valid

\* Two valid stretches of a transaction are one.
LEMMA DoneComposes ==
  ASSUME NEW s, NEW a, NEW b, Done(s, a), Done(a, b)
  PROVE  Done(s, b)
BY DEF Done, Keeps

-----------------------------------------------------------------------------

\* No shortcut to point to an object.
LEMMA PointToNone ==
  ASSUME NEW s \in Transactions, NEW item, item.id \in Ids
  PROVE  PointTo(s, {}, item) = s
<1> DEFINE m == [c \in Transactions \X Records \X Ids |->
                   Put(c[1], [c[2] EXCEPT !.target = c[3]])]
<1>1. m \in Methods(Ids)
  <2>1. ASSUME NEW t \in Transactions, NEW r \in Records, NEW i \in Ids
        PROVE  Put(t, [r EXCEPT !.target = i]) \in Transactions
    <3>1. [r EXCEPT !.target = i] \in Records
      BY DEF Records
    <3> QED BY <3>1, PutEffect
  <2> QED BY <2>1 DEF Methods
<1>2. Existing(s, {}) = {}
  BY DEF Existing
<1>3. PointTo(s, {}, item) = InTurn(s, {}, m, item.id, FALSE)
  BY <1>2 DEF PointTo, ForEach
<1> HIDE DEF m
<1> QED BY <1>1, <1>3, InTurnOfNone

-----------------------------------------------------------------------------
\* A put that does not raise, seen from the store.
LEMMA PutWrites ==
  ASSUME NEW s \in Transactions, NEW item \in Records, Put(s, item).ok
  PROVE  LET r == Put(s, item)
         IN /\ r \in Transactions /\ s.ok
            /\ r.used = s.used \cup {item.id}
            /\ r.db = Written(s.db, item.id, item)
BY PutEffect DEF PutDone, Written

\* What create appends to the folder p.
Created(s, item, p) ==
  /\ item \in Records /\ item.id \in Oids /\ item.id \notin s.used
  /\ item.kind \in Movables /\ item.level = 0 /\ item.shortcuts = {}
  /\ item.pid = p /\ p \in Objects(s.db) /\ s.db[p].level = 0
  /\ item.target # p
  /\ \/ item.target = None /\ item.kind # "shortcut"
     \/ /\ item.kind = "shortcut" /\ item.target \in Objects(s.db)
        /\ s.db[item.target].level = 0

\* What is created is a new object, linked as it is.
LEMMA CreatedIsNew ==
  ASSUME NEW s, Valid(s), NEW item, NEW p, Created(s, item, p),
         Accepts(s, s.db[p], item)
  PROVE  NewObject(s, item) /\ TargetOf(s, item) = item.target
         /\ Linked(s, item) = item
<1>1. DOMAIN Containment = {"root", "folder"}
  BY ItemOperationsAssumption
<1>2. s.db[p].kind \in {"root", "folder"}
  BY <1>1 DEF Accepts
<1>3. item.kind = "shortcut" => s.db[item.target].kind # "deleted"
  <2>1. item.kind = "shortcut" => item.target \in Objects(s.db)
    BY DEF Created
  <2> QED BY <2>1, DeletedIsNoTarget
<1>4. NewObject(s, item)
  BY <1>2, <1>3 DEF Created, NewObject
<1>5. TargetOf(s, item) = item.target
  <2>1. None \notin Objects(s.db)
    BY SpecialIds DEF Objects
  <2> QED BY <1>3, <2>1 DEF Created, TargetOf, Has, HasShortcuts
<1>6. Existing(s, item.shortcuts) = item.shortcuts
  BY DEF Created, Existing
<1>7. Linked(s, item) = [item EXCEPT !.shortcuts = item.shortcuts, !.target = item.target]
  BY <1>5, <1>6 DEF Linked
<1>8. Linked(s, item) = item
  <2>1. item \in Records
    BY DEF Created
  <2> QED BY <1>7, <2>1 DEF Records
<1> QED BY <1>4, <1>5, <1>8

\* The steps of append_to: the list of the target, the object, its parent.
CreateSteps(s, item, parent, a, b, r) ==
  /\ Accepts(s, parent, item)
  /\ a = AddToTarget(s, item) /\ b = Put(a, Linked(s, item))
  /\ r = Put(b, Count(parent, item, 1))
  /\ a.ok /\ b.ok /\ r.ok

\* A call of append_to that raises no exception.
LEMMA AppendToSteps ==
  ASSUME NEW s \in Transactions, s.ok, NEW item, item.id \in Ids,
         item.shortcuts = {}, NEW parent, AppendTo(s, item, parent).ok
  PROVE  \E a, b : CreateSteps(s, item, parent, a, b, AppendTo(s, item, parent))
<1> DEFINE a == AddToTarget(s, item)
           b == Put(a, Linked(s, item))
           r == Put(b, Count(parent, item, 1))
<1>1. Accepts(s, parent, item)
  BY RaiseIsTransaction DEF AppendTo
<1>2. CreateLinks(s, item) = a
  <2>1. PointTo(s, item.shortcuts, item) = s
    BY PointToNone
  <2> QED BY <2>1 DEF CreateLinks, Then
<1>3. AppendTo(s, item, parent) =
        IF (IF a.ok THEN b ELSE a).ok THEN Put(IF a.ok THEN b ELSE a, Count(parent, item, 1))
        ELSE IF a.ok THEN b ELSE a
  BY <1>1, <1>2, Zenon DEF AppendTo, Then
<1> HIDE DEF a, b
<1>4. a.ok /\ b.ok /\ AppendTo(s, item, parent) = Put(b, Count(parent, item, 1))
  BY <1>3
<1>5. Put(b, Count(parent, item, 1)).ok
  BY <1>4
<1>6. CreateSteps(s, item, parent, a, b, AppendTo(s, item, parent))
  BY <1>1, <1>4, <1>5 DEF CreateSteps, a, b
<1> QED BY <1>6

\* The list of the target gets the shortcut.
LEMMA AddedToTarget ==
  ASSUME NEW s, Valid(s), NEW item, NewObject(s, item),
         TargetOf(s, item) = item.target, AddToTarget(s, item).ok
  PROVE  LET a == AddToTarget(s, item)
         IN /\ a \in Transactions /\ a.used = s.used /\ LinkedTo(s.db, item, a.db)
            /\ \A i : i # item.target => a.db[i] = s.db[i]
<1> DEFINE a == AddToTarget(s, item)
           t == item.target
           j == item.id
<1>1. /\ s \in Transactions /\ s.db \in Stores /\ Objects(s.db) \subseteq s.used
      /\ Sound(s.db)
  BY DEF Valid, Ready, Sound
<1>2. CASE t = None
  <2>1. a = s
    BY <1>2 DEF AddToTarget
  <2>2. \A i \in Objects(s.db) : i # t
    BY <1>2, SpecialIds DEF Objects
  <2>3. LinkedTo(s.db, item, s.db)
    BY <1>1, <2>2 DEF LinkedTo
  <2> QED BY <1>1, <2>1, <2>3
<1>3. CASE t # None
  <2>1. t \in Objects(s.db) /\ j \in Ids
    BY <1>3 DEF NewObject, Ids
  <2> DEFINE old == s.db[t]
             q == [old EXCEPT !.shortcuts = old.shortcuts \cup {j}]
  <2>2. old \in Records /\ old.id = t /\ t \in s.used
    BY <1>1, <2>1, StoredIsRecord DEF Sound
  <2>3. old.shortcuts \cup {j} \in SUBSET Ids
    BY <2>1, <2>2 DEF Records
  <2>4. /\ q \in Records /\ q.shortcuts = old.shortcuts \cup {j}
        /\ q.id = t /\ q.kind = old.kind /\ q.pid = old.pid
        /\ q.level = old.level /\ q.target = old.target /\ q.ref = old.ref
    BY <2>2, <2>3, ShortcutsChanged
  <2>5. a = Put(s, q)
    BY <1>3 DEF AddToTarget
  <2> HIDE DEF q, a
  <2>6. a \in Transactions /\ a.used = s.used \cup {t} /\ a.db = Written(s.db, t, q)
    BY <1>1, <2>4, <2>5, PutWrites DEF a
  <2>7. /\ a.db \in Stores /\ Objects(a.db) = Objects(s.db) /\ a.db[t] = q
        /\ \A i : i # t => a.db[i] = s.db[i]
    BY <1>1, <2>1, <2>4, <2>6, RewriteStored
  <2>8. \A i \in Objects(s.db) :
          /\ a.db[i].id = s.db[i].id /\ a.db[i].kind = s.db[i].kind
          /\ a.db[i].pid = s.db[i].pid /\ a.db[i].level = s.db[i].level
          /\ a.db[i].target = s.db[i].target /\ a.db[i].ref = s.db[i].ref
    BY <2>2, <2>4, <2>7
  <2>9. ASSUME NEW i \in Objects(s.db)
        PROVE  a.db[i].shortcuts =
                 s.db[i].shortcuts \cup (IF i = item.target THEN {item.id} ELSE {})
    <3>1. CASE i = t
      BY <2>4, <2>7, <3>1
    <3>2. CASE i # t
      BY <2>7, <3>2
    <3> QED BY <3>1, <3>2
  <2>10. LinkedTo(s.db, item, a.db)
    BY <2>7, <2>8, <2>9 DEF LinkedTo
  <2> QED BY <2>2, <2>6, <2>7, <2>10 DEF a
<1> QED BY <1>2, <1>3

\* GenericItem.append_to of a new object.
LEMMA CreateKeeps ==
  ASSUME NEW s, Valid(s), s.ok, NEW item, NEW p, Created(s, item, p),
         AppendTo(s, item, s.db[p]).ok
  PROVE  Done(s, AppendTo(s, item, s.db[p]))
<1> DEFINE r == AppendTo(s, item, s.db[p])
           parent == s.db[p]
           j == item.id
           q == Count(parent, item, 1)
<1>1. /\ s \in Transactions /\ s.db \in Stores /\ Sound(s.db)
      /\ Objects(s.db) \subseteq s.used
  BY DEF Valid, Ready, Sound
<1>2. /\ item \in Records /\ j \in Ids /\ j \notin s.used /\ item.shortcuts = {}
      /\ p \in Objects(s.db) /\ item.target # p
  BY DEF Created, Ids
<1>3. PICK a, b : CreateSteps(s, item, parent, a, b, r)
  BY <1>1, <1>2, AppendToSteps
<1> HIDE DEF r
<1>4. Accepts(s, parent, item)
  BY <1>3 DEF CreateSteps
<1>5. NewObject(s, item) /\ TargetOf(s, item) = item.target /\ Linked(s, item) = item
  BY <1>4, CreatedIsNew
<1>6. /\ a = AddToTarget(s, item) /\ b = Put(a, item) /\ r = Put(b, q)
      /\ a.ok /\ b.ok /\ r.ok
  BY <1>3, <1>5 DEF CreateSteps
<1>7. /\ a \in Transactions /\ a.used = s.used /\ LinkedTo(s.db, item, a.db)
      /\ \A i : i # item.target => a.db[i] = s.db[i]
  BY <1>5, <1>6, AddedToTarget
<1>8. /\ b \in Transactions /\ b.used = s.used \cup {j}
      /\ b.db = Written(a.db, j, item)
  BY <1>2, <1>6, <1>7, PutWrites
<1>9. Done(s, b)
  BY <1>5, <1>7, <1>8, NewObjectKeeps
<1>10. p # j /\ b.db[p] = parent /\ p \in Objects(b.db)
  <2>1. p # j
    BY <1>1, <1>2
  <2>2. a.db[p] = parent /\ a.db \in Stores
    BY <1>2, <1>7 DEF LinkedTo
  <2>3. /\ Objects(b.db) = Objects(a.db) \cup {j}
        /\ \A i : i # j => b.db[i] = a.db[i]
    BY <1>2, <1>8, <2>2, PutStored
  <2> QED BY <1>2, <1>7, <2>1, <2>2, <2>3 DEF LinkedTo
<1>11. parent \in Records /\ parent.id = p
  BY <1>1, <1>2, KindOf DEF Sound
<1>12. 1 \in Int
  OBVIOUS
<1>13. /\ q \in Records /\ q.id = p /\ SameItem(parent, q) /\ q.level = parent.level
  BY <1>11, <1>12, Counted DEF SameItem
<1> HIDE DEF q
<1>14. Valid(b) /\ Ready(b)
  BY <1>9 DEF Done, Valid
<1>15. /\ r \in Transactions /\ r.used = b.used /\ SameLevels(b.db, r.db)
  BY <1>6, <1>10, <1>13, <1>14, PutSame
<1>16. Done(b, r)
  BY <1>14, <1>15, SameLevelsKeeps
<1> QED BY <1>9, <1>16, DoneComposes DEF r

-----------------------------------------------------------------------------
\* Putting back an object as it is stored, but for its name and counters.
Rewrites(s, item) ==
  /\ item \in Records /\ item.id \in Objects(s.db)
  /\ SameItem(s.db[item.id], item) /\ s.db[item.id].level = item.level

\* So writing it leaves a valid store.
LEMMA PutKeeps ==
  ASSUME NEW s, Valid(s), NEW item, Rewrites(s, item), Put(s, item).ok
  PROVE  LET r == Put(s, item)
         IN Done(s, r) /\ r.db = Written(s.db, item.id, item) /\ r.used = s.used
<1> DEFINE r == Put(s, item)
<1>1. Ready(s)
  BY DEF Valid
<1>2. /\ r \in Transactions /\ r.used = s.used
      /\ r.db = Written(s.db, item.id, item) /\ SameLevels(s.db, r.db)
  BY <1>1, PutSame DEF Rewrites
<1> HIDE DEF r
<1>3. Done(s, r)
  BY <1>2, SameLevelsKeeps
<1> QED BY <1>2, <1>3 DEF r

\* A renamed object.
LEMMA Renamed ==
  ASSUME NEW o \in Records, NEW name \in Names
  PROVE  LET q == [o EXCEPT !.name = name]
         IN /\ q \in Records /\ q.id = o.id /\ SameItem(o, q) /\ q.level = o.level
BY DEF Records, SameItem

\* An object is not in itself.
LEMMA NotInItself ==
  ASSUME NEW db, Sound(db), NEW i \in Objects(db)
  PROVE  db[i].pid # i
<1>1. {i} \in SUBSET Objects(db) /\ {i} # {}
  OBVIOUS
<1>2. \E k \in {i} : db[k].pid \notin {i}
  BY <1>1 DEF Sound
<1> QED BY <1>2

\* An update that changes neither end of a shortcut touches no other object.
LEMMA UpdateLinksNone ==
  ASSUME NEW s \in Transactions, NEW item, NEW old, item.id \in Ids,
         item.shortcuts = old.shortcuts, item.target = old.target, s.ok
  PROVE  UpdateLinks(s, item, old) = s
<1> DEFINE hidden  == {j \in old.shortcuts : ~Has(s, j) \/ IsDeleted(s.db[j])}
           current == item.shortcuts \cup hidden
<1>1. current \ old.shortcuts = {} /\ old.shortcuts \ current = {}
  OBVIOUS
<1>2. PointTo(s, {}, item) = s
  BY PointToNone
<1>3. PointTo(s, current \ old.shortcuts, item) = s
  BY <1>1, <1>2
<1> HIDE DEF current
<1>4. UpdateLinks(s, item, old) =
        IF old.shortcuts \ current # {} THEN Raise(s)
        ELSE Then(PointTo(s, current \ old.shortcuts, item),
               LAMBDA a :
                 IF item.target = old.target THEN a
                 ELSE Then(AddToTarget(a, item), LAMBDA b :
                             RemoveFromTarget(b, item, old.target)))
  BY Zenon DEF UpdateLinks, current
<1>5. UpdateLinks(s, item, old) = IF item.target = old.target THEN s
                 ELSE Then(AddToTarget(s, item), LAMBDA b :
                             RemoveFromTarget(b, item, old.target))
  <2>1. ~(old.shortcuts \ current # {})
    BY <1>1
  <2> QED BY <1>3, <1>4, <2>1, Zenon DEF Then
<1> QED BY <1>5

\* The steps of update: the object, and its parent as it was.
UpdateSteps(s, q, a, r) ==
  /\ a = Put(s, q) /\ a.ok /\ r.ok
  /\ r = IF Has(s, q.pid) THEN Put(a, s.db[q.pid]) ELSE a

\* A call of Item.update that raises no exception.
LEMMA UpdateOfCopy ==
  ASSUME NEW s \in Transactions, s.ok, NEW q \in Records,
         q.id \in Objects(s.db), q.shortcuts = s.db[q.id].shortcuts,
         q.target = s.db[q.id].target, Update(s, q).ok
  PROVE  \E a : UpdateSteps(s, q, a, Update(s, q))
<1> DEFINE old == s.db[q.id]
           q1(e) == [q EXCEPT !.shortcuts = q.shortcuts \cap (old.shortcuts \cup e),
                              !.target = IF q.target = old.target THEN q.target
                                         ELSE TargetOf(s, q)]
           r == Update(s, q)
           e0 == Existing(s, q.shortcuts)
           Last(a) == IF Has(s, q.pid) THEN Put(a, s.db[q.pid]) ELSE a
           bad == q.kind = "shortcut" /\ ~(Has(s, q.pid) /\
                                          Accepts(s, s.db[q.pid], q))
<1>1. q.id \in Ids
  BY DEF Records
<1>2. UpdateLinks(s, q, old) = s
  BY <1>1, UpdateLinksNone
<1>3. ~bad
  <2> SUFFICES ASSUME bad PROVE FALSE
    OBVIOUS
  <2>1. r = Raise(s)
    BY Zenon DEF Update
  <2> HIDE DEF r
  <2>2. ~r.ok
    BY <2>1, RaiseIsTransaction
  <2> QED BY <2>2 DEF r
<1>4. r = Then(Then(UpdateLinks(s, q, old), LAMBDA a : Put(a, q1(e0))),
               LAMBDA a : Last(a))
  BY <1>3, Zenon DEF Update, With, Has
<1>5. q1(e0) = q
  <2>1. q.shortcuts \cap (old.shortcuts \cup e0) = q.shortcuts
    BY DEF Existing
  <2>2. (IF q.target = old.target THEN q.target ELSE TargetOf(s, q)) = q.target
    OBVIOUS
  <2>3. q1(e0) = [q EXCEPT !.shortcuts = q.shortcuts, !.target = q.target]
    BY <2>1, <2>2
  <2>4. [q EXCEPT !.shortcuts = q.shortcuts, !.target = q.target] = q
    BY DEF Records
  <2> QED BY <2>3, <2>4
<1> HIDE DEF q1
<1>6. r = Then(Then(s, LAMBDA a : Put(a, q)), LAMBDA a : Last(a))
  BY <1>2, <1>4, <1>5
<1> DEFINE b == Put(s, q)
<1>7. r = IF b.ok THEN Last(b) ELSE b
  BY <1>6, Zenon DEF Then
<1> HIDE DEF r, b
<1>8. b.ok /\ r = Last(b)
  BY <1>7 DEF r
<1>9. UpdateSteps(s, q, b, r)
  BY <1>8 DEF UpdateSteps, b, r
<1> QED BY <1>9 DEF r

\* Item.update of an object that was renamed.
LEMMA RenameKeeps ==
  ASSUME NEW s, Valid(s), s.ok, NEW i \in Objects(s.db), NEW name \in Names,
         Update(s, [s.db[i] EXCEPT !.name = name]).ok
  PROVE  Done(s, Update(s, [s.db[i] EXCEPT !.name = name]))
<1> DEFINE q == [s.db[i] EXCEPT !.name = name]
           r == Update(s, q)
<1>1. s \in Transactions /\ Sound(s.db) /\ s.db \in Stores
  BY DEF Valid, Ready, Sound
<1>2. s.db[i] \in Records /\ s.db[i].id = i
  BY <1>1, KindOf DEF Sound
<1>3. q \in Records /\ q.id = i /\ SameItem(s.db[i], q) /\ q.level = s.db[i].level
  BY <1>2, Renamed
<1> HIDE DEF q
<1>4. PICK a : UpdateSteps(s, q, a, r)
  <2>1. /\ q.id \in Objects(s.db) /\ q.shortcuts = s.db[q.id].shortcuts
        /\ q.target = s.db[q.id].target
    BY <1>3 DEF SameItem
  <2> QED BY <1>1, <1>3, <2>1, UpdateOfCopy DEF q
<1> HIDE DEF r
<1>5. a = Put(s, q) /\ a.ok /\ r.ok
  BY <1>4 DEF UpdateSteps
<1>6. Rewrites(s, q)
  BY <1>3 DEF Rewrites
<1>7. Done(s, a) /\ a.db = Written(s.db, i, q)
  BY <1>3, <1>5, <1>6, PutKeeps
<1> DEFINE p == q.pid
<1>8. CASE p \notin Objects(s.db)
  <2>1. r = a
    BY <1>4, <1>8 DEF UpdateSteps, Has
  <2> QED BY <1>7, <2>1 DEF r, q
<1>9. CASE p \in Objects(s.db)
  <2>1. r = Put(a, s.db[p])
    BY <1>4, <1>9 DEF UpdateSteps, Has
  <2>2. p # i
    BY <1>1, <1>3, NotInItself DEF SameItem
  <2>3. a.db[p] = s.db[p] /\ Objects(a.db) = Objects(s.db)
    BY <1>1, <1>3, <1>7, <2>2, RewriteStored
  <2>4. s.db[p] \in Records /\ s.db[p].id = p
    BY <1>1, <1>9, KindOf DEF Sound
  <2>5. Rewrites(a, s.db[p])
    BY <1>9, <2>3, <2>4 DEF Rewrites, SameItem
  <2>6. Valid(a)
    BY <1>7 DEF Done
  <2>7. Done(a, r)
    BY <1>5, <2>1, <2>5, <2>6, PutKeeps
  <2> QED BY <1>7, <2>7, DoneComposes DEF r, q
<1> QED BY <1>8, <1>9

-----------------------------------------------------------------------------
(* Moving an object.                                                       *)

\* The folder of an object of the line is in the line.
Upward(db, L) == \A k \in L : db[k].pid \in Objects(db) => db[k].pid \in L

\* The line of an object ends where nothing is above.
LEMMA LineIsUpward ==
  ASSUME NEW db, Sound(db), NEW i \in Objects(db)
  PROVE  i \in Line(db)[i] /\ Upward(db, Line(db)[i])
<1> DEFINE N == {j \in Objects(db) : ~Upward(db, Line(db)[j])}
<1>1. ASSUME NEW j \in N PROVE db[j].pid \in N
  <2> DEFINE p == db[j].pid
  <2>1. j \in Objects(db) /\ ~Upward(db, Line(db)[j])
    OBVIOUS
  <2>2. Line(db)[j] = {j} \cup (IF p \in Objects(db) THEN Line(db)[p] ELSE {})
    BY <2>1, LineUnfolds
  <2>3. CASE p \notin Objects(db)
    BY <2>1, <2>2, <2>3 DEF Upward
  <2>4. CASE p \in Objects(db)
    <3>1. p \in Line(db)[p]
      BY <2>4, LineUnfolds
    <3>2. Line(db)[j] = {j} \cup Line(db)[p]
      BY <2>2, <2>4
    <3>3. ~Upward(db, Line(db)[p])
      <4> SUFFICES ASSUME Upward(db, Line(db)[p]) PROVE FALSE
        OBVIOUS
      <4>1. Upward(db, Line(db)[j])
        BY <3>1, <3>2 DEF Upward
      <4> QED BY <2>1, <4>1
    <3> QED BY <2>4, <3>3
  <2> QED BY <2>3, <2>4
<1>2. N \in SUBSET Objects(db)
  OBVIOUS
<1> HIDE DEF N
<1>3. N = {}
  BY <1>1, <1>2 DEF Sound
<1>4. i \in Line(db)[i]
  BY LineUnfolds
<1> QED BY <1>3, <1>4 DEF N

\* A visible object in the visible folder t, which is not in it.
MovedTo(s, X, t, moved) ==
  /\ InOtherFolder(s.db, X, t, moved)
  /\ s.db[X].level = 0 /\ s.db[t].level = 0 /\ moved.level = 0
  /\ IsCollection(s.db[X]) => X \notin Line(s.db)[t]

\* The tree stays a tree: the target is not below the object.
LEMMA MovedWhole ==
  ASSUME NEW s, Valid(s), NEW X, NEW t, NEW moved, MovedTo(s, X, t, moved)
  PROVE  Whole(Written(s.db, X, moved))
<1> DEFINE db == s.db
           d1 == Written(db, X, moved)
<1>1. /\ Whole(db) /\ Sound(db) /\ db \in Stores /\ X \in Objects(db)
      /\ t \in Objects(db) /\ t # X /\ moved \in Records /\ moved.id = X
      /\ moved.pid = t
  BY DEF Valid, Whole, Sound, MovedTo, InOtherFolder
<1>2. /\ Objects(d1) = Objects(db) /\ d1[X] = moved
      /\ \A i : i # X => d1[i] = db[i]
  BY <1>1, RewriteStored
<1> HIDE DEF d1
<1>3. ASSUME NEW S \in SUBSET Objects(db), S # {}
      PROVE  \E i \in S : d1[i].pid \notin S
  <2> SUFFICES ASSUME \A i \in S : d1[i].pid \in S PROVE FALSE
    OBVIOUS
  <2>1. X \in S
    BY <1>1, <1>2, <1>3 DEF Sound
  <2>2. t \in S
    BY <1>1, <1>2, <2>1
  <2>3. CASE IsCollection(db[X])
    <3> DEFINE T == S \cap Line(db)[t]
    <3>1. X \notin Line(db)[t]
      BY <2>3 DEF MovedTo
    <3>2. t \in Line(db)[t] /\ Upward(db, Line(db)[t])
      BY <1>1, LineIsUpward
    <3>3. ASSUME NEW k \in T PROVE db[k].pid \in T
      <4>1. k # X /\ k \in Line(db)[t] /\ k \in S
        BY <3>1, <3>3
      <4>2. db[k].pid \in S
        BY <1>2, <4>1
      <4> QED BY <3>2, <4>1, <4>2 DEF Upward
    <3>4. T \in SUBSET Objects(db) /\ T # {}
      BY <2>2, <3>2
    <3> HIDE DEF T
    <3> QED BY <1>1, <3>3, <3>4 DEF Sound
  <2>4. CASE ~IsCollection(db[X])
    <3> DEFINE T == S \ {X}
    <3>1. ASSUME NEW k \in T PROVE db[k].pid \in T
      <4>1. db[k].pid \in S
        BY <1>2
      <4>2. db[k].pid # X
        BY <1>1, <2>4, <4>1 DEF Sound
      <4> QED BY <4>1, <4>2
    <3>2. T \in SUBSET Objects(db) /\ T # {}
      BY <1>1, <2>2
    <3> HIDE DEF T
    <3> QED BY <1>1, <3>1, <3>2 DEF Sound
  <2> QED BY <2>3, <2>4
<1>4. InOtherFolder(db, X, t, moved)
  BY DEF MovedTo
<1> QED BY <1>1, <1>3, <1>4, OtherFolderWhole DEF d1

\* A visible object weighs nothing, in one visible folder or another.
LEMMA MovedOwn ==
  ASSUME NEW s, Valid(s), NEW X, NEW t, NEW moved, MovedTo(s, X, t, moved),
         NEW i \in Objects(s.db)
  PROVE  Own(Written(s.db, X, moved), i) = Own(s.db, i)
<1> DEFINE db == s.db
           d1 == Written(db, X, moved)
<1>1. /\ Whole(db) /\ Sound(db) /\ db \in Stores /\ X \in Objects(db)
      /\ Weighed(db, {})
      /\ t \in Objects(db) /\ t # X /\ moved \in Records /\ moved.id = X
      /\ moved.pid = t /\ moved.target = db[X].target
      /\ db[X].level = 0 /\ db[t].level = 0 /\ moved.level = 0
  BY DEF Valid, Whole, Sound, MovedTo, InOtherFolder
<1>2. /\ Objects(d1) = Objects(db) /\ d1[X] = moved
      /\ \A k : k # X => d1[k] = db[k]
  BY <1>1, RewriteStored
<1> HIDE DEF d1
<1>3. ASSUME NEW k PROVE Hides(d1, k) = Hides(db, k) /\ LevelOf(d1, k) = LevelOf(db, k)
  BY <1>1, <1>2 DEF Hides, LevelOf
<1>4. CASE i # X
  BY <1>2, <1>3, <1>4 DEF Own, d1
<1>5. CASE i = X
  <2> DEFINE H == Hides(db, db[X].target)
             L == LevelOf(db, db[X].pid)
             n == Cardinality(Entries(db, X))
  <2>1. H \in {0, 1}
    BY DEF Hides
  <2>2. L \in Int /\ L >= 0
    <3>1. CASE db[X].pid \in Objects(db)
      BY <1>1, <3>1, KindOf, LevelsNatural DEF LevelOf
    <3>2. CASE db[X].pid \notin Objects(db)
      BY <3>2 DEF LevelOf
    <3> QED BY <3>1, <3>2
  <2>3. n \in Nat
    BY EntriesFinite
  <2>4. Own(db, X) = 0 - H - L
    BY <1>1 DEF Own
  <2>5. Own(db, X) >= n
    <3>1. Entries(db, X) \ {} = Entries(db, X)
      OBVIOUS
    <3> QED BY <1>1, <3>1 DEF Weighed, Weighs
  <2>6. LevelOf(db, t) = 0
    BY <1>1 DEF LevelOf
  <2>7. Own(d1, X) = 0 - H - 0
    BY <1>1, <1>2, <1>3, <2>6 DEF Own
  <2> HIDE DEF H, L, n
  <2>8. H = 0 /\ L = 0
    BY <2>1, <2>2, <2>3, <2>4, <2>5
  <2> QED BY <1>5, <2>4, <2>7, <2>8 DEF d1
<1> QED BY <1>4, <1>5

\* So moving it leaves a valid store.
LEMMA MovedKeeps ==
  ASSUME NEW s, Valid(s), NEW X, NEW t, NEW moved, MovedTo(s, X, t, moved),
         NEW b \in Transactions, b.used = s.used,
         b.db = Written(s.db, X, moved)
  PROVE  Done(s, b)
<1>1. /\ s.db \in Stores /\ X \in Objects(s.db) /\ moved \in Records /\ moved.id = X
      /\ moved.kind = s.db[X].kind /\ moved.ref = s.db[X].ref
  BY DEF Valid, Whole, Sound, MovedTo, InOtherFolder
<1>2. /\ Objects(b.db) = Objects(s.db) /\ b.db[X] = moved
      /\ \A k : k # X => b.db[k] = s.db[k]
  BY <1>1, RewriteStored
<1>3. \A k \in Objects(s.db) : b.db[k].kind = s.db[k].kind /\ b.db[k].ref = s.db[k].ref
  BY <1>1, <1>2
<1>4. Whole(b.db)
  BY MovedWhole
<1>5. Weighed(b.db, {})
  <2> SUFFICES ASSUME NEW i \in Objects(b.db)
               PROVE  Weighs(b.db, i, Cardinality(Entries(b.db, i) \ {}))
    BY DEF Weighed
  <2>1. Entries(b.db, i) = Entries(s.db, i)
    BY <1>2, <1>3 DEF Entries
  <2>2. Own(b.db, i) = Own(s.db, i)
    BY <1>2, MovedOwn
  <2>3. Weighs(s.db, i, Cardinality(Entries(s.db, i) \ {}))
    BY <1>2 DEF Valid, Weighed
  <2> QED BY <2>1, <2>2, <2>3 DEF Weighs
<1>6. Single(b.db) /\ References(b.db, b.used)
  BY <1>2, <1>3, FrameReferences DEF Valid
<1>7. Ready(b)
  BY <1>2, <1>4 DEF Ready, Whole, Valid
<1>8. Keeps(s, b)
  BY <1>2, <1>3 DEF Keeps
<1> QED BY <1>4, <1>5, <1>6, <1>7, <1>8 DEF Done, Valid

\* The steps of move_to: out of the folder, into the other, both folders.
MoveSteps(s, self, t, a, b, c, r) ==
  /\ t \in Objects(s.db) /\ IsTarget(s, self, s.db[t])
  /\ a = Erase(s, self) /\ b = Put(a, [self EXCEPT !.pid = t])
  /\ c = Put(b, Count(s.db[t], self, 1))
  /\ r = IF Has(c, self.pid) THEN Put(c, c.db[self.pid]) ELSE Raise(c)
  /\ a.ok /\ b.ok /\ c.ok /\ r.ok

\* A call of Movable.move_to that raises no exception.
LEMMA MoveToSteps ==
  ASSUME NEW s \in Transactions, NEW self, NEW t, MoveTo(s, self, t).ok
  PROVE  \E a, b, c : MoveSteps(s, self, t, a, b, c, MoveTo(s, self, t))
<1> DEFINE a == Erase(s, self)
           b == Put(a, [self EXCEPT !.pid = t])
           c == Put(b, Count(s.db[t], self, 1))
           Last(x) == IF Has(x, self.pid) THEN Put(x, x.db[self.pid]) ELSE Raise(x)
           r == MoveTo(s, self, t)
<1>1. ~Raise(s).ok
  BY RaiseIsTransaction
<1>2. Has(s, t)
  BY <1>1, Zenon DEF MoveTo, With
<1>3. IsTarget(s, self, s.db[t])
  BY <1>1, <1>2, Zenon DEF MoveTo, With
<1>4. r = Then(Then(Then(a, LAMBDA x : Put(x, [self EXCEPT !.pid = t])),
                    LAMBDA x : Put(x, Count(s.db[t], self, 1))),
               LAMBDA x : Last(x))
  BY <1>2, <1>3, Zenon DEF MoveTo, With
<1>5. r = IF (IF (IF a.ok THEN b ELSE a).ok THEN Put(IF a.ok THEN b ELSE a, Count(s.db[t], self, 1))
              ELSE (IF a.ok THEN b ELSE a)).ok
          THEN Last(IF (IF a.ok THEN b ELSE a).ok THEN Put(IF a.ok THEN b ELSE a, Count(s.db[t], self, 1))
                    ELSE (IF a.ok THEN b ELSE a))
          ELSE (IF (IF a.ok THEN b ELSE a).ok THEN Put(IF a.ok THEN b ELSE a, Count(s.db[t], self, 1))
                ELSE (IF a.ok THEN b ELSE a))
  BY <1>4, Zenon DEF Then
<1> HIDE DEF r, Last, a
<1>6. a.ok
  BY <1>5 DEF r
<1>7. r = IF (IF b.ok THEN c ELSE b).ok THEN Last(IF b.ok THEN c ELSE b) ELSE (IF b.ok THEN c ELSE b)
  <2>1. (IF a.ok THEN b ELSE a) = b
    BY <1>6
  <2> HIDE DEF b
  <2> QED BY <1>5, <2>1
<1> HIDE DEF b
<1>8. b.ok
  BY <1>7 DEF r
<1> HIDE DEF c
<1>9. c.ok /\ r = Last(c) /\ r.ok
  BY <1>7, <1>8 DEF r
<1>10. MoveSteps(s, self, t, a, b, c, r)
  BY <1>2, <1>3, <1>6, <1>8, <1>9 DEF MoveSteps, a, b, c, Last, Has
<1> QED BY <1>10 DEF r

\* The target is a visible folder, not the object and not below it.
LEMMA TargetIsOther ==
  ASSUME NEW s, Valid(s), NEW X \in Objects(s.db), s.db[X].kind \in Movables,
         NEW t \in Objects(s.db), IsTarget(s, s.db[X], s.db[t])
  PROVE  /\ t # X /\ s.db[t].kind \in {"root", "folder"} /\ s.db[t].level = 0
         /\ IsCollection(s.db[X]) => X \notin Line(s.db)[t]
<1>1. /\ Sound(s.db) /\ s.db[t].id = t /\ s.db[X].id = X /\ X # Root
  BY DEF Valid, Whole, Sound, Shape, Movables
<1>2. ~IsDeleted(s.db[t]) /\ Accepts(s, s.db[t], s.db[X])
  BY DEF IsTarget
<1>3. s.db[t].kind \in {"root", "folder"}
  <2>1. DOMAIN Containment = {"root", "folder"}
    BY ItemOperationsAssumption
  <2> QED BY <1>2, <2>1 DEF Accepts
<1>4. IsCollection(s.db[X]) => X \notin Line(s.db)[t]
  <2>1. IsCollection(s.db[X]) => ~IsContainedIn(s, s.db[t], X)
    BY <1>1 DEF IsTarget
  <2> QED BY <1>1, <2>1 DEF IsContainedIn
<1>5. t # X
  <2>1. t \in Line(s.db)[t]
    BY <1>1, LineIsUpward
  <2> QED BY <1>3, <1>4, <2>1 DEF IsCollection
<1> QED BY <1>2, <1>3, <1>4, <1>5 DEF IsDeleted

\* Movable.move_to
LEMMA MoveKeeps ==
  ASSUME NEW s, Valid(s), s.ok, NEW X \in Objects(s.db),
         s.db[X].kind \in Movables, s.db[X].level = 0, NEW t,
         MoveTo(s, s.db[X], t).ok
  PROVE  Done(s, MoveTo(s, s.db[X], t))
<1> DEFINE self == s.db[X]
           r == MoveTo(s, self, t)
           moved == [self EXCEPT !.pid = t]
           q == Count(s.db[t], self, 1)
<1>1. /\ Ready(s) /\ s \in Transactions /\ Sound(s.db) /\ s.db \in Stores
      /\ Objects(s.db) \subseteq s.used
  BY DEF Valid, Ready, Sound
<1>2. PICK a, b, c : MoveSteps(s, self, t, a, b, c, r)
  BY <1>1, MoveToSteps
<1> HIDE DEF r
<1>3. /\ t \in Objects(s.db) /\ IsTarget(s, self, s.db[t])
      /\ a = Erase(s, self) /\ b = Put(a, moved)
      /\ c = Put(b, q)
      /\ r = IF Has(c, self.pid) THEN Put(c, c.db[self.pid]) ELSE Raise(c)
      /\ a.ok /\ b.ok /\ c.ok /\ r.ok
  BY <1>2 DEF MoveSteps
<1>4. /\ t # X /\ s.db[t].kind \in {"root", "folder"} /\ s.db[t].level = 0
      /\ IsCollection(self) => X \notin Line(s.db)[t]
  BY <1>3, TargetIsOther
<1>5. self \in Records /\ self.id = X /\ t \in Ids /\ X \in s.used
  BY <1>1, <1>3, KindOf DEF Sound, Objects
<1>6. /\ moved \in Records /\ moved.pid = t
      /\ moved.id = X /\ moved.kind = self.kind /\ moved.level = self.level
      /\ moved.shortcuts = self.shortcuts /\ moved.target = self.target
      /\ moved.ref = self.ref
  BY <1>5, PidChanged
<1> HIDE DEF moved
<1>7. /\ a \in Transactions /\ a.used = s.used
      /\ Written(a.db, X, moved) = Written(s.db, X, moved)
  BY <1>1, <1>3, <1>6, TakenOut
<1>8. b \in Transactions /\ b.used = s.used /\ b.db = Written(s.db, X, moved)
  <2>1. b \in Transactions /\ b.used = a.used \cup {X} /\ b.db = Written(a.db, X, moved)
    BY <1>3, <1>6, <1>7, PutWrites
  <2> QED BY <1>5, <1>7, <2>1
<1>9. MovedTo(s, X, t, moved)
  BY <1>3, <1>4, <1>6 DEF MovedTo, InOtherFolder
<1>10. Done(s, b)
  BY <1>8, <1>9, MovedKeeps
<1>11. Objects(b.db) = Objects(s.db) /\ b.db[t] = s.db[t]
  BY <1>1, <1>4, <1>6, <1>8, RewriteStored
<1>12. s.db[t] \in Records /\ s.db[t].id = t /\ 1 \in Int
  BY <1>1, <1>3, KindOf DEF Sound
<1>13. q \in Records /\ q.id = t /\ SameItem(s.db[t], q) /\ q.level = s.db[t].level
  BY <1>12, Counted DEF SameItem
<1> HIDE DEF q
<1>14. Rewrites(b, q)
  BY <1>3, <1>11, <1>13 DEF Rewrites
<1>15. Valid(b)
  BY <1>10 DEF Done
<1>16. Done(b, c)
  BY <1>3, <1>14, <1>15, PutKeeps
<1>17. Valid(c) /\ c \in Transactions /\ Sound(c.db) /\ c.db \in Stores
  BY <1>16 DEF Done, Valid, Ready, Sound
<1>18. Has(c, self.pid) /\ r = Put(c, c.db[self.pid])
  BY <1>3, <1>17, RaiseIsTransaction
<1>19. Rewrites(c, c.db[self.pid])
  <2> DEFINE p == self.pid
  <2>1. p \in Objects(c.db) /\ c.db[p] \in Records /\ c.db[p].id = p
    BY <1>17, <1>18, KindOf DEF Has, Sound
  <2> QED BY <2>1 DEF Rewrites, SameItem
<1>20. Done(c, r)
  <2>1. Put(c, c.db[self.pid]).ok
    BY <1>3, <1>18
  <2>2. Done(c, Put(c, c.db[self.pid]))
    BY <1>17, <1>19, <2>1, PutKeeps
  <2> QED BY <2>2, <1>18
<1>21. Done(s, c)
  BY <1>10, <1>16, DoneComposes
<1> QED BY <1>20, <1>21, DoneComposes DEF r

-----------------------------------------------------------------------------
(* Emptying the bin.                                                       *)

\* Purging never leaves the set of transactions, even when it raises.
LEMMA PurgeIsTransaction ==
  ASSUME NEW t \in Transactions, NEW self
  PROVE  PurgeItem(t, self) \in Transactions
<1> DEFINE m == DeleteWithin[CallDepth]
<1>1. m \in Methods(BOOLEAN) /\ TRUE \in BOOLEAN
  BY ItemOperationsAssumption, DeleteWithinUnfolds
<1> HIDE DEF m
<1>2. ASSUME NEW s \in Transactions, NEW i \in Objects(s.db)
      PROVE  Delete(s, s.db[i], TRUE) \in Transactions
  <2>1. s.db[i] \in Records
    BY StoredIsRecord
  <2>2. Delete(s, s.db[i], TRUE) = m[<<s, s.db[i], TRUE>>]
    BY DEF Delete, m
  <2> QED BY <1>1, <2>1, <2>2 DEF Methods
<1> DEFINE a == DeleteItem(t, self)
<1>3. a \in Transactions
  <2>1. CASE self.id \in Objects(t.db)
    BY <1>2, <2>1 DEF DeleteItem, With, Has
  <2>2. CASE self.id \notin Objects(t.db)
    BY <2>2, RaiseIsTransaction DEF DeleteItem, With, Has
  <2> QED BY <2>1, <2>2
<1>4. PurgeItem(t, self) = IF a.ok THEN IF Has(a, self.ref) THEN Delete(a, a.db[self.ref], TRUE)
                                        ELSE a
                           ELSE a
  BY Zenon DEF PurgeItem, Then
<1> HIDE DEF a
<1> QED BY <1>2, <1>3, <1>4 DEF Has

\* What is in the bin are its entries.
LEMMA InBinIsEntry ==
  ASSUME NEW db, Whole(db), NEW d \in Objects(db), db[d].pid = Bin
  PROVE  db[d].kind = "deleted"
<1>1. Shape(db, d) /\ Shape(db, Bin) /\ Bin \in Objects(db) /\ db \in Stores
  BY DEF Whole, Sound
<1>2. db[d].kind \in {"root", "bin", "deleted", "folder", "document", "shortcut"}
  BY <1>1, KindOf
<1>3. db[Bin].kind = "bin"
  BY <1>1 DEF Shape
<1>4. d # Root /\ d # Bin
  BY SpecialIds DEF Whole, Sound
<1> QED BY <1>1, <1>2, <1>3, <1>4 DEF Shape, Movables

\* RecycleBin.empty
LEMMA EmptyKeeps ==
  ASSUME NEW s, Valid(s), s.ok, EmptyBin(s).ok
  PROVE  Done(s, EmptyBin(s))
<1> DEFINE m == [c \in Transactions \X Records \X Ids |->
                   PurgeItem(c[1], s.db[c[2].id])]
           ids == Children(s, Bin)
           J == {p \in (SUBSET Ids) \X Transactions :
                   Done(s, p[2]) /\ p[2].used = s.used}
           r == InTurn(s, ids, m, Bin, FALSE)
<1>1. EmptyBin(s) = r
  BY Zenon DEF EmptyBin, ForEach
<1>2. m \in Methods(Ids)
  <2>1. ASSUME NEW c \in Transactions \X Records \X Ids
        PROVE  PurgeItem(c[1], s.db[c[2].id]) \in Transactions
    BY PurgeIsTransaction
  <2> QED BY <2>1 DEF Methods
<1>3. s \in Transactions /\ Objects(s.db) \subseteq s.used /\ Whole(s.db)
  BY DEF Valid, Ready
<1>4. <<{}, s>> \in J
  <2>1. Done(s, s)
    BY DEF Done, Keeps
  <2>2. {} \in SUBSET Ids
    OBVIOUS
  <2> QED BY <1>3, <2>1, <2>2
<1>5. \A t \in Transactions, x \in Records :
        m[<<t, x, Bin>>] = PurgeItem(t, s.db[x.id])
  BY SpecialIds
<1>6. ASSUME NEW done \in SUBSET (ids \cap Oids), NEW t \in Transactions,
             NEW id \in (ids \cap Oids) \ done, <<done, t>> \in J, t.ok,
             id \in Objects(t.db), m[<<t, t.db[id], Bin>>].ok
      PROVE  <<done \cup {id}, m[<<t, t.db[id], Bin>>]>> \in J
  <2> DEFINE self == s.db[id]
             q == PurgeItem(t, self)
  <2>1. Done(s, t) /\ t.used = s.used /\ Valid(t) /\ Sound(t.db)
    BY <1>6 DEF Done, Valid, Whole
  <2>2. id \in Objects(s.db) /\ self.pid = Bin
    BY DEF Children
  <2>3. self.kind = "deleted" /\ self.id = id
    BY <1>3, <2>2, InBinIsEntry DEF Whole, Sound
  <2>4. IsEntry(t, self)
    BY <1>3, <1>6, <2>1, <2>2, <2>3 DEF Done, Keeps, IsEntry
  <2>5. t.db[id] \in Records /\ t.db[id].id = id
    BY <1>6, <2>1, StoredIsRecord DEF Sound
  <2>6. m[<<t, t.db[id], Bin>>] = q
    BY <1>5, <2>5
  <2> HIDE DEF m
  <2>7. q.ok
    BY <1>6, <2>6
  <2>8. Done(t, q) /\ q.used = t.used
    BY <1>6, <2>1, <2>4, <2>7, PurgeKeeps
  <2>9. q \in Transactions
    BY PurgeIsTransaction
  <2> HIDE DEF q
  <2>10. Done(s, q) /\ q.used = s.used
    BY <2>1, <2>8, DoneComposes
  <2>11. done \cup {id} \in SUBSET Ids
    BY DEF Ids
  <2> QED BY <2>6, <2>9, <2>10, <2>11
<1> HIDE DEF m, J
<1>7. KeptInTurn(J, ids, m, Bin, FALSE)
  BY <1>6 DEF KeptInTurn
<1>8. Bin \in Ids /\ FALSE \in BOOLEAN
  BY SpecialIds
<1> HIDE DEF ids
<1>9. r \in Transactions /\ (r.ok => <<ids \cap Oids, r>> \in J)
  BY <1>2, <1>3, <1>4, <1>7, <1>8, InTurnRule
<1>10. r.ok
  BY <1>1
<1> HIDE DEF r
<1>11. Done(s, r)
  BY <1>9, <1>10 DEF J
<1> QED BY <1>1, <1>11

-----------------------------------------------------------------------------
(* The invariant and its steps.                                            *)

\* The methods that the theorems are about.  Left out are those for which the
\* runs find the properties violated, or states do that the runs do not reach:
\* a copy takes over the shortcuts of what it copies, a shortcut created in
\* the folder that it points to is lost from that folder's list, and an
\* overtaken request that writes to the folder it read brings it back.  An
\* overtaken recycle after a restore elsewhere adds a second entry.
Calm ==
  /\ ~SelfLinks /\ "copy" \notin Operations
  /\ Overtaken \subseteq {"recycle", "delete", "purge", "restore", "restoreTo",
                          "empty"}
  /\ ~Exact => "recycle" \notin Overtaken

\* The copy that a slow request holds is of an object that has kept its kind,
\* or is gone for good.
FitsStore(item) ==
  /\ item.id \in used
  /\ item.id \in Objects(store) =>
       store[item.id].kind = item.kind /\ store[item.id].ref = item.ref

\* The inductive invariant.
StoreInv ==
  /\ Valid(Now)
  /\ held \in [Slow -> Records \cup {Nothing}]
  /\ \A r \in Slow : held[r] # Nothing => FitsStore(held[r])

\* The store that initialize_db makes: the root folder and the bin.
LEMMA EmptyStoreTypes ==
  /\ EmptyStore \in Stores /\ Objects(EmptyStore) = {Root, Bin}
  /\ EmptyStore[Root] = Object(Root, "root", None, Root)
  /\ EmptyStore[Bin] = Object(Bin, "bin", None, Bin)
<1> DEFINE R == Object(Root, "root", None, Root)
           B == Object(Bin, "bin", None, Bin)
<1>1. R \in Records /\ B \in Records
  <2>1. 0 \in Int
    OBVIOUS
  <2> QED BY <2>1, SpecialIds DEF Object, Records, Kinds
<1>2. R # Nothing /\ B # Nothing
  BY <1>1, NothingIsNoRecord
<1> HIDE DEF R, B
<1>3. EmptyStore = [i \in Ids |-> IF i = Root THEN R ELSE IF i = Bin THEN B ELSE Nothing]
  BY SpecialIds DEF EmptyStore, R, B
<1>4. EmptyStore \in Stores /\ Objects(EmptyStore) = {Root, Bin}
  BY <1>1, <1>2, <1>3, SpecialIds DEF Stores, Objects
<1> QED BY <1>3, <1>4, SpecialIds DEF R, B

\* It is whole.
LEMMA EmptyStoreWhole == Whole(EmptyStore)
<1> DEFINE db == EmptyStore
<1>1. /\ db \in Stores /\ Objects(db) = {Root, Bin}
      /\ db[Root] = Object(Root, "root", None, Root)
      /\ db[Bin] = Object(Bin, "bin", None, Bin)
  BY EmptyStoreTypes
<1> HIDE DEF db
<1>2. \A i \in Objects(db) :
        /\ db[i].id = i /\ db[i].pid = None /\ db[i].target = None
        /\ db[i].shortcuts = {} /\ db[i].level = 0
        /\ db[i].kind = IF i = Root THEN "root" ELSE "bin"
  BY <1>1, SpecialIds DEF Object
<1>3. None \notin Objects(db)
  BY <1>1, SpecialIds
<1>4. Sound(db)
  <2>1. \A S \in SUBSET Objects(db) :
          S # {} => (\E i \in S : db[i].pid \notin S) /\ (\E i \in S : db[i].target \notin S)
    BY <1>2, <1>3
  <2>2. \A i, k \in Objects(db) : k \in db[i].shortcuts <=> db[k].target = i
    BY <1>2, <1>3
  <2> QED BY <1>1, <1>2, <1>3, <2>1, <2>2 DEF Sound
<1>5. ASSUME NEW i \in Objects(db) PROVE Shape(db, i)
  BY <1>1, <1>2, <1>5, SpecialIds DEF Shape, Movables
<1>6. Whole(db)
  BY <1>1, <1>4, <1>5 DEF Whole
<1> QED BY <1>6 DEF db

\* And valid.
LEMMA EmptyStoreValid ==
  ASSUME Init
  PROVE  StoreInv
<1> DEFINE db == EmptyStore
<1>1. store = db /\ used = {Root, Bin} /\ held = [r \in Slow |-> Nothing]
  BY DEF Init
<1>2. Whole(db) /\ db \in Stores /\ Objects(db) = {Root, Bin}
  BY EmptyStoreWhole, EmptyStoreTypes
<1>3. \A i \in Objects(db) :
        /\ db[i].pid = None /\ db[i].target = None /\ db[i].level = 0
        /\ db[i].kind # "deleted"
  BY EmptyStoreTypes, SpecialIds DEF Object
<1> HIDE DEF db
<1>4. \A i : Entries(db, i) = {}
  BY <1>3 DEF Entries
<1>5. Weighed(db, {})
  <2> SUFFICES ASSUME NEW i \in Objects(db)
               PROVE  Weighs(db, i, Cardinality(Entries(db, i) \ {}))
    BY DEF Weighed
  <2>1. Cardinality(Entries(db, i) \ {}) = 0
    BY <1>4, FS_EmptySet
  <2>2. Own(db, i) = 0
    BY <1>3, SpecialIds DEF Own, Hides, LevelOf, Objects
  <2> QED BY <2>1, <2>2 DEF Weighs
<1>6. Single(db) /\ References(db, used)
  BY <1>3 DEF Single, References
<1>7. Now \in Transactions /\ Now.db = db /\ Now.used = {Root, Bin}
  BY <1>1, <1>2, SpecialIds DEF Now, Transactions, Stores
<1>8. Valid(Now)
  BY <1>1, <1>2, <1>5, <1>6, <1>7 DEF Valid, Ready, Whole
<1> QED BY <1>1, <1>8 DEF StoreInv

-----------------------------------------------------------------------------
\* A call is answered: the request is no longer held, if it was.
Answered(result) ==
  /\ Commit(result) /\ Done(Now, result)
  /\ \/ UNCHANGED held
     \/ \E r \in Slow : held' = [held EXCEPT ![r] = Nothing]

\* A committed call keeps the invariant.
LEMMA AnsweredKeeps ==
  ASSUME StoreInv, NEW result, Answered(result)
  PROVE  StoreInv'
<1>1. result \in Transactions /\ Valid(result) /\ Keeps(Now, result) /\ result.ok
  BY DEF Answered, Done, Valid, Ready, Commit
<1>2. Now' = result
  <2>1. store' = result.db /\ used' = result.used
    BY DEF Answered, Commit
  <2>2. Now' = [db |-> store', used |-> used', ok |-> TRUE]
    BY DEF Now
  <2> QED BY <1>1, <2>1, <2>2 DEF Transactions
<1>3. Valid(Now)'
  <2>1. Valid(Now')
    BY <1>1, <1>2
  <2> QED BY <2>1 DEF Valid, Ready, Now
<1>4. held' \in [Slow -> Records \cup {Nothing}]
      /\ \A r \in Slow : held'[r] # Nothing => held'[r] = held[r] /\ held[r] # Nothing
  BY DEF StoreInv, Answered
<1>5. ASSUME NEW r \in Slow, held'[r] # Nothing
      PROVE  FitsStore(held[r])'
  <2> DEFINE item == held[r]
  <2>1. held' [r] = item /\ FitsStore(item)
    BY <1>4, <1>5 DEF StoreInv
  <2>2. store' = result.db /\ used' = result.used
    BY DEF Answered, Commit
  <2>3. item.id \in used'
    BY <1>1, <2>1, <2>2 DEF FitsStore, Keeps, Now
  <2>4. item.id \in Objects(store') =>
          store'[item.id].kind = item.kind /\ store'[item.id].ref = item.ref
    BY <1>1, <2>1, <2>2 DEF FitsStore, Keeps, Now
  <2> QED BY <2>1, <2>3, <2>4 DEF FitsStore
<1> QED BY <1>3, <1>4, <1>5 DEF StoreInv

-----------------------------------------------------------------------------

\* What a request is dispatched to is stored and visible.
LEMMA VisibleIsStored ==
  ASSUME StoreInv, NEW i \in Visible
  PROVE  /\ i \in Objects(Now.db) /\ Now.db[i] = store[i] /\ store[i].id = i
         /\ store[i] \in Records /\ store[i].level = 0 /\ i \in Ids
<1>1. Sound(store) /\ store \in Stores
  BY DEF StoreInv, Valid, Ready, Sound, Now
<1> QED BY <1>1, KindOf DEF Visible, IsDeleted, Sound, Objects, Now

\* And has no entry in the bin.
LEMMA NothingVisibleHasEntry ==
  ASSUME StoreInv, NEW i \in Visible
  PROVE  Entries(store, i) = {}
<1> SUFFICES ASSUME NEW d \in Entries(store, i) PROVE FALSE
  OBVIOUS
<1>1. Whole(store) /\ Weighed(store, {})
  BY DEF StoreInv, Valid, Now
<1>2. /\ d \in Objects(store) /\ store[d].kind = "deleted" /\ store[d].ref = i
      /\ i \in Objects(store)
  BY DEF Entries, Visible
<1>3. store[i].level >= 1
  BY <1>1, <1>2, EntryHides
<1> QED BY <1>3, VisibleIsStored

\* What basecontainer.create makes.
NewItem(kind, p, name, target) ==
  [Object(NewId(Now), kind, p, name) EXCEPT !.target = target]

\* basecontainer.create
LEMMA CreateIsAnswered ==
  ASSUME StoreInv, Calm, Create
  PROVE  \E result : Answered(result)
<1>1. PICK kind \in Movables, name \in Names :
        \E target \in IF kind = "shortcut" THEN Visible \ {Bin} ELSE {None} :
          Call("create", LAMBDA self :
            IF target = self.id /\ ~SelfLinks THEN Raise(Now)
            ELSE AppendTo(Now, [Object(NewId(Now), kind, self.id, name)
                                EXCEPT !.target = target], self))
  BY DEF Create
<1>2. PICK target \in IF kind = "shortcut" THEN Visible \ {Bin} ELSE {None} :
        Call("create", LAMBDA self :
          IF target = self.id /\ ~SelfLinks THEN Raise(Now)
          ELSE AppendTo(Now, [Object(NewId(Now), kind, self.id, name)
                              EXCEPT !.target = target], self))
  BY <1>1
<1>3. "create" \notin Overtaken
  BY DEF Calm
<1>4. PICK i \in Visible :
        /\ Commit(IF target = store[i].id /\ ~SelfLinks THEN Raise(Now)
                  ELSE AppendTo(Now, [Object(NewId(Now), kind, store[i].id, name)
                                      EXCEPT !.target = target], store[i]))
        /\ UNCHANGED held
  BY <1>2, <1>3 DEF Call
<1>5. /\ i \in Objects(Now.db) /\ Now.db[i] = store[i] /\ store[i].id = i
      /\ store[i].level = 0 /\ i \in Ids
  BY VisibleIsStored
<1>6. Valid(Now) /\ Now.ok /\ ~Raise(Now).ok
  BY DEF StoreInv, Now, Raise
<1> DEFINE item == NewItem(kind, i, name, target)
           r == AppendTo(Now, item, Now.db[i])
<1>7. target # i /\ Commit(r)
  <2>1. ~(target = i /\ ~SelfLinks)
    BY <1>4, <1>5, <1>6 DEF Commit
  <2>2. target # i
    BY <2>1 DEF Calm
  <2>3. Commit(r)
    BY <1>4, <1>5, <2>1 DEF NewItem
  <2> QED BY <2>2, <2>3
<1>8. NewId(Now) \in Oids /\ NewId(Now) \notin Now.used
  <2>1. ~NoIdLeft(Now)
    BY DEF Create
  <2> QED BY <2>1, NewIdIsNew
<1>9. \/ target = None /\ kind # "shortcut"
      \/ /\ kind = "shortcut" /\ target \in Objects(Now.db)
         /\ Now.db[target].level = 0
  BY VisibleIsStored
<1>10. target \in Ids \cup {None}
  BY <1>9 DEF Objects
<1>11. /\ item \in Records /\ item.id = NewId(Now) /\ item.kind = kind
       /\ item.level = 0 /\ item.shortcuts = {} /\ item.pid = i
       /\ item.target = target
  <2>1. NewId(Now) \in Ids /\ 0 \in Int
    BY <1>8 DEF Ids
  <2>2. kind \in Kinds
    BY DEF Movables, Kinds
  <2> QED BY <1>5, <1>10, <2>1, <2>2 DEF NewItem, Object, Records
<1>12. Created(Now, item, i)
  BY <1>5, <1>7, <1>8, <1>9, <1>11 DEF Created
<1> HIDE DEF item
<1>13. Done(Now, r)
  <2>1. r.ok
    BY <1>7 DEF Commit
  <2> QED BY <1>6, <1>12, <2>1, CreateKeeps
<1> QED BY <1>4, <1>7, <1>13 DEF Answered

\* baseitem.rename
LEMMA RenameIsAnswered ==
  ASSUME StoreInv, Calm, Rename
  PROVE  \E result : Answered(result)
<1>1. PICK name \in Names :
        Call("rename", LAMBDA self : Update(Now, [self EXCEPT !.name = name]))
  BY DEF Rename
<1>2. "rename" \notin Overtaken
  BY DEF Calm
<1>3. PICK i \in Visible :
        Commit(Update(Now, [store[i] EXCEPT !.name = name])) /\ UNCHANGED held
  BY <1>1, <1>2 DEF Call
<1>4. i \in Objects(Now.db) /\ Now.db[i] = store[i]
  BY VisibleIsStored
<1>5. Valid(Now) /\ Now.ok
  BY DEF StoreInv, Now
<1>6. Update(Now, [Now.db[i] EXCEPT !.name = name]).ok
  BY <1>3, <1>4 DEF Commit
<1>7. Done(Now, Update(Now, [Now.db[i] EXCEPT !.name = name]))
  BY <1>4, <1>5, <1>6, RenameKeeps
<1> QED BY <1>3, <1>4, <1>7 DEF Answered

\* baseitem.moveTo
LEMMA MoveIsAnswered ==
  ASSUME StoreInv, Calm, Move
  PROVE  \E result : Answered(result)
<1>1. PICK t \in Objects(store) : Call("move", LAMBDA self : MoveTo(Now, self, t))
  BY DEF Move
<1>2. "move" \notin Overtaken
  BY DEF Calm
<1>3. PICK i \in Visible :
        store[i].kind \in Movables /\ Commit(MoveTo(Now, store[i], t))
        /\ UNCHANGED held
  BY <1>1, <1>2 DEF Call, CalledOn
<1>4. i \in Objects(Now.db) /\ Now.db[i] = store[i] /\ store[i].level = 0
  BY VisibleIsStored
<1>5. Valid(Now) /\ Now.ok
  BY DEF StoreInv, Now
<1>6. MoveTo(Now, Now.db[i], t).ok
  BY <1>3, <1>4 DEF Commit
<1>7. Done(Now, MoveTo(Now, Now.db[i], t))
  BY <1>3, <1>4, <1>5, <1>6, MoveKeeps
<1> QED BY <1>3, <1>4, <1>7 DEF Answered

\* A call on a stored object, or on a copy of one.
Target(op, self) ==
  /\ self.kind \in CalledOn[op]
  /\ FitsStore(self)
  /\ (\E i \in Visible : self = store[i]) \/ op \in Overtaken

\* A copy that was just read fits the store.
LEMMA VisibleFits ==
  ASSUME StoreInv, NEW i \in Visible
  PROVE  FitsStore(store[i])
<1>1. store[i].id = i /\ i \in Objects(store) /\ Objects(store) \subseteq used
  BY VisibleIsStored DEF StoreInv, Valid, Ready, Now
<1> QED BY <1>1 DEF FitsStore

\* baseitem.delete
LEMMA MoveToBinIsAnswered ==
  ASSUME StoreInv, Calm, MoveToBin
  PROVE  \E result : Answered(result)
<1>1. Valid(Now) /\ Now.ok /\ Now.db = store
  BY DEF StoreInv, Now
<1>2. ASSUME NEW self, Target("recycle", self), RecycleItem(Now, self).ok
      PROVE  Done(Now, RecycleItem(Now, self))
  <2>1. Now \in Transactions
    BY <1>1 DEF Valid, Ready
  <2>2. self.id \in Objects(Now.db)
    BY <1>2, <2>1, RaiseIsTransaction DEF RecycleItem, With, Has
  <2>3. Now.db[self.id].kind \in Movables
    BY <1>1, <1>2, <2>2 DEF Target, FitsStore, CalledOn
  <2>4. ~Exact => Entries(Now.db, self.id) = {}
    <3>1. CASE Exact
      BY <3>1
    <3>2. CASE ~Exact
      <4>1. PICK i \in Visible : self = store[i]
        BY <1>2, <3>2 DEF Target, Calm
      <4> QED BY <1>1, <4>1, VisibleIsStored, NothingVisibleHasEntry
    <3> QED BY <3>1, <3>2
  <2> QED BY <1>1, <1>2, <2>2, <2>3, <2>4, RecycleKeeps
<1>3. PICK self : /\ Target("recycle", self) /\ Commit(RecycleItem(Now, self))
                  /\ \/ UNCHANGED held
                     \/ \E r \in Slow : held' = [held EXCEPT ![r] = Nothing]
  BY VisibleFits DEF MoveToBin, Call, Target, StoreInv
<1> QED BY <1>2, <1>3 DEF Answered, Commit

\* baseitem.deletePermanent
LEMMA DeletePermanentIsAnswered ==
  ASSUME StoreInv, DeletePermanent
  PROVE  \E result : Answered(result)
<1>1. Valid(Now) /\ Now.ok /\ Now.db = store
  BY DEF StoreInv, Now
<1>2. ASSUME NEW self, Target("delete", self), DeleteItem(Now, self).ok
      PROVE  Done(Now, DeleteItem(Now, self))
  <2>1. self.id \in Objects(Now.db) => Now.db[self.id].kind \in Movables
    BY <1>1, <1>2 DEF Target, FitsStore, CalledOn
  <2> QED BY <1>1, <1>2, <2>1, DeleteKeeps
<1>3. PICK self : /\ Target("delete", self) /\ Commit(DeleteItem(Now, self))
                  /\ \/ UNCHANGED held
                     \/ \E r \in Slow : held' = [held EXCEPT ![r] = Nothing]
  BY VisibleFits DEF DeletePermanent, Call, Target, StoreInv
<1> QED BY <1>2, <1>3 DEF Answered, Commit

\* The methods of the bin's entries are called on entries.
LEMMA TargetIsEntry ==
  ASSUME StoreInv, NEW op \in {"purge", "restore", "restoreTo"}, NEW self,
         Target(op, self)
  PROVE  IsEntry(Now, self)
BY DEF Target, FitsStore, CalledOn, IsEntry, Now

\* deleteditem.delete
LEMMA PurgeIsAnswered ==
  ASSUME StoreInv, Purge
  PROVE  \E result : Answered(result)
<1>1. Valid(Now) /\ Now.ok
  BY DEF StoreInv, Now
<1>2. ASSUME NEW self, Target("purge", self), PurgeItem(Now, self).ok
      PROVE  Done(Now, PurgeItem(Now, self))
  BY <1>1, <1>2, TargetIsEntry, PurgeKeeps
<1>3. PICK self : /\ Target("purge", self) /\ Commit(PurgeItem(Now, self))
                  /\ \/ UNCHANGED held
                     \/ \E r \in Slow : held' = [held EXCEPT ![r] = Nothing]
  BY VisibleFits DEF Purge, Call, Target, StoreInv
<1> QED BY <1>2, <1>3 DEF Answered, Commit

\* deleteditem.restore
LEMMA RestoreIsAnswered ==
  ASSUME StoreInv, Restore
  PROVE  \E result : Answered(result)
<1>1. Valid(Now) /\ Now.ok
  BY DEF StoreInv, Now
<1>2. ASSUME NEW self, Target("restore", self), RestoreTo(Now, self, None).ok
      PROVE  Done(Now, RestoreTo(Now, self, None))
  BY <1>1, <1>2, TargetIsEntry, RestoreKeeps
<1>3. PICK self : /\ Target("restore", self) /\ Commit(RestoreTo(Now, self, None))
                  /\ \/ UNCHANGED held
                     \/ \E r \in Slow : held' = [held EXCEPT ![r] = Nothing]
  BY VisibleFits DEF Restore, Call, Target, StoreInv
<1> QED BY <1>2, <1>3 DEF Answered, Commit

\* deleteditem.restoreTo
LEMMA RestoreElsewhereIsAnswered ==
  ASSUME StoreInv, RestoreElsewhere
  PROVE  \E result : Answered(result)
<1>1. Valid(Now) /\ Now.ok
  BY DEF StoreInv, Now
<1>2. PICK t \in Objects(store) :
        Call("restoreTo", LAMBDA self : RestoreTo(Now, self, t))
  BY DEF RestoreElsewhere
<1>3. ~Exact
  BY <1>2 DEF Call, Exact
<1>4. ASSUME NEW self, Target("restoreTo", self), RestoreTo(Now, self, t).ok
      PROVE  Done(Now, RestoreTo(Now, self, t))
  BY <1>1, <1>3, <1>4, TargetIsEntry, RestoreKeeps
<1>5. PICK self : /\ Target("restoreTo", self) /\ Commit(RestoreTo(Now, self, t))
                  /\ \/ UNCHANGED held
                     \/ \E r \in Slow : held' = [held EXCEPT ![r] = Nothing]
  BY <1>2, VisibleFits DEF Call, Target, StoreInv
<1> QED BY <1>4, <1>5 DEF Answered, Commit

\* recyclebin.empty
LEMMA EmptyIsAnswered ==
  ASSUME StoreInv, Empty
  PROVE  \E result : Answered(result)
<1>1. Valid(Now) /\ Now.ok
  BY DEF StoreInv, Now
<1>2. /\ Commit(EmptyBin(Now))
      /\ \/ UNCHANGED held
         \/ \E r \in Slow : held' = [held EXCEPT ![r] = Nothing]
  BY DEF Empty, Call
<1>3. Done(Now, EmptyBin(Now))
  BY <1>1, <1>2, EmptyKeeps DEF Commit
<1> QED BY <1>2, <1>3 DEF Answered

\* A step that calls no method changes nothing in the store.
Waits == UNCHANGED <<store, used>> /\ StoreInv'

\* Dispatching a request, or giving it up, keeps the invariant.
LEMMA WaitsKeeps ==
  ASSUME StoreInv, UNCHANGED <<store, used>>,
         held' \in [Slow -> Records \cup {Nothing}],
         \A r \in Slow : held'[r] # Nothing =>
                           held'[r] = held[r] \/ \E i \in Visible : held'[r] = store[i]
  PROVE  Waits
<1>1. \A r \in Slow : held'[r] # Nothing => FitsStore(held'[r])
  BY VisibleFits DEF StoreInv
<1>2. \A item : FitsStore(item) =>
        /\ item.id \in used'
        /\ item.id \in Objects(store') =>
             store'[item.id].kind = item.kind /\ store'[item.id].ref = item.ref
  BY DEF FitsStore
<1>3. ASSUME NEW r \in Slow, held'[r] # Nothing
      PROVE  FitsStore(held[r])'
  BY <1>1, <1>2, <1>3 DEF FitsStore
<1>4. Valid(Now)'
  BY DEF StoreInv, Valid, Ready, Now
<1> QED BY <1>3, <1>4 DEF StoreInv, Waits

\* Every step either leaves the store or answers a call.
LEMMA EveryStep ==
  ASSUME StoreInv, Calm, [Next]_vars
  PROVE  Waits \/ \E result : Answered(result)
<1>1. held \in [Slow -> Records \cup {Nothing}]
  BY DEF StoreInv
<1>2. ASSUME NEW r \in Slow, Dispatch(r) PROVE Waits
  <2>1. PICK i \in Visible : held' = [held EXCEPT ![r] = store[i]]
    BY <1>2 DEF Dispatch
  <2>2. store[i] \in Records
    BY VisibleIsStored
  <2>3. UNCHANGED <<store, used>>
    BY <1>2 DEF Dispatch
  <2> QED BY <1>1, <2>1, <2>2, <2>3, WaitsKeeps
<1>3. ASSUME NEW r \in Slow, GiveUp(r) PROVE Waits
  BY <1>1, <1>3, WaitsKeeps DEF GiveUp
<1>4. ~CopyItem
  BY DEF Calm, CopyItem, Call
<1>5. CASE UNCHANGED vars
  BY <1>1, <1>5, WaitsKeeps DEF vars
<1> QED BY <1>2, <1>3, <1>4, <1>5, CreateIsAnswered, RenameIsAnswered,
           MoveIsAnswered,
           MoveToBinIsAnswered, DeletePermanentIsAnswered, PurgeIsAnswered,
           RestoreIsAnswered, RestoreElsewhereIsAnswered, EmptyIsAnswered DEF Next

\* In every reachable state of the object store, for any number of ids, names
\* and slow requests, the store is valid, and the copy that a slow request
\* holds is of an object that has kept its kind or is gone for good.
THEOREM StoreInvariance == Calm /\ Spec => []StoreInv
<1> SUFFICES ASSUME Calm PROVE Spec => []StoreInv
  OBVIOUS
<1>1. Init => StoreInv
  BY EmptyStoreValid
<1>2. StoreInv /\ [Next]_vars => StoreInv'
  BY EveryStep, AnsweredKeeps DEF Waits
<1> QED BY <1>1, <1>2, PTL DEF Spec

-----------------------------------------------------------------------------
(* What the invariant says.                                                *)

\* The types of the object store; _isDeleted is never negative.
THEOREM StoreTypeCorrect == Calm /\ Spec => []TypeOK
<1>1. StoreInv => TypeOK
  <2> SUFFICES ASSUME StoreInv PROVE TypeOK
    OBVIOUS
  <2>1. Sound(store) /\ Weighed(store, {})
    BY DEF StoreInv, Valid, Whole, Now
  <2>2. \A i \in Objects(store) : store[i].id = i /\ store[i].level >= 0
    BY <2>1, LevelsNatural DEF Sound
  <2>3. Objects(store) \subseteq used /\ used \subseteq Ids
    BY DEF StoreInv, Valid, Ready, Now, Transactions
  <2> QED BY <2>1, <2>2, <2>3 DEF StoreInv, TypeOK, Sound, Stores
<1> QED BY <1>1, StoreInvariance, PTL

\* The two ends of every shortcut agree, whatever is created, renamed, moved,
\* recycled, restored and deleted, and in which nesting: Relator1EventHandler
\* and RelatorNEventHandler (core.dteventhandlers) with the methods of
\* systemObjects.Removable.
THEOREM LinksAreKept == Calm /\ Spec => []LinksMatch
<1>1. StoreInv => LinksMatch
  <2> SUFFICES ASSUME StoreInv, NEW i \in Objects(store)
               PROVE  /\ \A k \in store[i].shortcuts : Stored(k) /\ store[k].target = i
                      /\ store[i].kind = "shortcut" =>
                           /\ Stored(store[i].target)
                           /\ i \in store[store[i].target].shortcuts
    BY DEF LinksMatch
  <2>1. Sound(store) /\ Shape(store, i)
    BY DEF StoreInv, Valid, Whole, Now
  <2> QED BY <2>1 DEF Sound, Shape, Stored
<1> QED BY <1>1, StoreInvariance, PTL

\* The object of an entry of the bin is hidden for as long as the entry is
\* there: Removable.recycle and DeletedItem.restore_to.
THEOREM BinStaysHidden == Calm /\ Spec => []NothingInBinIsVisible
<1>1. StoreInv => NothingInBinIsVisible
  <2> SUFFICES ASSUME StoreInv, NEW d \in BinEntries, Stored(store[d].ref)
               PROVE  IsDeleted(store[store[d].ref])
    BY DEF NothingInBinIsVisible
  <2>1. Whole(store) /\ Weighed(store, {})
    BY DEF StoreInv, Valid, Now
  <2>2. d \in Objects(store) /\ store[d].kind = "deleted"
        /\ store[d].ref \in Objects(store)
    BY DEF BinEntries, Stored
  <2>3. store[store[d].ref].level >= 1
    BY <2>1, <2>2, EntryHides
  <2> QED BY <2>3 DEF IsDeleted
<1> QED BY <1>1, StoreInvariance, PTL

\* An object deleted permanently does not come back (Removable.delete), as long
\* as no overtaken request writes to the folder it read.
THEOREM StoreDeletesForGood == Calm /\ Spec => DeletedForGood
<1> SUFFICES ASSUME Calm PROVE Spec => DeletedForGood
  OBVIOUS
<1> DEFINE Gone == \A i \in used : ~Stored(i) => i \notin Objects(store')
<1>1. StoreInv /\ [Next]_vars => [Gone]_vars
  <2> SUFFICES ASSUME StoreInv, [Next]_vars PROVE Gone
    OBVIOUS
  <2>1. CASE Waits
    BY <2>1 DEF Waits, Stored
  <2>2. ASSUME NEW result, Answered(result) PROVE Gone
    BY <2>2 DEF Answered, Commit, Done, Keeps, Now, Stored
  <2> QED BY <2>1, <2>2, EveryStep
<1> QED BY <1>1, StoreInvariance, PTL DEF Spec, DeletedForGood

\* The invariant implies that the objects are trees, hidden as a whole.
LEMMA WholeTree ==
  ASSUME StoreInv
  PROVE  TreeStaysWhole
<1>1. /\ Whole(store) /\ Sound(store) /\ Weighed(store, {}) /\ store \in Stores
      /\ {Root, Bin} \subseteq Objects(store)
  BY DEF StoreInv, Valid, Whole, Sound, Now
<1>2. ASSUME NEW i \in Objects(store) \ {Root, Bin}
      PROVE  Stored(store[i].pid)
  <2>1. store[i].kind \in {"root", "bin", "deleted", "folder", "document", "shortcut"}
    BY <1>1, KindOf
  <2>2. Shape(store, i)
    BY <1>1 DEF Whole
  <2> QED BY <1>1, <2>1, <2>2 DEF Shape, Movables, Stored
<1>3. ASSUME NEW S \in SUBSET (Objects(store) \ {Root, Bin}), S # {}
      PROVE  \E i \in S : store[i].pid \notin S
  <2>1. S \in SUBSET Objects(store)
    OBVIOUS
  <2> QED BY <1>1, <1>3, <2>1 DEF Sound
<1>4. ASSUME NEW i \in Objects(store), Stored(store[i].pid),
             IsDeleted(store[store[i].pid])
      PROVE  IsDeleted(store[i])
  <2> DEFINE p == store[i].pid
             n == Cardinality(Entries(store, i))
             H == Hides(store, store[i].target)
  <2>1. p \in Objects(store) /\ store[p].level # 0
    BY <1>4 DEF Stored, IsDeleted
  <2>2. store[p].level \in Int /\ store[p].level >= 0 /\ store[i].level \in Int
    BY <1>1, <2>1, KindOf, LevelsNatural
  <2>3. Own(store, i) >= n
    <3>1. Entries(store, i) \ {} = Entries(store, i)
      OBVIOUS
    <3> QED BY <1>1, <3>1 DEF Weighed, Weighs
  <2>4. n \in Nat /\ H \in {0, 1}
    BY EntriesFinite DEF Hides
  <2>5. Own(store, i) = store[i].level - H - store[p].level
    BY <2>1 DEF Own, LevelOf
  <2> HIDE DEF n, H
  <2>6. store[i].level # 0
    BY <2>1, <2>2, <2>3, <2>4, <2>5
  <2> QED BY <2>6 DEF IsDeleted
<1>5. Rooted /\ HiddenWithParent
  BY <1>2, <1>3, <1>4 DEF Rooted, HiddenWithParent
<1> QED BY <1>5 DEF TreeStaysWhole

\* No sequence of calls leaves an object outside the tree, in a folder that is
\* gone or within itself, or visible in a hidden folder: Movable.move_to,
\* Removable._recycle, _undelete and _delete.
THEOREM TreeIsKept == Calm /\ Spec => []TreeStaysWhole
<1>1. StoreInv => TreeStaysWhole
  BY WholeTree
<1> QED BY <1>1, StoreInvariance, PTL

-----------------------------------------------------------------------------
\* An object is not above its own folder.
LEMMA NotAboveItself ==
  ASSUME NEW db, Sound(db), NEW i \in Objects(db), db[i].pid \in Objects(db)
  PROVE  i \notin Line(db)[db[i].pid]
<1> SUFFICES ASSUME i \in Line(db)[db[i].pid] PROVE FALSE
  OBVIOUS
<1> DEFINE S == {j \in Objects(db) : i \in Line(db)[j]}
<1>1. ASSUME NEW j \in S PROVE db[j].pid \in S
  <2>1. Line(db)[j] = {j} \cup (IF db[j].pid \in Objects(db)
                                THEN Line(db)[db[j].pid] ELSE {})
    BY LineUnfolds
  <2>2. CASE j = i
    BY <2>2
  <2>3. CASE j # i
    BY <2>1, <2>3
  <2> QED BY <2>2, <2>3
<1>2. S \in SUBSET Objects(db) /\ S # {}
  OBVIOUS
<1> HIDE DEF S
<1> QED BY <1>1, <1>2 DEF Sound

\* The entries that hide an object.
Hiding(db, i) ==
  {d \in Objects(db) : db[d].kind = "deleted" /\ db[d].ref \in Line(db)[i]}

\* They can be counted.
LEMMA HidingFinite ==
  ASSUME NEW db, NEW i
  PROVE  IsFiniteSet(Hiding(db, i)) /\ Cardinality(Hiding(db, i)) \in Nat
<1>1. Hiding(db, i) \in SUBSET Ids
  BY DEF Hiding, Objects
<1> QED BY <1>1, IdsFinite, FS_Subset, FS_CardinalityType

\* They are its own and those that hide its folder.
LEMMA HidingCounts ==
  ASSUME NEW db, Sound(db), NEW i \in Objects(db)
  PROVE  Cardinality(Hiding(db, i)) =
           Cardinality(Entries(db, i))
           + IF db[i].pid \in Objects(db)
             THEN Cardinality(Hiding(db, db[i].pid)) ELSE 0
<1> DEFINE p == db[i].pid
<1>1. Line(db)[i] = {i} \cup (IF p \in Objects(db) THEN Line(db)[p] ELSE {})
  BY LineUnfolds
<1>2. CASE p \notin Objects(db)
  <2>1. Hiding(db, i) = Entries(db, i)
    BY <1>1, <1>2 DEF Hiding, Entries
  <2>2. Cardinality(Entries(db, i)) \in Nat
    BY EntriesFinite
  <2> QED BY <1>2, <2>1, <2>2
<1>3. CASE p \in Objects(db)
  <2> DEFINE A == Entries(db, i)
             B == Hiding(db, p)
  <2>1. Hiding(db, i) = A \cup B
    BY <1>1, <1>3 DEF Hiding, Entries
  <2>2. A \cap B = {}
    BY <1>3, NotAboveItself DEF Hiding, Entries
  <2>3. IsFiniteSet(A) /\ IsFiniteSet(B) /\ Cardinality(A) \in Nat /\ Cardinality(B) \in Nat
    BY EntriesFinite, HidingFinite
  <2> HIDE DEF A, B
  <2>4. Cardinality(A \cup B) = Cardinality(A) + Cardinality(B) - Cardinality(A \cap B)
    BY <2>3, FS_Union
  <2>5. Cardinality(A \cap B) = 0
    BY <2>2, FS_EmptySet
  <2>6. Cardinality(A \cup B) = Cardinality(A) + Cardinality(B)
    BY <2>3, <2>4, <2>5
  <2> QED BY <1>3, <2>1, <2>6 DEF A, B
<1> QED BY <1>2, <1>3

\* So the level of an object, its own weight and its folder's, counts them.
LEMMA LevelCounts ==
  ASSUME NEW db, Whole(db), Weighed(db, {}), Exact, NEW i \in Objects(db)
  PROVE  db[i].level = Cardinality(Hiding(db, i)) + Hides(db, db[i].target)
<1> DEFINE N == {j \in Objects(db) :
                   db[j].level # Cardinality(Hiding(db, j)) + Hides(db, db[j].target)}
<1>1. Sound(db) /\ db \in Stores
  BY DEF Whole, Sound
<1>2. ASSUME NEW j \in N PROVE db[j].pid \in N
  <2> DEFINE p == db[j].pid
             n == Cardinality(Entries(db, j))
             H == Hides(db, db[j].target)
             c == Cardinality(Hiding(db, j))
  <2>1. j \in Objects(db) /\ db[j].level \in Int /\ db[j].level # c + H
    BY <1>1, KindOf
  <2>2. Own(db, j) = n
    <3>1. Entries(db, j) \ {} = Entries(db, j)
      OBVIOUS
    <3> QED BY <2>1, <3>1 DEF Weighed, Weighs
  <2>3. n \in Nat /\ H \in {0, 1} /\ c \in Nat
    BY EntriesFinite, HidingFinite DEF Hides
  <2>4. Own(db, j) = db[j].level - H - LevelOf(db, p)
    BY DEF Own
  <2>5. c = n + IF p \in Objects(db) THEN Cardinality(Hiding(db, p)) ELSE 0
    BY <1>1, <2>1, HidingCounts
  <2> HIDE DEF n, H, c
  <2>6. CASE p \notin Objects(db)
    <3>1. LevelOf(db, p) = 0 /\ c = n
      BY <2>3, <2>5, <2>6 DEF LevelOf
    <3>2. n = db[j].level - H - 0 /\ H \in Int
      BY <2>2, <2>3, <2>4, <3>1
    <3>3. db[j].level = n + H
      BY <2>1, <2>3, <3>2
    <3> QED BY <2>1, <3>1, <3>3
  <2>7. CASE p \in Objects(db)
    <3> DEFINE e == Cardinality(Hiding(db, p))
    <3>1. LevelOf(db, p) = db[p].level /\ db[p].level \in Int
      BY <1>1, <2>7, KindOf DEF LevelOf
    <3>2. e \in Nat /\ c = n + e
      BY <2>5, <2>7, HidingFinite
    <3>3. Hides(db, db[p].target) = 0
      BY <1>1, <2>1, <2>7, ParentHasNoTarget, SpecialIds DEF Hides, Objects
    <3> HIDE DEF e
    <3>5. n = db[j].level - H - db[p].level /\ H \in Int
      BY <2>2, <2>3, <2>4, <3>1
    <3>4. db[p].level # e + 0
      <4> DEFINE l == db[j].level
                 L == db[p].level
      <4>1. l # c + H /\ l \in Int /\ L \in Int /\ n = l - H - L
        BY <2>1, <3>1, <3>5
      <4> HIDE DEF l, L
      <4>2. L # e + 0
        BY <2>3, <3>2, <3>5, <4>1
      <4> QED BY <4>2 DEF L
    <3> QED BY <2>7, <3>3, <3>4 DEF e
  <2> QED BY <2>6, <2>7
<1>3. N \in SUBSET Objects(db)
  OBVIOUS
<1> HIDE DEF N
<1>4. N = {}
  BY <1>1, <1>2, <1>3 DEF Sound
<1> QED BY <1>4 DEF N

\* _isDeleted is the number of the entries of the bin that hide an object, and
\* one more for the shortcut of a hidden object: restoring an entry shows what
\* it had hidden, in whatever order nested objects are recycled and restored.
THEOREM BinIsCounted == Calm /\ Exact /\ Spec => []HiddenAsOftenAsRecycled
<1> SUFFICES ASSUME Calm, Exact PROVE Spec => []HiddenAsOftenAsRecycled
  OBVIOUS
<1>1. StoreInv => HiddenAsOftenAsRecycled
  <2> SUFFICES ASSUME StoreInv, NEW i \in Objects(store)
               PROVE  store[i].level = Cardinality(HidingEntries(i))
                                       + IF HiddenByTarget(i) THEN 1 ELSE 0
    BY DEF HiddenAsOftenAsRecycled
  <2>1. /\ Whole(store) /\ Sound(store) /\ Weighed(store, {}) /\ store \in Stores
    BY DEF StoreInv, Valid, Whole, Sound, Now
  <2>2. HidingEntries(i) = Hiding(store, i)
    BY DEF HidingEntries, BinEntries, Hiding
  <2>3. Hides(store, store[i].target) = IF HiddenByTarget(i) THEN 1 ELSE 0
    <3> DEFINE t == store[i].target
    <3>1. CASE t \in Objects(store)
      <4>1. store[t].level \in Int /\ store[t].level >= 0
        BY <2>1, <3>1, KindOf, LevelsNatural
      <4>2. store[i].kind = "shortcut"
        BY <2>1, <3>1, SpecialIds DEF Sound, Objects
      <4> QED BY <3>1, <4>1, <4>2 DEF Hides, HiddenByTarget, Stored, IsDeleted
    <3>2. CASE t \notin Objects(store)
      BY <3>2 DEF Hides, HiddenByTarget, Stored
    <3> QED BY <3>1, <3>2
  <2>4. store[i].level = Cardinality(Hiding(store, i)) + Hides(store, store[i].target)
    BY <2>1, LevelCounts
  <2> QED BY <2>2, <2>3, <2>4
<1> QED BY <1>1, StoreInvariance, PTL
=============================================================================
