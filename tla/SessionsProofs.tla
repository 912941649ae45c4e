--------------------------- MODULE SessionsProofs ---------------------------
(***************************************************************************)
(* Proofs about the sessions: in memory, in the database and in a cookie,  *)
(* for any number of requests and sessions, any timeouts, any number of    *)
(* chunks of a cookie, and any values and users.                           *)
(*                                                                         *)
(* SInv: a session of the memory manager is once in the list, or as often  *)
(* as requests are reviving it; a request that holds a session keeps it    *)
(* young; what the expiry thread takes off is old.                         *)
(* IInv: a session in the database is at most the revival threshold older  *)
(* than its last use.                                                      *)
(* CInv: every response, whole and in whatever order it comes, brings the  *)
(* session of its request or ends it.                                      *)
(***************************************************************************)
EXTENDS Sessions, DbSessions, CookieSessions, FiniteSetTheorems,
        SequenceTheorems, WellFoundedInduction, TLAPS

-----------------------------------------------------------------------------
(* Sessions in memory. *)

Held(q, s) == {i \in DOMAIN q : q[i] = s}
HowOften(q, s) == Cardinality(Held(q, s))

LEMMA HowOftenIsNumber ==
  ASSUME NEW S, NEW q \in Seq(S), NEW s
  PROVE  /\ HowOften(q, s) \in Nat /\ IsFiniteSet(Held(q, s))
         /\ (HowOften(q, s) = 0 <=> \A i \in DOMAIN q : q[i] # s)
<1>1. Len(q) \in Nat /\ DOMAIN q = 1 .. Len(q)
  OBVIOUS
<1>2. IsFiniteSet(1 .. Len(q))
  BY <1>1, FS_Interval
<1>3. Held(q, s) \in SUBSET (1 .. Len(q))
  BY <1>1 DEF Held
<1>4. IsFiniteSet(Held(q, s))
  BY <1>2, <1>3, FS_Subset
<1>5. HowOften(q, s) \in Nat
  BY <1>4, FS_CardinalityType DEF HowOften
<1>6. HowOften(q, s) = 0 <=> Held(q, s) = {}
  BY <1>4, FS_EmptySet DEF HowOften
<1> QED BY <1>4, <1>5, <1>6 DEF Held

LEMMA AppendCounts ==
  ASSUME NEW S, NEW q \in Seq(S), NEW x \in S, NEW s
  PROVE  /\ Append(q, x) \in Seq(S)
         /\ HowOften(Append(q, x), s) = HowOften(q, s) + (IF s = x THEN 1 ELSE 0)
<1>1. PICK p : p = Append(q, x)
  OBVIOUS
<1>2. PICK n : n = Len(q)
  OBVIOUS
<1>3. /\ n \in Nat /\ DOMAIN q = 1 .. n /\ p \in Seq(S)
      /\ DOMAIN p = 1 .. n + 1
      /\ \A i \in 1 .. n : p[i] = q[i]
      /\ p[n + 1] = x
  <2>1. n \in Nat /\ DOMAIN q = 1 .. n
    BY <1>2
  <2>2. p \in Seq(S) /\ Len(p) = n + 1
    BY <1>1, <1>2, AppendProperties
  <2>3. /\ \A i \in 1 .. n : p[i] = q[i]
        /\ p[n + 1] = x
    BY <1>1, <1>2, AppendProperties
  <2> QED BY <2>1, <2>2, <2>3
<1>4. HowOften(q, s) \in Nat /\ IsFiniteSet(Held(q, s))
  BY HowOftenIsNumber
<1>5. CASE s = x
  <2>1. Held(p, s) = Held(q, s) \cup {n + 1}
    BY <1>3, <1>5 DEF Held
  <2>2. n + 1 \notin Held(q, s)
    BY <1>3 DEF Held
  <2>3. Cardinality(Held(q, s) \cup {n + 1}) = Cardinality(Held(q, s)) + 1
    BY <1>4, <2>2, FS_AddElement
  <2>4. HowOften(p, s) = HowOften(q, s) + 1
    BY <2>1, <2>3 DEF HowOften
  <2> QED BY <1>1, <1>3, <1>5, <2>4
<1>6. CASE s # x
  <2>1. Held(p, s) = Held(q, s)
    BY <1>3, <1>6 DEF Held
  <2>2. HowOften(p, s) = HowOften(q, s)
    BY <2>1 DEF HowOften
  <2> QED BY <1>1, <1>3, <1>4, <1>6, <2>2
<1> QED BY <1>5, <1>6

\* A sequence without the element at k.
LEMMA RemovalCounts ==
  ASSUME NEW S, NEW q \in Seq(S), NEW k \in 1 .. Len(q), NEW s
  PROVE  LET p == SubSeq(q, 1, k - 1) \o SubSeq(q, k + 1, Len(q)) IN
         /\ p \in Seq(S)
         /\ HowOften(p, s) = HowOften(q, s) - (IF q[k] = s THEN 1 ELSE 0)
<1>1. PICK n : n = Len(q)
  OBVIOUS
<1>2. PICK a : a = SubSeq(q, 1, k - 1)
  OBVIOUS
<1>3. PICK b : b = SubSeq(q, k + 1, n)
  OBVIOUS
<1>4. PICK p : p = a \o b
  OBVIOUS
<1>5. /\ n \in Nat /\ k \in 1 .. n /\ DOMAIN q = 1 .. n
      /\ \A i \in 1 .. n : q[i] \in S
  BY <1>1
<1>6. a \in Seq(S) /\ Len(a) = k - 1 /\ \A i \in 1 .. k - 1 : a[i] = q[i]
  <2>1. \A i \in 1 .. k - 1 : q[i] \in S
    BY <1>5
  <2>2. k - 1 \in Nat /\ 1 + (k - 1) - 1 = k - 1 /\ 1 \in Int /\ k - 1 \in Int
    BY <1>5
  <2>3. Len(a) = k - 1 /\ \A i \in 1 .. k - 1 : a[i] = q[i]
    BY <1>2, <1>5, <2>2, SubSeqProperties
  <2>4. a \in Seq(S)
    BY <1>2, <1>5, SubSeqProperties
  <2> QED BY <2>3, <2>4
<1>7. /\ b \in Seq(S) /\ Len(b) = n - k
      /\ \A i \in 1 .. n - k : b[i] = q[k + i]
  BY <1>3, <1>5, SubSeqProperties
<1>8. /\ p \in Seq(S) /\ Len(p) = n - 1 /\ DOMAIN p = 1 .. n - 1
      /\ \A i \in 1 .. n - 1 : p[i] = IF i < k THEN q[i] ELSE q[i + 1]
  <2>1. p \in Seq(S) /\ Len(p) = Len(a) + Len(b)
    BY <1>4, <1>6, <1>7, ConcatProperties
  <2>2. Len(p) = n - 1
    BY <1>5, <1>6, <1>7, <2>1
  <2>3. \A i \in 1 .. n - 1 : p[i] = IF i <= k - 1 THEN a[i] ELSE b[i - (k - 1)]
    BY <1>4, <1>5, <1>6, <1>7, ConcatProperties
  <2>4. ASSUME NEW i \in 1 .. n - 1
        PROVE  p[i] = IF i < k THEN q[i] ELSE q[i + 1]
    <3>1. CASE i < k
      <4>1. i \in 1 .. k - 1
        BY <1>5, <3>1
      <4>2. p[i] = a[i]
        BY <1>5, <2>3, <4>1
      <4> QED BY <1>6, <3>1, <4>1, <4>2
    <3>2. CASE ~(i < k)
      <4>1. i - (k - 1) \in 1 .. n - k /\ k + (i - (k - 1)) = i + 1
        BY <1>5, <3>2
      <4>2. p[i] = b[i - (k - 1)]
        BY <1>5, <2>3, <3>2
      <4> QED BY <1>7, <3>2, <4>1, <4>2
    <3> QED BY <3>1, <3>2
  <2>5. DOMAIN p = 1 .. Len(p)
    BY <2>1
  <2>6. DOMAIN p = 1 .. n - 1
    BY <2>2, <2>5
  <2> QED BY <2>1, <2>2, <2>4, <2>6
<1>9. Cardinality(Held(p, s)) = Cardinality(Held(q, s) \ {k})
  <2> DEFINE A == Held(q, s) \ {k}
             B == Held(p, s)
             f == [i \in A |-> IF i < k THEN i ELSE i - 1]
  <2>1. A = {i \in 1 .. n : i # k /\ q[i] = s}
    BY <1>5 DEF Held
  <2>2. B = {i \in 1 .. n - 1 : p[i] = s}
    BY <1>8 DEF Held
  <2>3. f \in [A -> B]
    <3>1. ASSUME NEW i \in A PROVE f[i] \in B
      <4>1. CASE i < k
        <5>1. i \in 1 .. n - 1 /\ p[i] = q[i] /\ q[i] = s
          BY <1>5, <1>8, <2>1, <4>1
        <5> QED BY <2>2, <4>1, <5>1
      <4>2. CASE ~(i < k)
        <5>1. i - 1 \in 1 .. n - 1 /\ ~(i - 1 < k) /\ (i - 1) + 1 = i
          BY <1>5, <2>1, <4>2
        <5>2. p[i - 1] = q[i] /\ q[i] = s
          BY <1>8, <2>1, <5>1
        <5> QED BY <2>2, <4>2, <5>1, <5>2
      <4> QED BY <4>1, <4>2
    <3> QED BY <3>1
  <2>4. ASSUME NEW i \in A, NEW j \in A, f[i] = f[j] PROVE i = j
    BY <1>5, <2>1, <2>4
  <2>5. ASSUME NEW j \in B PROVE \E i \in A : f[i] = j
    <3>1. j \in 1 .. n - 1 /\ p[j] = s
      BY <2>2
    <3>2. CASE j < k
      <4>1. j \in A /\ f[j] = j
        BY <1>5, <1>8, <2>1, <3>1, <3>2
      <4> QED BY <4>1
    <3>3. CASE ~(j < k)
      <4>1. j + 1 \in A
        BY <1>5, <1>8, <2>1, <3>1, <3>3
      <4>2. f[j + 1] = j
        BY <1>5, <3>1, <3>3, <4>1
      <4> QED BY <4>1, <4>2
    <3> QED BY <3>2, <3>3
  <2>6. f \in Bijection(A, B)
    <3> HIDE DEF f, A, B
    <3> QED BY <2>3, <2>4, <2>5 DEF Bijection, Injection, Surjection,
               IsInjective
  <2>7. ExistsBijection(A, B)
    BY <2>6 DEF ExistsBijection
  <2>8. IsFiniteSet(A)
    <3>1. IsFiniteSet(Held(q, s))
      BY HowOftenIsNumber
    <3>2. A \in SUBSET Held(q, s)
      OBVIOUS
    <3> HIDE DEF A
    <3> QED BY <3>1, <3>2, FS_Subset
  <2> HIDE DEF A, B, f
  <2>9. Cardinality(B) = Cardinality(A)
    BY <2>7, <2>8, FS_Bijection
  <2> QED BY <2>9 DEF A, B
<1>10. IsFiniteSet(Held(q, s)) /\ HowOften(q, s) \in Nat
  BY HowOftenIsNumber
<1>11. HowOften(p, s) = HowOften(q, s) - (IF q[k] = s THEN 1 ELSE 0)
  <2>1. CASE q[k] = s
    <3>1. k \in Held(q, s)
      BY <1>5, <2>1 DEF Held
    <3>2. Cardinality(Held(q, s) \ {k}) = Cardinality(Held(q, s)) - 1
      BY <1>10, <3>1, FS_RemoveElement
    <3> QED BY <1>9, <2>1, <3>2 DEF HowOften
  <2>2. CASE q[k] # s
    <3>1. Held(q, s) \ {k} = Held(q, s)
      BY <2>2 DEF Held
    <3>2. HowOften(p, s) = HowOften(q, s)
      BY <1>9, <3>1 DEF HowOften
    <3> QED BY <1>10, <2>2, <3>2
  <2> QED BY <2>1, <2>2
<1>12. SubSeq(q, 1, k - 1) \o SubSeq(q, k + 1, Len(q)) = p
  BY <1>1, <1>2, <1>3, <1>4
<1> QED BY <1>8, <1>11, <1>12

\* The least of a set of numbers.
LEMMA Least ==
  ASSUME NEW T, T \subseteq Nat, T # {}
  PROVE  \E x \in T : \A y \in T : x <= y
<1> DEFINE R == OpToRel(<, Nat)
<1>1. IsWellFoundedOn(R, Nat)
  BY NatLessThanWellFounded
<1>2. \A x, y \in Nat : y < x => <<y, x>> \in R
  BY DEF OpToRel
<1> HIDE DEF R
<1>3. PICK x \in T : \A y \in T : ~ (<<y, x>> \in R)
  BY <1>1, WFMin
<1>4. ASSUME NEW y \in T PROVE x <= y
  <2>1. ~ (y < x)
    BY <1>2, <1>3
  <2> QED BY <2>1
<1> QED BY <1>4

\* list.remove takes out one occurrence of s, and none of another session.
LEMMA WithoutCounts ==
  ASSUME NEW S, order \in Seq(S), NEW s, Listed(s), NEW v
  PROVE  /\ Without(s) \in Seq(S)
         /\ HowOften(Without(s), v) = HowOften(order, v) - (IF v = s THEN 1 ELSE 0)
         /\ HowOften(order, s) > 0
<1> DEFINE First(i) == order[i] = s /\ \A j \in 1 .. i - 1 : order[j] # s
           k == CHOOSE i \in DOMAIN order : First(i)
<1>1. Len(order) \in Nat /\ DOMAIN order = 1 .. Len(order)
  OBVIOUS
<1>2. \E i \in DOMAIN order : First(i)
  <2>1. Held(order, s) \subseteq Nat /\ Held(order, s) # {}
    BY <1>1 DEF Held, Listed
  <2>2. PICK i \in Held(order, s) : \A j \in Held(order, s) : i <= j
    BY <2>1, Least
  <2>3. i \in 1 .. Len(order) /\ order[i] = s
    BY <1>1 DEF Held
  <2>4. ASSUME NEW j \in 1 .. i - 1 PROVE order[j] # s
    <3>1. j \in DOMAIN order /\ ~(i <= j)
      BY <1>1, <2>3
    <3> QED BY <2>2, <3>1 DEF Held
  <2> QED BY <1>1, <2>3, <2>4
<1>3. k \in 1 .. Len(order) /\ order[k] = s
  BY <1>1, <1>2
<1>4. Without(s) = SubSeq(order, 1, k - 1) \o SubSeq(order, k + 1, Len(order))
  BY DEF Without
<1> HIDE DEF k
<1>5. /\ Without(s) \in Seq(S)
      /\ HowOften(Without(s), v) = HowOften(order, v) - (IF s = v THEN 1 ELSE 0)
  BY <1>3, <1>4, RemovalCounts
<1>6. HowOften(order, s) > 0
  <2>1. HowOften(order, s) \in Nat /\ HowOften(order, s) # 0
    BY <1>1, <1>3, HowOftenIsNumber
  <2> QED BY <2>1
<1> QED BY <1>5, <1>6

-----------------------------------------------------------------------------
(* The inductive invariant.                                                *)

Revivers(s) == {r \in Requests : request[r].at = "remove" /\ request[r].sid = s}

\* Somebody has taken s out of the list, to delete it next.
Removing(s) ==
  \/ \E r \in Requests : request[r].at = "delete" /\ request[r].sid = s
  \/ expiry.at = "delete" /\ expiry.sid = s

IsNew(s) == \E r \in Requests : request[r].at = "list" /\ request[r].sid = s

\* A session is in the list once, and once more for every request that revives
\* it; at most for every such request if it is gone or is being removed.
ListedRightly(s) ==
  /\ s \in table /\ ~Removing(s) /\ ~IsNew(s) =>
       HowOften(order, s) = 1 + Cardinality(Revivers(s))
  /\ s \notin table \/ Removing(s) =>
       HowOften(order, s) <= Cardinality(Revivers(s))

\* Nobody else knows a session that is being created.
OnlyCreator(r) ==
  request[r].at = "list" =>
    /\ HowOften(order, request[r].sid) = 0
    /\ request[r].sid \in table /\ expiry.sid # request[r].sid
    /\ \A q \in Requests \ {r} : request[q].sid # request[r].sid

HasSession(r) == request[r].at # "idle" => request[r].sid \in 1 .. issued

ExpiryHasSession ==
  expiry.at \in {"check", "unlist", "delete"} => expiry.sid \in 1 .. issued

OverdueIsOld ==
  \A s \in overdue : s \in 1 .. issued /\ age[s] > Timeout + Revive

\* An access that is not recorded is at most Revive later than the last one.
IdleAsOld == \A s \in Sids : idleFor[s] >= age[s] - Revive

SInv ==
  /\ SessionsTypeOK
  /\ \A r \in Requests : HasSession(r) /\ OnlyCreator(r)
  /\ \A s \in 1 .. issued : ListedRightly(s)
  /\ ExpiryHasSession /\ OverdueIsOld /\ IdleAsOld
-----------------------------------------------------------------------------
Steps == {"idle", "list", "append", "remove", "touch", "serve", "unlist", "delete"}

LEMMA TypedFacts ==
  ASSUME SessionsTypeOK
  PROVE  /\ issued \in Nat /\ issued <= MaxSessions
         /\ 1 .. issued \subseteq Sids /\ NoSid \notin 1 .. issued
         /\ request \in [Requests -> [at : Steps, sid : 0 .. issued]]
         /\ MaxAge \in Nat /\ Timeout \in Nat /\ Revive \in Nat
BY SessionsAssumption DEF SessionsTypeOK, Steps, Sids, NoSid, MaxAge

LEMMA SInvInit == SessionsInit => SInv
<1> SUFFICES ASSUME SessionsInit PROVE SInv
  OBVIOUS
<1> USE SessionsAssumption
<1>1. /\ issued = 0 /\ table = {} /\ order = <<>> /\ overdue = {}
      /\ age = [s \in Sids |-> 0] /\ idleFor = [s \in Sids |-> 0]
      /\ request = [r \in Requests |-> [at |-> "idle", sid |-> NoSid]]
      /\ expiry = Asleep
  BY DEF SessionsInit
<1>2. SessionsTypeOK
  <2>1. order \in Seq(1 .. issued)
    BY <1>1
  <2>2. expiry \in [at : {"asleep", "next", "check", "unlist", "delete", "dead"},
                    i : Nat, sid : 0 .. issued]
    BY <1>1 DEF Asleep, NoSid
  <2>3. MaxAge \in Nat
    BY DEF MaxAge
  <2>4. age \in [Sids -> 0 .. MaxAge] /\ idleFor \in [Sids -> 0 .. MaxAge]
    BY <1>1, <2>3
  <2>5. request \in
       [Requests -> [at : {"idle", "list", "append", "remove", "touch", "serve",
                           "unlist", "delete"},
                     sid : 0 .. issued]]
    BY <1>1 DEF NoSid
  <2> QED BY <1>1, <2>1, <2>2, <2>4, <2>5 DEF SessionsTypeOK
<1>3. \A r \in Requests : HasSession(r) /\ OnlyCreator(r)
  BY <1>1 DEF HasSession, OnlyCreator
<1>4. \A s \in 1 .. issued : ListedRightly(s)
  BY <1>1
<1>5. ExpiryHasSession /\ OverdueIsOld
  BY <1>1 DEF ExpiryHasSession, OverdueIsOld, Asleep
<1>6. IdleAsOld
  BY <1>1 DEF IdleAsOld
<1> QED BY <1>2, <1>3, <1>4, <1>5, <1>6 DEF SInv

\* How the step of one request changes the number of those that revive s.
LEMMA ReviversOne ==
  ASSUME NEW r \in Requests, NEW s,
         \A q \in Requests \ {r} : request'[q] = request[q]
  PROVE  /\ Cardinality(Revivers(s)) \in Nat /\ Cardinality(Revivers(s))' \in Nat
         /\ Cardinality(Revivers(s))' =
              Cardinality(Revivers(s))
                - (IF request[r].at = "remove" /\ request[r].sid = s THEN 1 ELSE 0)
                + (IF request'[r].at = "remove" /\ request'[r].sid = s
                   THEN 1 ELSE 0)
<1>1. PICK A : A = Revivers(s)
  OBVIOUS
<1>2. PICK B : B = Revivers(s)'
  OBVIOUS
<1>3. IsFiniteSet(A) /\ IsFiniteSet(B)
  <2>1. A \subseteq Requests /\ B \subseteq Requests
    BY <1>1, <1>2 DEF Revivers
  <2> QED BY <2>1, SessionsAssumption, FS_Subset
<1>4. Cardinality(A) \in Nat /\ Cardinality(B) \in Nat
  BY <1>3, FS_CardinalityType
<1>5. A \ {r} = B \ {r}
  BY <1>1, <1>2 DEF Revivers
<1>6. IsFiniteSet(A \ {r}) /\ Cardinality(A \ {r}) = Cardinality(B \ {r})
  BY <1>3, <1>5, FS_Subset
<1>7. Cardinality(A \ {r}) = Cardinality(A) - (IF r \in A THEN 1 ELSE 0)
  <2>1. CASE r \in A
    BY <1>3, <2>1, FS_RemoveElement
  <2>2. CASE r \notin A
    <3>1. A \ {r} = A
      BY <2>2
    <3> QED BY <1>4, <2>2, <3>1
  <2> QED BY <2>1, <2>2
<1>8. Cardinality(B \ {r}) = Cardinality(B) - (IF r \in B THEN 1 ELSE 0)
  <2>1. CASE r \in B
    BY <1>3, <2>1, FS_RemoveElement
  <2>2. CASE r \notin B
    <3>1. B \ {r} = B
      BY <2>2
    <3> QED BY <1>4, <2>2, <3>1
  <2> QED BY <2>1, <2>2
<1>9. /\ r \in A <=> request[r].at = "remove" /\ request[r].sid = s
      /\ r \in B <=> request'[r].at = "remove" /\ request'[r].sid = s
  BY <1>1, <1>2 DEF Revivers
<1>10. Cardinality(B) =
         Cardinality(A) - (IF r \in A THEN 1 ELSE 0) + (IF r \in B THEN 1 ELSE 0)
  BY <1>4, <1>6, <1>7, <1>8
<1> QED BY <1>1, <1>2, <1>4, <1>9, <1>10

MovesTo(r, at, sid) ==
  /\ request'[r].at = at /\ request'[r].sid = sid
  /\ \A q \in Requests \ {r} : request'[q] = request[q]
  /\ request' \in [Requests -> [at : Steps, sid : 0 .. issued]]

LEMMA Moves ==
  ASSUME SessionsTypeOK, NEW r \in Requests
  PROVE  /\ \A at \in Steps : Goes(r, at) => MovesTo(r, at, request[r].sid)
         /\ Ends(r) => MovesTo(r, "idle", NoSid)
         /\ \A at \in Steps, sid \in 0 .. issued :
              request' = [request EXCEPT ![r] = [at |-> at, sid |-> sid]]
                => MovesTo(r, at, sid)
<1>1. /\ issued \in Nat
      /\ request \in [Requests -> [at : Steps, sid : 0 .. issued]]
  BY TypedFacts
<1>2. ASSUME NEW at \in Steps, Goes(r, at)
      PROVE  MovesTo(r, at, request[r].sid)
  BY <1>1, <1>2 DEF Goes, MovesTo
<1>3. ASSUME NEW at \in Steps, NEW sid \in 0 .. issued,
             request' = [request EXCEPT ![r] = [at |-> at, sid |-> sid]]
      PROVE  MovesTo(r, at, sid)
  BY <1>1, <1>3 DEF MovesTo
<1>4. "idle" \in Steps /\ NoSid \in 0 .. issued
  BY <1>1 DEF Steps, NoSid
<1> QED BY <1>2, <1>3, <1>4 DEF Ends

\* What is known of a request that is under way with a session.
LEMMA HasItsSession ==
  ASSUME SInv, NEW r \in Requests, request[r].at # "idle"
  PROVE  /\ request[r].sid \in 1 .. issued /\ ListedRightly(request[r].sid)
         /\ \A q \in Requests \ {r} :
              request[q].at = "list" => request[q].sid # request[r].sid
         /\ SessionsTypeOK /\ IdleAsOld /\ issued \in Nat
         /\ 1 .. issued \subseteq Sids
BY TypedFacts DEF SInv, HasSession, OnlyCreator

\* A step of the request r with the session s.
LEMMA RequestKeeps ==
  ASSUME SInv, NEW r \in Requests, NEW at \in Steps, at # "list",
         NEW sid \in 0 .. issued, at # "idle" => sid \in 1 .. issued,
         MovesTo(r, at, sid),
         NEW s \in 1 .. issued, sid \in {s, NoSid},
         request[r].sid \in {s, NoSid} \/ request[r].at = "idle",
         \A q \in Requests \ {r} :
           request[q].at = "list" => request[q].sid # s,
         issued' = issued, expiry' = expiry,
         order' \in Seq(1 .. issued),
         \A v \in 1 .. issued : v # s => HowOften(order', v) = HowOften(order, v),
         table' \subseteq 1 .. issued,
         \A v \in 1 .. issued : v # s => (v \in table' <=> v \in table),
         age' \in [Sids -> 0 .. MaxAge], idleFor' \in [Sids -> 0 .. MaxAge],
         overdue' \subseteq overdue, \A v \in overdue' : age'[v] = age[v],
         IdleAsOld',
         ListedRightly(s)'
  PROVE  SInv'
<1>0. /\ SessionsTypeOK /\ \A q \in Requests : HasSession(q) /\ OnlyCreator(q)
      /\ \A v \in 1 .. issued : ListedRightly(v)
      /\ ExpiryHasSession /\ OverdueIsOld
      /\ issued \in Nat /\ NoSid \notin 1 .. issued
      /\ request \in [Requests -> [at : Steps, sid : 0 .. issued]]
  BY TypedFacts DEF SInv
<1>1. /\ request'[r].at = at /\ request'[r].sid = sid
      /\ \A q \in Requests \ {r} : request'[q] = request[q]
      /\ request' \in [Requests -> [at : Steps, sid : 0 .. issued]]
  BY DEF MovesTo
<1>2. SessionsTypeOK'
  <2>1. overdue' \subseteq Sids
    BY <1>0 DEF SessionsTypeOK
  <2> QED BY <1>0, <1>1, <2>1 DEF SessionsTypeOK, Steps
<1>3. ASSUME NEW q \in Requests PROVE HasSession(q)'
  BY <1>0, <1>1 DEF HasSession
<1>4. ASSUME NEW q \in Requests PROVE OnlyCreator(q)'
  <2> SUFFICES ASSUME request'[q].at = "list" PROVE OnlyCreator(q)'
    BY DEF OnlyCreator
  <2>1. q # r /\ request'[q] = request[q] /\ request[q].at = "list"
    BY <1>1
  <2>2. PICK v : v = request[q].sid
    OBVIOUS
  <2>3. /\ v \in 1 .. issued /\ v # s
        /\ HowOften(order, v) = 0 /\ v \in table /\ expiry.sid # v
        /\ \A p \in Requests \ {q} : request[p].sid # v
    BY <1>0, <2>1, <2>2 DEF OnlyCreator, HasSession
  <2>4. /\ HowOften(order', v) = 0 /\ v \in table' /\ expiry'.sid # v
    BY <2>3
  <2>5. \A p \in Requests \ {q} : request'[p].sid # v
    BY <1>0, <1>1, <2>3
  <2> QED BY <2>1, <2>2, <2>4, <2>5 DEF OnlyCreator
<1>5. ASSUME NEW v \in 1 .. issued, v # s PROVE ListedRightly(v)'
  <2>1. \A q \in Requests \ {r} : request'[q] = request[q]
    BY <1>1
  <2>2. /\ request'[r].sid # v
        /\ ~(request[r].at \in {"remove", "delete", "list"} /\ request[r].sid = v)
    BY <1>0, <1>1, <1>5
  <2>3. /\ Cardinality(Revivers(v)) \in Nat
        /\ Cardinality(Revivers(v))' =
              Cardinality(Revivers(v))
                - (IF request[r].at = "remove" /\ request[r].sid = v THEN 1 ELSE 0)
                + (IF request'[r].at = "remove" /\ request'[r].sid = v
                   THEN 1 ELSE 0)
    BY <2>1, ReviversOne
  <2>4. Cardinality(Revivers(v))' = Cardinality(Revivers(v))
    BY <2>2, <2>3
  <2>5. Removing(v)' <=> Removing(v)
    BY <2>1, <2>2 DEF Removing
  <2>6. IsNew(v)' <=> IsNew(v)
    BY <2>1, <2>2 DEF IsNew
  <2>7. HowOften(order', v) = HowOften(order, v) /\ (v \in table' <=> v \in table)
    BY <1>5
  <2>8. ListedRightly(v)
    BY <1>0
  <2> QED BY <2>4, <2>5, <2>6, <2>7, <2>8 DEF ListedRightly
<1>6. ExpiryHasSession' /\ OverdueIsOld'
  BY <1>0 DEF ExpiryHasSession, OverdueIsOld
<1>7. \A v \in 1 .. issued' : ListedRightly(v)'
  BY <1>5
<1> QED BY <1>2, <1>3, <1>4, <1>6, <1>7 DEF SInv

\* A step that leaves the dictionary and the times alone.
LEMMA OrderKeeps ==
  ASSUME SInv, NEW r \in Requests, NEW s \in 1 .. issued,
         request[r].sid = s, request[r].at # "idle",
         NEW at \in Steps, at # "list", NEW sid, MovesTo(r, at, sid),
         sid = s \/ (at = "idle" /\ sid = NoSid),
         issued' = issued, table' = table, age' = age, idleFor' = idleFor,
         expiry' = expiry, overdue' = overdue,
         order' \in Seq(1 .. issued),
         \A v : v # s => HowOften(order', v) = HowOften(order, v),
         ListedRightly(s)'
  PROVE  SInv'
<1>1. /\ SessionsTypeOK /\ IdleAsOld /\ issued \in Nat
      /\ \A q \in Requests \ {r} : request[q].at = "list" => request[q].sid # s
  BY HasItsSession
<1>2. /\ table \subseteq 1 .. issued
      /\ age \in [Sids -> 0 .. MaxAge] /\ idleFor \in [Sids -> 0 .. MaxAge]
  BY <1>1 DEF SessionsTypeOK
<1>3. IdleAsOld'
  BY <1>1 DEF IdleAsOld
<1>4. /\ sid \in 0 .. issued /\ sid \in {s, NoSid}
      /\ at # "idle" => sid \in 1 .. issued
  <2>1. NoSid \in 0 .. issued /\ s \in 0 .. issued
    BY <1>1 DEF NoSid
  <2> QED BY <2>1
<1>5. /\ table' \subseteq 1 .. issued
      /\ age' \in [Sids -> 0 .. MaxAge] /\ idleFor' \in [Sids -> 0 .. MaxAge]
      /\ \A v \in 1 .. issued : v # s => (v \in table' <=> v \in table)
      /\ overdue' \subseteq overdue /\ \A v \in overdue' : age'[v] = age[v]
      /\ request[r].sid \in {s, NoSid} \/ request[r].at = "idle"
      /\ \A v \in 1 .. issued : v # s => HowOften(order', v) = HowOften(order, v)
  BY <1>2
<1> QED BY <1>1, <1>3, <1>4, <1>5, RequestKeeps

LEMMA ListSessionStep ==
  ASSUME SInv, NEW r \in Requests, ListSession(r) PROVE SInv'
<1>0. /\ request[r].at = "list" /\ Goes(r, "serve")
      /\ order' = Append(order, request[r].sid)
      /\ issued' = issued /\ table' = table /\ age' = age /\ idleFor' = idleFor
      /\ expiry' = expiry /\ overdue' = overdue
  BY DEF ListSession
<1>s. PICK s : s = request[r].sid
  OBVIOUS
<1>1. /\ s \in 1 .. issued /\ SessionsTypeOK /\ IdleAsOld
      /\ \A q \in Requests \ {r} : request[q].at = "list" => request[q].sid # s
  BY <1>s, <1>0, HasItsSession
<1>2. MovesTo(r, "serve", s) /\ "serve" \in Steps
  BY <1>s, <1>0, <1>1, Moves DEF Steps
<1>3. /\ order \in Seq(1 .. issued) /\ table \subseteq 1 .. issued
      /\ age \in [Sids -> 0 .. MaxAge] /\ idleFor \in [Sids -> 0 .. MaxAge]
  BY <1>1 DEF SessionsTypeOK
<1>4. /\ order' \in Seq(1 .. issued)
      /\ \A v : HowOften(order', v) = HowOften(order, v) + (IF v = s THEN 1 ELSE 0)
  <2>1. order' = Append(order, s)
    BY <1>s, <1>0
  <2>2. PICK S : S = 1 .. issued
    OBVIOUS
  <2>3. order \in Seq(S) /\ s \in S
    BY <1>1, <1>3, <2>2
  <2>4. Append(order, s) \in Seq(S)
    BY <2>3, AppendCounts
  <2>5. ASSUME NEW v
        PROVE  HowOften(Append(order, s), v) =
                 HowOften(order, v) + (IF v = s THEN 1 ELSE 0)
    BY <2>3, AppendCounts
  <2> QED BY <2>1, <2>2, <2>4, <2>5
<1>5. \A v : HowOften(order, v) \in Nat
  BY <1>3, HowOftenIsNumber
<1>6. \A v : v # s => HowOften(order', v) = HowOften(order, v)
  BY <1>4, <1>5
<1>7. /\ HowOften(order, s) = 0 /\ s \in table /\ expiry.sid # s
      /\ \A q \in Requests \ {r} : request[q].sid # s
  BY <1>s, <1>0 DEF SInv, OnlyCreator
<1>8. ListedRightly(s)'
  <2>1. Revivers(s)' = {}
    BY <1>2, <1>7 DEF Revivers, MovesTo
  <2>2. Cardinality(Revivers(s))' = 0
    BY <2>1, FS_EmptySet
  <2>3. ~Removing(s)' /\ s \in table'
    BY <1>0, <1>2, <1>7 DEF Removing, MovesTo
  <2>4. HowOften(order', s) = 1
    BY <1>4, <1>7
  <2> QED BY <2>2, <2>3, <2>4 DEF ListedRightly
<1> QED BY <1>s, <1>0, <1>1, <1>2, <1>4, <1>6, <1>8, OrderKeeps

LEMMA ReviveAppendStep ==
  ASSUME SInv, NEW r \in Requests, ReviveAppend(r) PROVE SInv'
<1>0. /\ request[r].at = "append" /\ Goes(r, "remove")
      /\ order' = Append(order, request[r].sid)
      /\ issued' = issued /\ table' = table /\ age' = age /\ idleFor' = idleFor
      /\ expiry' = expiry /\ overdue' = overdue
  BY DEF ReviveAppend
<1>s. PICK s : s = request[r].sid
  OBVIOUS
<1>1. /\ s \in 1 .. issued /\ SessionsTypeOK /\ IdleAsOld /\ ListedRightly(s)
      /\ \A q \in Requests \ {r} : request[q].at = "list" => request[q].sid # s
  BY <1>s, <1>0, HasItsSession
<1>2. MovesTo(r, "remove", s) /\ "remove" \in Steps
  BY <1>s, <1>0, <1>1, Moves DEF Steps
<1>3. /\ order \in Seq(1 .. issued) /\ table \subseteq 1 .. issued
      /\ age \in [Sids -> 0 .. MaxAge] /\ idleFor \in [Sids -> 0 .. MaxAge]
  BY <1>1 DEF SessionsTypeOK
<1>4. /\ order' \in Seq(1 .. issued)
      /\ \A v : HowOften(order', v) = HowOften(order, v) + (IF v = s THEN 1 ELSE 0)
  <2>1. order' = Append(order, s)
    BY <1>s, <1>0
  <2>2. PICK S : S = 1 .. issued
    OBVIOUS
  <2>3. order \in Seq(S) /\ s \in S
    BY <1>1, <1>3, <2>2
  <2>4. Append(order, s) \in Seq(S)
    BY <2>3, AppendCounts
  <2>5. ASSUME NEW v
        PROVE  HowOften(Append(order, s), v) =
                 HowOften(order, v) + (IF v = s THEN 1 ELSE 0)
    BY <2>3, AppendCounts
  <2> QED BY <2>1, <2>2, <2>4, <2>5
<1>5. \A v : HowOften(order, v) \in Nat
  BY <1>3, HowOftenIsNumber
<1>6. \A v : v # s => HowOften(order', v) = HowOften(order, v)
  BY <1>4, <1>5
<1>8. ListedRightly(s)'
  <2>1. /\ Cardinality(Revivers(s)) \in Nat
        /\ Cardinality(Revivers(s))' =
              Cardinality(Revivers(s))
                - (IF request[r].at = "remove" /\ request[r].sid = s THEN 1 ELSE 0)
                + (IF request'[r].at = "remove" /\ request'[r].sid = s
                   THEN 1 ELSE 0)
    BY <1>2, ReviversOne DEF MovesTo
  <2>2. Cardinality(Revivers(s))' = Cardinality(Revivers(s)) + 1
    BY <1>0, <1>2, <2>1 DEF MovesTo
  <2>3. (Removing(s)' <=> Removing(s)) /\ (IsNew(s)' <=> IsNew(s))
    BY <1>0, <1>2 DEF Removing, IsNew, MovesTo
  <2>4. HowOften(order', s) = HowOften(order, s) + 1
    BY <1>4
  <2> QED BY <1>0, <1>1, <1>5, <2>1, <2>2, <2>3, <2>4 DEF ListedRightly
<1> QED BY <1>s, <1>0, <1>1, <1>2, <1>4, <1>6, <1>8, OrderKeeps

LEMMA ReviveRemoveStep ==
  ASSUME SInv, NEW r \in Requests, ReviveRemove(r) PROVE SInv'
<1>s. PICK s : s = request[r].sid
  OBVIOUS
<1>0. /\ request[r].at = "remove"
      /\ issued' = issued /\ table' = table /\ age' = age /\ idleFor' = idleFor
      /\ expiry' = expiry /\ overdue' = overdue
      /\ \/ Listed(s) /\ order' = Without(s) /\ Goes(r, "touch")
         \/ ~Listed(s) /\ Ends(r) /\ order' = order
  BY <1>s DEF ReviveRemove
<1>1. /\ s \in 1 .. issued /\ SessionsTypeOK /\ IdleAsOld /\ ListedRightly(s)
      /\ issued \in Nat
      /\ \A q \in Requests \ {r} : request[q].at = "list" => request[q].sid # s
  BY <1>s, <1>0, HasItsSession
<1>3. /\ order \in Seq(1 .. issued) /\ table \subseteq 1 .. issued
      /\ age \in [Sids -> 0 .. MaxAge] /\ idleFor \in [Sids -> 0 .. MaxAge]
  BY <1>1 DEF SessionsTypeOK
<1>5. \A v : HowOften(order, v) \in Nat
  BY <1>3, HowOftenIsNumber
<1>10. ASSUME NEW at \in {"touch", "idle"}, NEW sid \in {s, NoSid},
              MovesTo(r, at, sid)
       PROVE  /\ Cardinality(Revivers(s)) \in Nat /\ Cardinality(Revivers(s))' \in Nat
              /\ Cardinality(Revivers(s))' = Cardinality(Revivers(s)) - 1
              /\ Removing(s)' <=> Removing(s)
              /\ IsNew(s)' <=> IsNew(s)
  <2>1. /\ Cardinality(Revivers(s)) \in Nat /\ Cardinality(Revivers(s))' \in Nat
        /\ Cardinality(Revivers(s))' =
              Cardinality(Revivers(s))
                - (IF request[r].at = "remove" /\ request[r].sid = s THEN 1 ELSE 0)
                + (IF request'[r].at = "remove" /\ request'[r].sid = s
                   THEN 1 ELSE 0)
    BY <1>10, ReviversOne DEF MovesTo
  <2>2. request'[r].at # "remove"
    BY <1>10 DEF MovesTo
  <2>3. Cardinality(Revivers(s))' = Cardinality(Revivers(s)) - 1
    BY <1>0, <1>s, <2>1, <2>2
  <2>4. (Removing(s)' <=> Removing(s)) /\ (IsNew(s)' <=> IsNew(s))
    BY <1>0, <1>10 DEF Removing, IsNew, MovesTo
  <2> QED BY <2>1, <2>3, <2>4
<1>11. CASE Listed(s) /\ order' = Without(s) /\ Goes(r, "touch")
  <2>1. MovesTo(r, "touch", s) /\ "touch" \in Steps
    BY <1>s, <1>11, <1>1, Moves DEF Steps
  <2>2. /\ order' \in Seq(1 .. issued)
        /\ \A v : HowOften(order', v) = HowOften(order, v) - (IF v = s THEN 1 ELSE 0)
    BY <1>3, <1>11, WithoutCounts
  <2>3. \A v : v # s => HowOften(order', v) = HowOften(order, v)
    BY <1>5, <2>2
  <2>4. ListedRightly(s)'
    <3>1. HowOften(order', s) = HowOften(order, s) - 1
      BY <2>2
    <3>2. /\ Cardinality(Revivers(s)) \in Nat
          /\ Cardinality(Revivers(s))' = Cardinality(Revivers(s)) - 1
          /\ Removing(s)' <=> Removing(s)
          /\ IsNew(s)' <=> IsNew(s)
      BY <1>10, <2>1
    <3> QED BY <1>0, <1>1, <1>5, <3>1, <3>2 DEF ListedRightly
  <2> QED BY <1>s, <1>0, <1>1, <2>1, <2>2, <2>3, <2>4, OrderKeeps
<1>12. CASE ~Listed(s) /\ Ends(r) /\ order' = order
  <2>1. MovesTo(r, "idle", NoSid) /\ "idle" \in Steps /\ NoSid \in 0 .. issued
    BY <1>12, <1>1, Moves DEF Steps, NoSid
  <2>2. HowOften(order, s) = 0
    BY <1>3, <1>12, HowOftenIsNumber DEF Listed
  <2>3. ListedRightly(s)'
    <3>2. /\ Cardinality(Revivers(s)) \in Nat /\ Cardinality(Revivers(s))' \in Nat
          /\ Cardinality(Revivers(s))' = Cardinality(Revivers(s)) - 1
          /\ Removing(s)' <=> Removing(s)
          /\ IsNew(s)' <=> IsNew(s)
      BY <1>10, <2>1
    <3>3. HowOften(order', s) = 0
      BY <1>12, <2>2
    <3> QED BY <1>0, <1>1, <2>2, <3>2, <3>3 DEF ListedRightly
  <2>4. \A v : v # s => HowOften(order', v) = HowOften(order, v)
    BY <1>12
  <2> QED BY <1>s, <1>0, <1>1, <1>3, <1>12, <2>1, <2>3, <2>4, OrderKeeps
<1> QED BY <1>0, <1>11, <1>12

\* A step before or after which nobody revives or removes a session by it.
LEMMA QuietListed ==
  ASSUME SessionsTypeOK, NEW r \in Requests, NEW s, ListedRightly(s),
         NEW at, NEW sid, MovesTo(r, at, sid),
         request[r].at \notin {"remove", "delete", "list"},
         at \notin {"remove", "delete", "list"},
         HowOften(order', s) = HowOften(order, s),
         table' = table, expiry' = expiry
  PROVE  ListedRightly(s)'
<1>1. /\ Cardinality(Revivers(s)) \in Nat
      /\ Cardinality(Revivers(s))' =
            Cardinality(Revivers(s))
              - (IF request[r].at = "remove" /\ request[r].sid = s THEN 1 ELSE 0)
              + (IF request'[r].at = "remove" /\ request'[r].sid = s
                 THEN 1 ELSE 0)
  BY ReviversOne DEF MovesTo
<1>2. Cardinality(Revivers(s))' = Cardinality(Revivers(s))
  BY <1>1 DEF MovesTo
<1>3. (Removing(s)' <=> Removing(s)) /\ (IsNew(s)' <=> IsNew(s))
  BY DEF Removing, IsNew, MovesTo
<1> QED BY <1>2, <1>3 DEF ListedRightly

LEMMA QuietStep ==
  ASSUME SInv, NEW r \in Requests, Serve(r) \/ Logout(r) PROVE SInv'
<1>0. /\ request[r].at = "serve" /\ (Ends(r) \/ Goes(r, "unlist"))
      /\ issued' = issued /\ table' = table /\ age' = age /\ idleFor' = idleFor
      /\ expiry' = expiry /\ overdue' = overdue /\ order' = order
  BY DEF Serve, Logout
<1>s. PICK s : s = request[r].sid
  OBVIOUS
<1>1. s \in 1 .. issued /\ SessionsTypeOK /\ ListedRightly(s)
  BY <1>s, <1>0, HasItsSession
<1>2. PICK at, sid :
        /\ at \in {"idle", "unlist"} /\ MovesTo(r, at, sid)
        /\ sid = s \/ (at = "idle" /\ sid = NoSid)
  <2>1. "idle" \in Steps /\ "unlist" \in Steps
    BY DEF Steps
  <2>2. Ends(r) => MovesTo(r, "idle", NoSid)
    BY <1>1, Moves
  <2>3. Goes(r, "unlist") => MovesTo(r, "unlist", s)
    BY <1>1, <1>s, <2>1, Moves
  <2> QED BY <1>0, <2>2, <2>3
<1>3. at \in Steps /\ at # "list"
  BY <1>2 DEF Steps
<1>4. ListedRightly(s)'
  <2>1. HowOften(order', s) = HowOften(order, s)
    BY <1>0
  <2>2. /\ request[r].at \notin {"remove", "delete", "list"}
        /\ at \notin {"remove", "delete", "list"}
    BY <1>0, <1>2
  <2> QED BY <1>0, <1>1, <1>2, <2>1, <2>2, QuietListed
<1>5. /\ order' \in Seq(1 .. issued)
      /\ \A v : v # s => HowOften(order', v) = HowOften(order, v)
  BY <1>0, <1>1 DEF SessionsTypeOK
<1> QED BY <1>s, <1>0, <1>1, <1>2, <1>3, <1>4, <1>5, OrderKeeps

LEMMA UnlistStep ==
  ASSUME SInv, NEW r \in Requests, Unlist(r) PROVE SInv'
<1>s. PICK s : s = request[r].sid
  OBVIOUS
<1>0. /\ request[r].at = "unlist"
      /\ issued' = issued /\ table' = table /\ age' = age /\ idleFor' = idleFor
      /\ expiry' = expiry /\ overdue' = overdue
      /\ \/ Listed(s) /\ order' = Without(s) /\ Goes(r, "delete")
         \/ ~Listed(s) /\ Ends(r) /\ order' = order
  BY <1>s DEF Unlist
<1>1. s \in 1 .. issued /\ SessionsTypeOK /\ ListedRightly(s)
  BY <1>s, <1>0, HasItsSession
<1>2. order \in Seq(1 .. issued)
  BY <1>1 DEF SessionsTypeOK
<1>3. \A v : HowOften(order, v) \in Nat
  BY <1>2, HowOftenIsNumber
<1>4. CASE Listed(s) /\ order' = Without(s) /\ Goes(r, "delete")
  <2>1. MovesTo(r, "delete", s) /\ "delete" \in Steps
    BY <1>s, <1>4, <1>1, Moves DEF Steps
  <2>2. /\ order' \in Seq(1 .. issued)
        /\ \A v : HowOften(order', v) = HowOften(order, v) - (IF v = s THEN 1 ELSE 0)
    BY <1>2, <1>4, WithoutCounts
  <2>3. \A v : v # s => HowOften(order', v) = HowOften(order, v)
    BY <1>3, <2>2
  <2>4. ListedRightly(s)'
    <3>1. /\ Cardinality(Revivers(s)) \in Nat
          /\ Cardinality(Revivers(s))' =
                Cardinality(Revivers(s))
                  - (IF request[r].at = "remove" /\ request[r].sid = s THEN 1 ELSE 0)
                  + (IF request'[r].at = "remove" /\ request'[r].sid = s
                     THEN 1 ELSE 0)
      BY <2>1, ReviversOne DEF MovesTo
    <3>2. Cardinality(Revivers(s))' = Cardinality(Revivers(s))
      BY <1>0, <2>1, <3>1 DEF MovesTo
    <3>3. Removing(s)' /\ (IsNew(s)' <=> IsNew(s))
      BY <1>0, <2>1 DEF Removing, IsNew, MovesTo
    <3>4. HowOften(order', s) = HowOften(order, s) - 1
      BY <2>2
    <3>5. ~IsNew(s)
      BY <1>s, <1>0 DEF SInv, OnlyCreator, IsNew
    <3> QED BY <1>0, <1>1, <1>3, <3>1, <3>2, <3>3, <3>4, <3>5 DEF ListedRightly
  <2> QED BY <1>s, <1>0, <1>1, <2>1, <2>2, <2>3, <2>4, OrderKeeps
<1>5. CASE ~Listed(s) /\ Ends(r) /\ order' = order
  <2>1. MovesTo(r, "idle", NoSid) /\ "idle" \in Steps
    BY <1>5, <1>1, Moves DEF Steps
  <2>2. ListedRightly(s)'
    <3>1. HowOften(order', s) = HowOften(order, s)
      BY <1>5
    <3>2. request[r].at \notin {"remove", "delete", "list"}
      BY <1>0
    <3> QED BY <1>0, <1>1, <2>1, <3>1, <3>2, QuietListed
  <2>3. /\ order' \in Seq(1 .. issued)
        /\ \A v : v # s => HowOften(order', v) = HowOften(order, v)
    BY <1>2, <1>5
  <2> QED BY <1>s, <1>0, <1>1, <2>1, <2>2, <2>3, OrderKeeps
<1> QED BY <1>0, <1>4, <1>5

LEMMA UnmapStep ==
  ASSUME SInv, NEW r \in Requests, Unmap(r) PROVE SInv'
<1>s. PICK s : s = request[r].sid
  OBVIOUS
<1>0. /\ request[r].at = "delete" /\ table' = table \ {s} /\ Ends(r)
      /\ issued' = issued /\ age' = age /\ idleFor' = idleFor
      /\ expiry' = expiry /\ overdue' = overdue /\ order' = order
  BY <1>s DEF Unmap
<1>1. /\ s \in 1 .. issued /\ SessionsTypeOK /\ ListedRightly(s) /\ IdleAsOld
      /\ issued \in Nat
      /\ \A q \in Requests \ {r} : request[q].at = "list" => request[q].sid # s
  BY <1>s, <1>0, HasItsSession
<1>2. /\ order \in Seq(1 .. issued) /\ table \subseteq 1 .. issued
      /\ age \in [Sids -> 0 .. MaxAge] /\ idleFor \in [Sids -> 0 .. MaxAge]
  BY <1>1 DEF SessionsTypeOK
<1>3. MovesTo(r, "idle", NoSid) /\ "idle" \in Steps
  BY <1>0, <1>1, Moves DEF Steps
<1>4. ListedRightly(s)'
  <2>1. /\ Cardinality(Revivers(s)) \in Nat
        /\ Cardinality(Revivers(s))' =
              Cardinality(Revivers(s))
                - (IF request[r].at = "remove" /\ request[r].sid = s THEN 1 ELSE 0)
                + (IF request'[r].at = "remove" /\ request'[r].sid = s
                   THEN 1 ELSE 0)
    BY <1>3, ReviversOne DEF MovesTo
  <2>2. Cardinality(Revivers(s))' = Cardinality(Revivers(s))
    BY <1>0, <1>3, <2>1 DEF MovesTo
  <2>3. Removing(s)
    BY <1>s, <1>0 DEF Removing
  <2>4. s \notin table' /\ HowOften(order', s) = HowOften(order, s)
    BY <1>0
  <2> QED BY <1>1, <2>2, <2>3, <2>4 DEF ListedRightly
<1>5. IdleAsOld'
  BY <1>0, <1>1 DEF IdleAsOld
<1>6. /\ table' \subseteq 1 .. issued
      /\ age' \in [Sids -> 0 .. MaxAge] /\ idleFor' \in [Sids -> 0 .. MaxAge]
      /\ \A v \in 1 .. issued : v # s => (v \in table' <=> v \in table)
      /\ overdue' \subseteq overdue /\ \A v \in overdue' : age'[v] = age[v]
      /\ request[r].sid \in {s, NoSid} \/ request[r].at = "idle"
      /\ order' \in Seq(1 .. issued)
      /\ \A v \in 1 .. issued : v # s => HowOften(order', v) = HowOften(order, v)
  BY <1>s, <1>0, <1>1, <1>2
<1>7. NoSid \in 0 .. issued /\ NoSid \in {s, NoSid}
  BY <1>1 DEF NoSid
<1> QED BY <1>0, <1>1, <1>3, <1>4, <1>5, <1>6, <1>7, RequestKeeps

LEMMA ReviveTouchStep ==
  ASSUME SInv, NEW r \in Requests, ReviveTouch(r) PROVE SInv'
<1>s. PICK s : s = request[r].sid
  OBVIOUS
<1>0. /\ request[r].at = "touch" /\ Goes(r, "serve")
      /\ age' = [age EXCEPT ![s] = 0] /\ idleFor' = [idleFor EXCEPT ![s] = 0]
      /\ overdue' = overdue \ {s}
      /\ issued' = issued /\ table' = table
      /\ expiry' = expiry /\ order' = order
  BY <1>s DEF ReviveTouch
<1>1. /\ s \in 1 .. issued /\ SessionsTypeOK /\ ListedRightly(s) /\ IdleAsOld
      /\ issued \in Nat /\ s \in Sids
      /\ \A q \in Requests \ {r} : request[q].at = "list" => request[q].sid # s
  BY <1>s, <1>0, HasItsSession
<1>2. /\ order \in Seq(1 .. issued) /\ table \subseteq 1 .. issued
      /\ age \in [Sids -> 0 .. MaxAge] /\ idleFor \in [Sids -> 0 .. MaxAge]
      /\ MaxAge \in Nat /\ Revive \in Nat /\ overdue \subseteq Sids
  BY <1>1, TypedFacts DEF SessionsTypeOK
<1>3. MovesTo(r, "serve", s) /\ "serve" \in Steps
  BY <1>0, <1>1, <1>s, Moves DEF Steps
<1>4. ListedRightly(s)'
  <2>1. HowOften(order', s) = HowOften(order, s)
    BY <1>0
  <2>2. request[r].at \notin {"remove", "delete", "list"}
    BY <1>0
  <2> QED BY <1>0, <1>1, <1>3, <2>1, <2>2, QuietListed
<1>5. /\ age' \in [Sids -> 0 .. MaxAge] /\ idleFor' \in [Sids -> 0 .. MaxAge]
      /\ age'[s] = 0 /\ idleFor'[s] = 0
      /\ \A v \in Sids \ {s} : age'[v] = age[v] /\ idleFor'[v] = idleFor[v]
  BY <1>0, <1>1, <1>2
<1>6. IdleAsOld'
  <2>1. ASSUME NEW v \in Sids PROVE idleFor'[v] >= age'[v] - Revive
    <3>1. CASE v = s
      BY <1>2, <1>5, <3>1
    <3>2. CASE v # s
      BY <1>1, <1>5, <3>2 DEF IdleAsOld
    <3> QED BY <3>1, <3>2
  <2> QED BY <2>1 DEF IdleAsOld
<1>7. /\ table' \subseteq 1 .. issued
      /\ \A v \in 1 .. issued : v # s => (v \in table' <=> v \in table)
      /\ overdue' \subseteq overdue /\ \A v \in overdue' : age'[v] = age[v]
      /\ request[r].sid \in {s, NoSid} \/ request[r].at = "idle"
      /\ order' \in Seq(1 .. issued)
      /\ \A v \in 1 .. issued : v # s => HowOften(order', v) = HowOften(order, v)
      /\ s \in 0 .. issued /\ s \in {s, NoSid}
  BY <1>s, <1>0, <1>1, <1>2, <1>5
<1> QED BY <1>0, <1>1, <1>3, <1>4, <1>5, <1>6, <1>7, RequestKeeps

LEMMA FetchStep ==
  ASSUME SInv, NEW r \in Requests, NEW s \in Sids,
         FetchFresh(r, s) \/ FetchOld(r, s)
  PROVE  SInv'
<1>0. /\ request[r].at = "idle" /\ s \in table \ New
      /\ issued' = issued /\ table' = table /\ order' = order /\ age' = age
      /\ expiry' = expiry /\ overdue' = overdue
      /\ \/ /\ age[s] <= Revive /\ idleFor' = [idleFor EXCEPT ![s] = 0]
            /\ request' = [request EXCEPT ![r] = [at |-> "serve", sid |-> s]]
         \/ /\ idleFor' = idleFor
            /\ request' = [request EXCEPT ![r] = [at |-> "append", sid |-> s]]
  BY DEF FetchFresh, FetchOld
<1>1. SessionsTypeOK /\ IdleAsOld /\ \A v \in 1 .. issued : ListedRightly(v)
  BY DEF SInv
<1>2. /\ order \in Seq(1 .. issued) /\ table \subseteq 1 .. issued /\ issued \in Nat
      /\ age \in [Sids -> 0 .. MaxAge] /\ idleFor \in [Sids -> 0 .. MaxAge]
      /\ MaxAge \in Nat /\ Revive \in Nat
  BY <1>1, TypedFacts DEF SessionsTypeOK
<1>3. /\ s \in 1 .. issued /\ s \in 0 .. issued /\ ListedRightly(s)
      /\ \A q \in Requests \ {r} : request[q].at = "list" => request[q].sid # s
  <2>1. s \in table /\ s \in 1 .. issued /\ s \in 0 .. issued
    BY <1>0, <1>2
  <2>2. ASSUME NEW q \in Requests \ {r}, request[q].at = "list"
        PROVE  request[q].sid # s
    BY <1>0, <2>2 DEF New
  <2> QED BY <1>1, <2>1, <2>2
<1>4. PICK at \in {"serve", "append"} : MovesTo(r, at, s)
  <2>1. "serve" \in Steps /\ "append" \in Steps
    BY DEF Steps
  <2> QED BY <1>0, <1>1, <1>3, <2>1, Moves
<1>5. at \in Steps /\ at # "list" /\ at \notin {"remove", "delete", "list"}
  BY DEF Steps
<1>6. ListedRightly(s)'
  <2>1. HowOften(order', s) = HowOften(order, s)
    BY <1>0
  <2>2. request[r].at \notin {"remove", "delete", "list"}
    BY <1>0
  <2> QED BY <1>0, <1>1, <1>3, <1>4, <1>5, <2>1, <2>2, QuietListed
<1>7. idleFor' \in [Sids -> 0 .. MaxAge] /\ IdleAsOld'
  <2>1. CASE idleFor' = idleFor
    BY <1>0, <1>1, <1>2, <2>1 DEF IdleAsOld
  <2>2. CASE age[s] <= Revive /\ idleFor' = [idleFor EXCEPT ![s] = 0]
    <3>1. /\ idleFor' \in [Sids -> 0 .. MaxAge] /\ idleFor'[s] = 0
          /\ \A v \in Sids \ {s} : idleFor'[v] = idleFor[v]
      BY <1>2, <2>2
    <3>2. ASSUME NEW v \in Sids PROVE idleFor'[v] >= age'[v] - Revive
      <4>1. CASE v = s
        <5>1. age[s] \in 0 .. MaxAge
          BY <1>2
        <5> QED BY <1>0, <1>2, <2>2, <3>1, <4>1, <5>1
      <4>2. CASE v # s
        BY <1>0, <1>1, <3>1, <4>2 DEF IdleAsOld
      <4> QED BY <4>1, <4>2
    <3> QED BY <3>1, <3>2 DEF IdleAsOld
  <2> QED BY <1>0, <2>1, <2>2
<1>8. /\ table' \subseteq 1 .. issued /\ age' \in [Sids -> 0 .. MaxAge]
      /\ \A v \in 1 .. issued : v # s => (v \in table' <=> v \in table)
      /\ overdue' \subseteq overdue /\ \A v \in overdue' : age'[v] = age[v]
      /\ request[r].sid \in {s, NoSid} \/ request[r].at = "idle"
      /\ order' \in Seq(1 .. issued)
      /\ \A v \in 1 .. issued : v # s => HowOften(order', v) = HowOften(order, v)
      /\ s \in {s, NoSid}
  BY <1>0, <1>2
<1> QED BY <1>0, <1>3, <1>4, <1>5, <1>6, <1>7, <1>8, RequestKeeps

LEMMA CreateSessionStep ==
  ASSUME SInv, NEW r \in Requests, CreateSession(r) PROVE SInv'
<1>s. PICK s : s = issued + 1
  OBVIOUS
<1>0. /\ request[r].at = "idle" /\ issued < MaxSessions /\ issued' = s
      /\ table' = table \cup {s}
      /\ age' = [age EXCEPT ![s] = 0] /\ idleFor' = [idleFor EXCEPT ![s] = 0]
      /\ request' = [request EXCEPT ![r] = [at |-> "list", sid |-> s]]
      /\ order' = order /\ expiry' = expiry /\ overdue' = overdue
  BY <1>s DEF CreateSession
<1>1. /\ SessionsTypeOK /\ IdleAsOld /\ OverdueIsOld /\ ExpiryHasSession
      /\ \A v \in 1 .. issued : ListedRightly(v)
      /\ \A q \in Requests : HasSession(q) /\ OnlyCreator(q)
  BY DEF SInv
<1>2. /\ order \in Seq(1 .. issued) /\ table \subseteq 1 .. issued /\ issued \in Nat
      /\ age \in [Sids -> 0 .. MaxAge] /\ idleFor \in [Sids -> 0 .. MaxAge]
      /\ MaxAge \in Nat /\ Revive \in Nat
      /\ request \in [Requests -> [at : Steps, sid : 0 .. issued]]
      /\ expiry \in [at : {"asleep", "next", "check", "unlist", "delete", "dead"},
                     i : Nat, sid : 0 .. issued]
      /\ overdue \subseteq Sids
  BY <1>1, TypedFacts DEF SessionsTypeOK
<1>3. /\ s \in Nat /\ s \notin 0 .. issued /\ s \in Sids /\ s \in 0 .. s
      /\ 1 .. s = (1 .. issued) \cup {s} /\ 0 .. issued \subseteq 0 .. s
      /\ 1 .. issued \subseteq 1 .. s /\ issued' \in 0 .. MaxSessions
  BY <1>s, <1>0, <1>2, SessionsAssumption DEF Sids
<1>4. /\ request'[r].at = "list" /\ request'[r].sid = s
      /\ \A q \in Requests \ {r} : request'[q] = request[q]
      /\ request' \in [Requests -> [at : Steps, sid : 0 .. s]]
  <2>1. "list" \in Steps
    BY DEF Steps
  <2>2. request \in [Requests -> [at : Steps, sid : 0 .. s]]
    BY <1>2, <1>3
  <2> QED BY <1>0, <1>3, <2>1, <2>2
<1>5. /\ age' \in [Sids -> 0 .. MaxAge] /\ idleFor' \in [Sids -> 0 .. MaxAge]
      /\ age'[s] = 0 /\ idleFor'[s] = 0
      /\ \A v \in Sids \ {s} : age'[v] = age[v] /\ idleFor'[v] = idleFor[v]
  BY <1>0, <1>2, <1>3
<1>6. SessionsTypeOK'
  <2>1. order' \in Seq(1 .. issued')
    <3>1. PICK S : S = 1 .. issued
      OBVIOUS
    <3>2. PICK T : T = 1 .. s
      OBVIOUS
    <3>3. order \in Seq(S) /\ S \subseteq T
      BY <1>2, <1>3, <3>1, <3>2
    <3>4. order \in Seq(T)
      BY <3>3
    <3> QED BY <1>0, <3>2, <3>4
  <2>2. expiry' \in [at : {"asleep", "next", "check", "unlist", "delete", "dead"},
                     i : Nat, sid : 0 .. issued']
    BY <1>0, <1>2, <1>3
  <2>3. table' \subseteq 1 .. issued' /\ overdue' \subseteq Sids
    BY <1>0, <1>2, <1>3
  <2> QED BY <1>0, <1>3, <1>4, <1>5, <2>1, <2>2, <2>3 DEF SessionsTypeOK, Steps
<1>7. ASSUME NEW q \in Requests PROVE HasSession(q)'
  BY <1>0, <1>1, <1>3, <1>4 DEF HasSession
<1>8. HowOften(order, s) = 0
  <2>1. \A i \in DOMAIN order : order[i] # s
    BY <1>2, <1>3
  <2> QED BY <1>2, <2>1, HowOftenIsNumber
<1>9. \A q \in Requests : request[q].sid # s /\ expiry.sid # s
  BY <1>2, <1>3
<1>10. ASSUME NEW q \in Requests PROVE OnlyCreator(q)'
  <2>1. CASE q = r
    BY <1>0, <1>4, <1>8, <1>9, <2>1 DEF OnlyCreator
  <2>2. CASE q # r
    <3> SUFFICES ASSUME request'[q].at = "list" PROVE OnlyCreator(q)'
      BY DEF OnlyCreator
    <3>1. request'[q] = request[q] /\ request[q].at = "list"
      BY <1>4, <2>2
    <3>2. PICK v : v = request[q].sid
      OBVIOUS
    <3>3. /\ v \in 1 .. issued /\ v # s
          /\ HowOften(order, v) = 0 /\ v \in table /\ expiry.sid # v
          /\ \A p \in Requests \ {q} : request[p].sid # v
      BY <1>1, <1>9, <3>1, <3>2 DEF OnlyCreator, HasSession
    <3>4. \A p \in Requests \ {q} : request'[p].sid # v
      BY <1>4, <3>3
    <3> QED BY <1>0, <3>1, <3>2, <3>3, <3>4 DEF OnlyCreator
  <2> QED BY <2>1, <2>2
<1>11. ASSUME NEW v \in 1 .. issued PROVE ListedRightly(v)'
  <2>1. /\ Cardinality(Revivers(v)) \in Nat
        /\ Cardinality(Revivers(v))' =
              Cardinality(Revivers(v))
                - (IF request[r].at = "remove" /\ request[r].sid = v THEN 1 ELSE 0)
                + (IF request'[r].at = "remove" /\ request'[r].sid = v
                   THEN 1 ELSE 0)
    BY <1>4, ReviversOne
  <2>2. Cardinality(Revivers(v))' = Cardinality(Revivers(v))
    BY <1>0, <1>4, <2>1
  <2>3. v # s
    BY <1>3
  <2>4. (Removing(v)' <=> Removing(v)) /\ (IsNew(v)' <=> IsNew(v))
    BY <1>0, <1>4, <2>3 DEF Removing, IsNew
  <2>5. HowOften(order', v) = HowOften(order, v) /\ (v \in table' <=> v \in table)
    BY <1>0, <2>3
  <2>6. ListedRightly(v)
    BY <1>1
  <2> QED BY <2>2, <2>4, <2>5, <2>6 DEF ListedRightly
<1>12. ListedRightly(s)'
  <2>1. IsNew(s)' /\ s \in table'
    BY <1>0, <1>4 DEF IsNew
  <2>2. ~Removing(s)'
    BY <1>0, <1>4, <1>9 DEF Removing
  <2> QED BY <2>1, <2>2 DEF ListedRightly
<1>13. ExpiryHasSession'
  BY <1>0, <1>1, <1>3 DEF ExpiryHasSession
<1>14. OverdueIsOld'
  <2>1. ASSUME NEW v \in overdue PROVE v \in 1 .. issued' /\ age'[v] > Timeout + Revive
    <3>1. v \in 1 .. issued /\ age[v] > Timeout + Revive /\ v # s /\ v \in Sids
      BY <1>1, <1>2, <1>3 DEF OverdueIsOld
    <3>2. age'[v] = age[v]
      BY <1>5, <3>1
    <3> QED BY <1>0, <1>3, <3>1, <3>2
  <2> QED BY <1>0, <2>1 DEF OverdueIsOld
<1>15. IdleAsOld'
  <2>1. ASSUME NEW v \in Sids PROVE idleFor'[v] >= age'[v] - Revive
    <3>1. CASE v = s
      BY <1>2, <1>5, <3>1
    <3>2. CASE v # s
      BY <1>1, <1>5, <3>2 DEF IdleAsOld
    <3> QED BY <3>1, <3>2
  <2> QED BY <2>1 DEF IdleAsOld
<1>16. \A v \in 1 .. issued' : ListedRightly(v)'
  BY <1>0, <1>3, <1>11, <1>12
<1> QED BY <1>6, <1>7, <1>10, <1>13, <1>14, <1>15, <1>16 DEF SInv
-----------------------------------------------------------------------------
(* The expiry thread and the time.                                         *)

ExpiryType ==
  [at : {"asleep", "next", "check", "unlist", "delete", "dead"}, i : Nat,
   sid : 0 .. issued]

\* A step of the expiry thread with the session s, if it has one.
LEMMA ExpiryKeeps ==
  ASSUME SInv, NEW s, \A r \in Requests : request[r].at = "list" => request[r].sid # s,
         request' = request, issued' = issued, age' = age, idleFor' = idleFor,
         order' \in Seq(1 .. issued),
         \A v : v # s => HowOften(order', v) = HowOften(order, v),
         table' \subseteq 1 .. issued, \A v : v # s => (v \in table' <=> v \in table),
         expiry' \in ExpiryType, expiry'.sid \in {s, NoSid, expiry.sid},
         ExpiryHasSession', overdue' \subseteq 1 .. issued, OverdueIsOld',
         \A v : v # s => (Removing(v)' <=> Removing(v)),
         s \in 1 .. issued => ListedRightly(s)'
  PROVE  SInv'
<1>0. /\ SessionsTypeOK /\ IdleAsOld /\ OverdueIsOld /\ issued \in Nat
      /\ \A v \in 1 .. issued : ListedRightly(v)
      /\ \A q \in Requests : HasSession(q) /\ OnlyCreator(q)
      /\ 1 .. issued \subseteq Sids /\ NoSid \notin 1 .. issued
  BY TypedFacts DEF SInv
<1>1. SessionsTypeOK'
  <2>1. overdue' \subseteq Sids
    BY <1>0
  <2> QED BY <1>0, <2>1 DEF SessionsTypeOK, ExpiryType
<1>2. ASSUME NEW q \in Requests PROVE HasSession(q)'
  BY <1>0 DEF HasSession
<1>3. ASSUME NEW q \in Requests PROVE OnlyCreator(q)'
  <2> SUFFICES ASSUME request'[q].at = "list" PROVE OnlyCreator(q)'
    BY DEF OnlyCreator
  <2>1. PICK v : v = request[q].sid
    OBVIOUS
  <2>2. /\ v \in 1 .. issued /\ v # s
        /\ HowOften(order, v) = 0 /\ v \in table /\ expiry.sid # v
        /\ \A p \in Requests \ {q} : request[p].sid # v
    BY <1>0, <2>1 DEF OnlyCreator, HasSession
  <2>3. HowOften(order', v) = 0 /\ v \in table' /\ expiry'.sid # v
    BY <1>0, <2>2
  <2> QED BY <2>1, <2>2, <2>3 DEF OnlyCreator
<1>4. ASSUME NEW v \in 1 .. issued, v # s PROVE ListedRightly(v)'
  <2>1. Revivers(v)' = Revivers(v)
    BY DEF Revivers
  <2>2. IsNew(v)' <=> IsNew(v)
    BY DEF IsNew
  <2>3. /\ HowOften(order', v) = HowOften(order, v) /\ (v \in table' <=> v \in table)
        /\ (Removing(v)' <=> Removing(v)) /\ ListedRightly(v)
    BY <1>0, <1>4
  <2> QED BY <2>1, <2>2, <2>3 DEF ListedRightly
<1>5. IdleAsOld'
  BY <1>0 DEF IdleAsOld
<1>6. \A v \in 1 .. issued' : ListedRightly(v)'
  BY <1>4
<1> QED BY <1>1, <1>2, <1>3, <1>5, <1>6 DEF SInv

LEMMA SameListed ==
  ASSUME NEW s, ListedRightly(s), request' = request, order' = order,
         table' = table, Removing(s)' <=> Removing(s)
  PROVE  ListedRightly(s)'
BY DEF ListedRightly, Revivers, IsNew

\* What the expiry thread looks at.
LEMMA LookKeeps ==
  ASSUME SInv, StartPass \/ NextSession \/ CheckSession PROVE SInv'
<1>0. /\ SessionsTypeOK /\ OverdueIsOld /\ ExpiryHasSession /\ issued \in Nat
      /\ \A v \in 1 .. issued : ListedRightly(v)
      /\ order \in Seq(1 .. issued) /\ table \subseteq 1 .. issued
      /\ expiry \in ExpiryType /\ NoSid \in 0 .. issued
      /\ \A q \in Requests : OnlyCreator(q) /\ HasSession(q)
      /\ 1 \in Nat
  BY TypedFacts DEF SInv, SessionsTypeOK, ExpiryType, NoSid
<1>1. /\ request' = request /\ issued' = issued /\ age' = age
      /\ idleFor' = idleFor /\ order' = order /\ table' = table
  BY DEF StartPass, NextSession, CheckSession
<1>2. PICK s : s = expiry'.sid
  OBVIOUS
<1>3. /\ expiry' \in ExpiryType /\ ExpiryHasSession'
      /\ expiry'.at # "delete" /\ expiry.at # "delete"
      /\ \A r \in Requests : request[r].at = "list" => request[r].sid # s
      /\ overdue' \subseteq 1 .. issued /\ OverdueIsOld'
  <2>0. /\ Asleep.at = "asleep" /\ Asleep.sid = NoSid /\ Asleep \in ExpiryType
        /\ [Asleep EXCEPT !.at = "dead"].at = "dead"
        /\ [Asleep EXCEPT !.at = "dead"].sid = NoSid
        /\ [Asleep EXCEPT !.at = "dead"] \in ExpiryType
    BY <1>0 DEF Asleep, ExpiryType
  <2>r. \A r \in Requests : request[r].at = "list" =>
          /\ request[r].sid # expiry.sid /\ request[r].sid # NoSid
          /\ HowOften(order, request[r].sid) = 0
    BY <1>0 DEF OnlyCreator, HasSession, NoSid
  <2>o. overdue \subseteq 1 .. issued
    BY <1>0 DEF OverdueIsOld
  <2>1. CASE StartPass
    <3>1. /\ expiry'.at = "next" /\ expiry'.sid = expiry.sid /\ expiry.at = "asleep"
          /\ expiry' \in ExpiryType
      BY <1>0, <2>1 DEF StartPass, ExpiryType
    <3>2. overdue' = Before
      BY <2>1 DEF StartPass
    <3>3. overdue' \subseteq 1 .. issued /\ OverdueIsOld'
      BY <1>1, <3>2 DEF OverdueIsOld, Before
    <3> QED BY <1>2, <2>r, <3>1, <3>3 DEF ExpiryHasSession
  <2>2. CASE NextSession /\ expiry' = Asleep
    <3>1. expiry.at = "next" /\ (overdue' = overdue \/ overdue' = {})
      BY <2>2 DEF NextSession, EndPass
    <3>2. OverdueIsOld'
      BY <1>0, <1>1, <3>1 DEF OverdueIsOld
    <3> QED BY <1>2, <2>0, <2>r, <2>o, <2>2, <3>1, <3>2 DEF ExpiryHasSession
  <2>3. CASE NextSession /\ expiry' # Asleep
    <3>1. /\ expiry.at = "next" /\ overdue' = overdue
          /\ expiry.i \in DOMAIN order
          /\ expiry' = [at |-> "check", i |-> expiry.i + 1,
                        sid |-> order[expiry.i]]
      BY <2>3 DEF NextSession, EndPass
    <3>2. OverdueIsOld'
      BY <1>0, <1>1, <3>1 DEF OverdueIsOld
    <3>3. s = order[expiry.i] /\ order[expiry.i] \in 1 .. issued /\ expiry'.at = "check"
      BY <1>0, <1>2, <3>1
    <3>4. s \in 0 .. issued /\ s \in 1 .. issued /\ expiry.i + 1 \in Nat
      BY <1>0, <3>3 DEF ExpiryType
    <3>5. expiry' \in ExpiryType /\ ExpiryHasSession'
      BY <1>1, <1>2, <3>1, <3>3, <3>4 DEF ExpiryType, ExpiryHasSession
    <3>6. \A r \in Requests : request[r].at = "list" => request[r].sid # s
      <4>1. HowOften(order, s) # 0
        BY <1>0, <3>1, <3>3, HowOftenIsNumber
      <4> QED BY <2>r, <4>1
    <3> QED BY <2>o, <3>1, <3>2, <3>3, <3>5, <3>6
  <2>4. CASE CheckSession
    <3>1. /\ expiry.at = "check" /\ (overdue' = overdue \/ overdue' = {})
          /\ \/ expiry' = [expiry EXCEPT !.at = "unlist"]
             \/ expiry' = Asleep
             \/ expiry' = [Asleep EXCEPT !.at = "dead"]
      BY <2>4 DEF CheckSession, EndPass, Dies
    <3>2. OverdueIsOld' /\ overdue' \subseteq 1 .. issued
      BY <1>0, <1>1, <2>o, <3>1 DEF OverdueIsOld
    <3>3. CASE expiry' = [expiry EXCEPT !.at = "unlist"]
      <4>1. /\ expiry'.at = "unlist" /\ expiry'.sid = expiry.sid
            /\ expiry' \in ExpiryType
        BY <1>0, <3>3 DEF ExpiryType
      <4>2. ExpiryHasSession'
        BY <1>0, <1>1, <3>1, <4>1 DEF ExpiryHasSession
      <4> QED BY <1>2, <2>r, <3>1, <3>2, <4>1, <4>2
    <3>4. CASE expiry' = Asleep \/ expiry' = [Asleep EXCEPT !.at = "dead"]
      <4>1. /\ expiry'.at \in {"asleep", "dead"} /\ expiry'.sid = NoSid
            /\ expiry' \in ExpiryType
        BY <2>0, <3>4
      <4> QED BY <1>2, <2>r, <3>1, <3>2, <4>1 DEF ExpiryHasSession
    <3> QED BY <3>1, <3>3, <3>4
  <2> QED BY <2>1, <2>2, <2>3, <2>4
<1>4. \A v : Removing(v)' <=> Removing(v)
  BY <1>1, <1>3 DEF Removing
<1>5. s \in 1 .. issued => ListedRightly(s)'
  BY <1>0, <1>1, <1>4, SameListed
<1>6. /\ order' \in Seq(1 .. issued) /\ table' \subseteq 1 .. issued
      /\ \A v : v # s => HowOften(order', v) = HowOften(order, v)
      /\ \A v : v # s => (v \in table' <=> v \in table)
      /\ expiry'.sid \in {s, NoSid, expiry.sid}
  BY <1>0, <1>1, <1>2
<1> QED BY <1>1, <1>3, <1>4, <1>5, <1>6, ExpiryKeeps

\* What is known while the expiry thread has taken a session up.
LEMMA ExpiryHolds ==
  ASSUME SInv, expiry.at \in {"unlist", "delete"}
  PROVE  /\ expiry.sid \in 1 .. issued /\ ListedRightly(expiry.sid)
         /\ \A r \in Requests : request[r].at = "list" => request[r].sid # expiry.sid
         /\ SessionsTypeOK /\ OverdueIsOld /\ issued \in Nat
         /\ order \in Seq(1 .. issued) /\ table \subseteq 1 .. issued
         /\ expiry \in ExpiryType /\ overdue \subseteq 1 .. issued
         /\ [Asleep EXCEPT !.at = "dead"].at = "dead"
         /\ [Asleep EXCEPT !.at = "dead"].sid = NoSid
         /\ [Asleep EXCEPT !.at = "dead"] \in ExpiryType
<1>1. SessionsTypeOK /\ OverdueIsOld /\ issued \in Nat /\ ExpiryHasSession
  BY TypedFacts DEF SInv
<1>2. expiry.sid \in 1 .. issued /\ ListedRightly(expiry.sid)
  BY <1>1 DEF SInv, ExpiryHasSession
<1>3. \A r \in Requests : request[r].at = "list" => request[r].sid # expiry.sid
  BY DEF SInv, OnlyCreator
<1>4. /\ order \in Seq(1 .. issued) /\ table \subseteq 1 .. issued
      /\ expiry \in ExpiryType /\ overdue \subseteq 1 .. issued
  BY <1>1 DEF SessionsTypeOK, ExpiryType, OverdueIsOld
<1>5. /\ [Asleep EXCEPT !.at = "dead"].at = "dead"
      /\ [Asleep EXCEPT !.at = "dead"].sid = NoSid
      /\ [Asleep EXCEPT !.at = "dead"] \in ExpiryType
  BY <1>1 DEF Asleep, NoSid, ExpiryType
<1> QED BY <1>1, <1>2, <1>3, <1>4, <1>5

LEMMA ExpireUnlistStep ==
  ASSUME SInv, ExpireUnlist PROVE SInv'
<1>s. PICK s : s = expiry.sid
  OBVIOUS
<1>0. /\ expiry.at = "unlist"
      /\ request' = request /\ issued' = issued /\ age' = age
      /\ idleFor' = idleFor /\ table' = table
      /\ \/ /\ Listed(s) /\ order' = Without(s) /\ overdue' = overdue
            /\ expiry' = [expiry EXCEPT !.at = "delete"]
         \/ /\ ~Listed(s) /\ Dies /\ order' = order
  BY <1>s DEF ExpireUnlist
<1>1. /\ s \in 1 .. issued /\ ListedRightly(s)
      /\ \A r \in Requests : request[r].at = "list" => request[r].sid # s
      /\ SessionsTypeOK /\ OverdueIsOld /\ issued \in Nat
      /\ order \in Seq(1 .. issued) /\ table \subseteq 1 .. issued
      /\ expiry \in ExpiryType /\ overdue \subseteq 1 .. issued
      /\ [Asleep EXCEPT !.at = "dead"].at = "dead"
      /\ [Asleep EXCEPT !.at = "dead"].sid = NoSid
      /\ [Asleep EXCEPT !.at = "dead"] \in ExpiryType
  BY <1>0, <1>s, ExpiryHolds
<1>2. \A v : HowOften(order, v) \in Nat
  BY <1>1, HowOftenIsNumber
<1>3. CASE /\ Listed(s) /\ order' = Without(s) /\ overdue' = overdue
           /\ expiry' = [expiry EXCEPT !.at = "delete"]
  <2>1. /\ order' \in Seq(1 .. issued)
        /\ \A v : HowOften(order', v) = HowOften(order, v) - (IF v = s THEN 1 ELSE 0)
    BY <1>1, <1>3, WithoutCounts
  <2>2. \A v : v # s => HowOften(order', v) = HowOften(order, v)
    BY <1>2, <2>1
  <2>3. expiry'.at = "delete" /\ expiry'.sid = s /\ expiry' \in ExpiryType
    BY <1>1, <1>3, <1>s DEF ExpiryType
  <2>4. ListedRightly(s)'
    <3>1. Revivers(s)' = Revivers(s) /\ (IsNew(s)' <=> IsNew(s)) /\ ~IsNew(s)
      BY <1>0, <1>1 DEF Revivers, IsNew
    <3>2. Cardinality(Revivers(s)) \in Nat
      <4>1. Revivers(s) \subseteq Requests
        BY DEF Revivers
      <4> QED BY <4>1, SessionsAssumption, FS_Subset, FS_CardinalityType
    <3>3. Removing(s)'
      BY <2>3 DEF Removing
    <3>4. HowOften(order', s) = HowOften(order, s) - 1
      BY <2>1
    <3>5. HowOften(order, s) <= 1 + Cardinality(Revivers(s))
      BY <1>1, <1>2, <3>1, <3>2 DEF ListedRightly
    <3> QED BY <1>2, <3>1, <3>2, <3>3, <3>4, <3>5 DEF ListedRightly
  <2>5. \A v : v # s => (Removing(v)' <=> Removing(v))
    BY <1>0, <2>3 DEF Removing
  <2>6. ExpiryHasSession' /\ overdue' \subseteq 1 .. issued /\ OverdueIsOld'
    BY <1>0, <1>1, <1>3, <2>3 DEF ExpiryHasSession, OverdueIsOld
  <2>7. /\ table' \subseteq 1 .. issued /\ \A v : v # s => (v \in table' <=> v \in table)
        /\ expiry'.sid \in {s, NoSid, expiry.sid}
    BY <1>0, <1>1, <2>3
  <2> QED BY <1>0, <1>1, <2>1, <2>2, <2>3, <2>4, <2>5, <2>6, <2>7, ExpiryKeeps
<1>4. CASE ~Listed(s) /\ Dies /\ order' = order
  <2>1. /\ expiry' = [Asleep EXCEPT !.at = "dead"] /\ overdue' = {}
    BY <1>4 DEF Dies
  <2>2. expiry'.at = "dead" /\ expiry'.sid = NoSid /\ expiry' \in ExpiryType
    BY <1>1, <2>1
  <2>3. \A v : Removing(v)' <=> Removing(v)
    BY <1>0, <2>2 DEF Removing
  <2>4. ListedRightly(s)'
    BY <1>0, <1>1, <1>4, <2>3, SameListed
  <2>5. ExpiryHasSession' /\ overdue' \subseteq 1 .. issued /\ OverdueIsOld'
    BY <2>1, <2>2 DEF ExpiryHasSession, OverdueIsOld
  <2>6. /\ order' \in Seq(1 .. issued)
        /\ \A v : v # s => HowOften(order', v) = HowOften(order, v)
        /\ table' \subseteq 1 .. issued /\ \A v : v # s => (v \in table' <=> v \in table)
        /\ expiry'.sid \in {s, NoSid, expiry.sid}
    BY <1>0, <1>1, <1>4, <2>2
  <2> QED BY <1>0, <1>1, <2>2, <2>3, <2>4, <2>5, <2>6, ExpiryKeeps
<1> QED BY <1>0, <1>3, <1>4

LEMMA ExpireUnmapStep ==
  ASSUME SInv, ExpireUnmap PROVE SInv'
<1>s. PICK s : s = expiry.sid
  OBVIOUS
<1>0. /\ expiry.at = "delete" /\ table' = table \ {s}
      /\ request' = request /\ issued' = issued /\ age' = age
      /\ idleFor' = idleFor /\ order' = order
      /\ \/ overdue' = overdue /\ expiry' = [expiry EXCEPT !.at = "next"]
         \/ Dies
  BY <1>s DEF ExpireUnmap
<1>1. /\ s \in 1 .. issued /\ ListedRightly(s)
      /\ \A r \in Requests : request[r].at = "list" => request[r].sid # s
      /\ SessionsTypeOK /\ OverdueIsOld /\ issued \in Nat
      /\ order \in Seq(1 .. issued) /\ table \subseteq 1 .. issued
      /\ expiry \in ExpiryType /\ overdue \subseteq 1 .. issued
      /\ [Asleep EXCEPT !.at = "dead"].at = "dead"
      /\ [Asleep EXCEPT !.at = "dead"].sid = NoSid
      /\ [Asleep EXCEPT !.at = "dead"] \in ExpiryType
  BY <1>0, <1>s, ExpiryHolds
<1>2. /\ expiry'.at \in {"next", "dead"} /\ expiry'.sid \in {s, NoSid}
      /\ expiry' \in ExpiryType
  <2>1. CASE expiry' = [expiry EXCEPT !.at = "next"]
    <3>1. expiry'.at = "next" /\ expiry'.sid = expiry.sid /\ expiry' \in ExpiryType
      BY <1>1, <2>1 DEF ExpiryType
    <3> QED BY <1>s, <3>1
  <2>2. CASE Dies
    BY <1>1, <2>2 DEF Dies
  <2> QED BY <1>0, <2>1, <2>2
<1>3. ListedRightly(s)'
  <2>1. Revivers(s)' = Revivers(s) /\ Removing(s)
    BY <1>0, <1>s DEF Revivers, Removing
  <2>2. s \notin table' /\ HowOften(order', s) = HowOften(order, s)
    BY <1>0
  <2> QED BY <1>1, <2>1, <2>2 DEF ListedRightly
<1>4. \A v : v # s => (Removing(v)' <=> Removing(v))
  BY <1>0, <1>2, <1>s DEF Removing
<1>5. ExpiryHasSession'
  BY <1>2 DEF ExpiryHasSession
<1>6. overdue' \subseteq 1 .. issued /\ OverdueIsOld'
  <2>1. overdue' = overdue \/ overdue' = {}
    BY <1>0 DEF Dies
  <2> QED BY <1>0, <1>1, <2>1 DEF OverdueIsOld
<1>7. /\ order' \in Seq(1 .. issued)
      /\ \A v : v # s => HowOften(order', v) = HowOften(order, v)
      /\ table' \subseteq 1 .. issued /\ \A v : v # s => (v \in table' <=> v \in table)
      /\ expiry'.sid \in {s, NoSid, expiry.sid}
  BY <1>0, <1>1, <1>2
<1> QED BY <1>0, <1>1, <1>2, <1>3, <1>4, <1>5, <1>6, <1>7, ExpiryKeeps

LEMMA TickStep ==
  ASSUME SInv, Tick PROVE SInv'
<1>0. /\ age' = [s \in Sids |-> IF s \in table THEN Older(age[s]) ELSE age[s]]
      /\ idleFor' =
           [s \in Sids |-> IF s \in table THEN Older(idleFor[s]) ELSE idleFor[s]]
      /\ request' = request /\ issued' = issued /\ order' = order
      /\ table' = table /\ expiry' = expiry /\ overdue' = overdue
  BY DEF Tick
<1>1. /\ SessionsTypeOK /\ IdleAsOld /\ OverdueIsOld /\ ExpiryHasSession
      /\ \A v \in 1 .. issued : ListedRightly(v)
      /\ \A q \in Requests : HasSession(q) /\ OnlyCreator(q)
      /\ MaxAge \in Nat /\ Timeout \in Nat /\ Revive \in Nat
      /\ MaxAge = Timeout + Revive + 1
      /\ 1 .. issued \subseteq Sids
  BY TypedFacts DEF SInv, MaxAge
<1>2. age \in [Sids -> 0 .. MaxAge] /\ idleFor \in [Sids -> 0 .. MaxAge]
  BY <1>1 DEF SessionsTypeOK
<1>3. \A t \in 0 .. MaxAge : Older(t) \in 0 .. MaxAge /\ Older(t) >= t
  BY <1>1 DEF Older
<1>4. age' \in [Sids -> 0 .. MaxAge] /\ idleFor' \in [Sids -> 0 .. MaxAge]
  BY <1>0, <1>2, <1>3
<1>5. SessionsTypeOK'
  BY <1>0, <1>1, <1>4 DEF SessionsTypeOK
<1>6. \A q \in Requests : HasSession(q)' /\ OnlyCreator(q)'
  BY <1>0, <1>1 DEF HasSession, OnlyCreator
<1>7. ASSUME NEW v \in 1 .. issued PROVE ListedRightly(v)'
  <2>1. Removing(v)' <=> Removing(v)
    BY <1>0 DEF Removing
  <2> QED BY <1>0, <1>1, <2>1, SameListed
<1>8. ExpiryHasSession'
  BY <1>0, <1>1 DEF ExpiryHasSession
<1>9. OverdueIsOld'
  <2>1. ASSUME NEW v \in overdue PROVE v \in 1 .. issued /\ age'[v] > Timeout + Revive
    <3>1. v \in 1 .. issued /\ v \in Sids /\ age[v] > Timeout + Revive
      BY <1>1, <2>1 DEF OverdueIsOld
    <3>2. age[v] \in 0 .. MaxAge /\ age'[v] \in 0 .. MaxAge
      BY <1>2, <1>4, <3>1
    <3>3. age'[v] >= age[v]
      BY <1>0, <1>3, <3>1, <3>2
    <3> QED BY <1>1, <3>1, <3>2, <3>3
  <2> QED BY <1>0, <2>1 DEF OverdueIsOld
<1>10. IdleAsOld'
  <2>1. ASSUME NEW v \in Sids PROVE idleFor'[v] >= age'[v] - Revive
    <3>1. idleFor[v] >= age[v] - Revive
      BY <1>1 DEF IdleAsOld
    <3>2. age[v] \in 0 .. MaxAge /\ idleFor[v] \in 0 .. MaxAge
      BY <1>2
    <3>3. CASE v \in table
      <4>1. age'[v] = Older(age[v]) /\ idleFor'[v] = Older(idleFor[v])
        BY <1>0, <3>3
      <4> QED BY <1>1, <3>1, <3>2, <4>1 DEF Older
    <3>4. CASE v \notin table
      BY <1>0, <3>1, <3>4
    <3> QED BY <3>3, <3>4
  <2> QED BY <2>1 DEF IdleAsOld
<1>11. \A v \in 1 .. issued' : ListedRightly(v)'
  BY <1>0, <1>7
<1> QED BY <1>5, <1>6, <1>8, <1>9, <1>10, <1>11 DEF SInv

LEMMA SInvStep == SInv /\ [SessionsNext]_sessionVars => SInv'
<1> SUFFICES ASSUME SInv, [SessionsNext]_sessionVars PROVE SInv'
  OBVIOUS
<1>1. CASE UNCHANGED sessionVars
  <2>1. /\ issued' = issued /\ table' = table /\ order' = order /\ age' = age
        /\ idleFor' = idleFor /\ request' = request /\ expiry' = expiry
        /\ overdue' = overdue
    BY <1>1 DEF sessionVars
  <2>2. ASSUME NEW v \in 1 .. issued PROVE ListedRightly(v)'
    <3>1. (Removing(v)' <=> Removing(v)) /\ ListedRightly(v)
      BY <2>1 DEF Removing, SInv
    <3> QED BY <2>1, <3>1, SameListed
  <2>3. \A q \in Requests : HasSession(q)' /\ OnlyCreator(q)'
    BY <2>1 DEF SInv, HasSession, OnlyCreator
  <2>4. SessionsTypeOK'
    BY <2>1 DEF SInv, SessionsTypeOK
  <2>5. ExpiryHasSession' /\ OverdueIsOld' /\ IdleAsOld'
    BY <2>1 DEF SInv, ExpiryHasSession, OverdueIsOld, IdleAsOld
  <2>6. \A v \in 1 .. issued' : ListedRightly(v)'
    BY <2>1, <2>2
  <2> QED BY <2>3, <2>4, <2>5, <2>6 DEF SInv
<1>2. ASSUME NEW r \in Requests, Fetch(r) \/ Continue(r)
      PROVE  SInv'
  BY <1>2, FetchStep, CreateSessionStep, ListSessionStep, ReviveAppendStep,
     ReviveRemoveStep, ReviveTouchStep, QuietStep, UnlistStep, UnmapStep
     DEF Fetch, Continue
<1>3. CASE ExpirySteps
  BY <1>3, LookKeeps, ExpireUnlistStep, ExpireUnmapStep DEF ExpirySteps
<1>4. CASE Tick
  BY <1>4, TickStep
<1> QED BY <1>1, <1>2, <1>3, <1>4 DEF SessionsNext

LEMMA SInvListAgrees == SInv => ListAgrees
<1> SUFFICES ASSUME SInv, NEW s \in 1 .. issued, ~Busy(s)
             PROVE  Occurrences(s) = IF s \in table THEN 1 ELSE 0
  BY DEF ListAgrees
<1>1. ListedRightly(s) /\ order \in Seq(1 .. issued)
  BY DEF SInv, SessionsTypeOK
<1>2. HowOften(order, s) \in Nat /\ Occurrences(s) = HowOften(order, s)
  BY <1>1, HowOftenIsNumber DEF Occurrences, HowOften, Held
<1>3. ~Removing(s) /\ ~IsNew(s) /\ Revivers(s) = {}
  BY DEF Busy, Removing, IsNew, Revivers
<1>4. Cardinality(Revivers(s)) = 0
  BY <1>3, FS_EmptySet
<1>5. CASE s \in table
  BY <1>1, <1>2, <1>3, <1>4, <1>5 DEF ListedRightly
<1>6. CASE s \notin table
  BY <1>1, <1>2, <1>4, <1>6 DEF ListedRightly
<1> QED BY <1>5, <1>6

\* Only CheckSession takes a session up to expire it.
LEMMA ExpiresIdle ==
  SInv /\ [SessionsNext]_sessionVars =>
    (expiry.at = "check" /\ expiry'.at = "unlist" => idleFor[expiry.sid] > Timeout)
<1> SUFFICES ASSUME SInv, [SessionsNext]_sessionVars,
                    expiry.at = "check", expiry'.at = "unlist"
             PROVE  idleFor[expiry.sid] > Timeout
  OBVIOUS
<1>1. CheckSession
  <2>1. expiry' # expiry
    OBVIOUS
  <2>2. SessionsNext
    BY <2>1 DEF sessionVars
  <2>3. ~Tick /\ \A r \in Requests : ~Fetch(r) /\ ~Continue(r)
    BY <2>1 DEF Tick, Fetch, FetchFresh, FetchOld, CreateSession, Continue,
       ListSession, ReviveAppend, ReviveRemove, ReviveTouch, Serve, Logout,
       Unlist, Unmap
  <2>4. ~StartPass /\ ~NextSession /\ ~ExpireUnlist /\ ~ExpireUnmap
    BY DEF StartPass, NextSession, ExpireUnlist, ExpireUnmap
  <2> QED BY <2>2, <2>3, <2>4 DEF SessionsNext, ExpirySteps
<1>2. PICK s : s = expiry.sid
  OBVIOUS
<1>3. s \in overdue
  <2>1. Asleep.at # "unlist" /\ [Asleep EXCEPT !.at = "dead"].at # "unlist"
    BY DEF Asleep
  <2> QED BY <1>1, <1>2, <2>1 DEF CheckSession, EndPass, Dies
<1>4. /\ s \in Sids /\ age[s] > Timeout + Revive /\ idleFor[s] >= age[s] - Revive
      /\ Timeout \in Nat /\ Revive \in Nat
      /\ age[s] \in 0 .. MaxAge /\ idleFor[s] \in 0 .. MaxAge /\ MaxAge \in Nat
  BY <1>3, TypedFacts DEF SInv, OverdueIsOld, IdleAsOld, SessionsTypeOK
<1> QED BY <1>2, <1>4

\* The inductive invariant of the sessions in memory.
THEOREM SessionsInvariance == SessionsSpec => []SInv
BY SInvInit, SInvStep, PTL DEF SessionsSpec

\* The sessions and their list stay together, and a session that is in use
\* stays, for any number of requests beside the expiry thread
\* (SessionManager.revive_session, remove_session, expire_sessions).
THEOREM SessionsAreKept == SessionsSpec => SessionsKept
<1>1. SInv => ListAgrees
  BY SInvListAgrees
<1>2. SInv /\ [SessionsNext]_sessionVars =>
        [expiry.at = "check" /\ expiry'.at = "unlist" =>
           idleFor[expiry.sid] > Timeout]_sessionVars
  BY ExpiresIdle
<1> QED BY <1>1, <1>2, SessionsInvariance, PTL
        DEF SessionsSpec, SessionsKept, NotExpiredInUse

-----------------------------------------------------------------------------
(* Sessions in the database. *)

Stored == [userid : Persons, value : Values \cup {Unset}, age : 0 .. Over]
Visits == [at : {"revive", "serve"}, id : 1 .. given, copy : Content]

Typed ==
  /\ given \in 0 .. MaxStored /\ changes \in Nat
  /\ DOMAIN stored \subseteq 1 .. given
  /\ stored \in [DOMAIN stored -> Stored]
  /\ visit \in [Visitors -> Visits \cup {Away}]
  /\ unused \in [Ids -> 0 .. Over]
  /\ DOMAIN meant = Ids

\* A stored session is at most the revival threshold older than its last use.
UsesWritten == \A s \in DOMAIN stored : stored[s].age <= unused[s] + ReviveAfter

IInv == Typed /\ ChangesStay /\ UsesWritten

-----------------------------------------------------------------------------
LEMMA Numbers ==
  /\ MaxStored \in Nat /\ SessionTimeout \in Nat /\ ReviveAfter \in Nat
  /\ Over \in Nat /\ 0 \in 0 .. Over
BY DbSessionsAssumption DEF Over

LEMMA StoredContent ==
  ASSUME Typed, NEW s \in DOMAIN stored
  PROVE  ContentOf(stored[s]) \in Content /\ Now(s) = ContentOf(stored[s])
<1>1. stored[s] \in Stored
  BY DEF Typed
<1> QED BY <1>1 DEF Stored, ContentOf, Content, Now

LEMMA IdOfVisit ==
  ASSUME Typed, NEW v \in Visitors, visit[v].at # "away"
  PROVE  visit[v] \in Visits /\ visit[v].id \in 1 .. given /\ visit[v].id \in Ids
         /\ visit[v].copy \in Content
<1>1. visit[v] \in Visits
  BY DEF Typed, Away
<1>2. visit[v].id \in 1 .. given /\ visit[v].copy \in Content
  BY <1>1 DEF Visits
<1> QED BY <1>1, <1>2, Numbers DEF Typed, Ids

\* What a write leaves: the session as written, new, and the others.
LEMMA PutFacts ==
  ASSUME Typed, NEW s \in Ids, NEW content \in Content, Put(s, content)
  PROVE  /\ DOMAIN stored' = DOMAIN stored \cup {s}
         /\ stored' \in [DOMAIN stored' -> Stored]
         /\ Now(s)' = content /\ stored'[s].age = 0
         /\ \A t \in DOMAIN stored \ {s} : stored'[t] = stored[t]
         /\ \A t \in Ids \ {s} : Now(t)' = Now(t)
<1>1. /\ DOMAIN stored' = DOMAIN stored \cup {s}
      /\ stored'[s] = Record(content)
      /\ \A t \in DOMAIN stored \ {s} : stored'[t] = stored[t]
      /\ stored' = [t \in DOMAIN stored' |-> stored'[t]]
  BY DEF Put
<1>2. Record(content) \in Stored /\ Record(content).age = 0
  BY Numbers DEF Record, Stored, Content
<1>3. ContentOf(Record(content)) = content
  BY DEF ContentOf, Record, Content
<1>4. \A t \in DOMAIN stored' : stored'[t] \in Stored
  BY <1>1, <1>2 DEF Typed
<1>5. stored' \in [DOMAIN stored' -> Stored]
  BY <1>1, <1>4
<1>6. Now(s)' = content
  BY <1>1, <1>3 DEF Now
<1>7. \A t \in Ids \ {s} : Now(t)' = Now(t)
  BY <1>1 DEF Now
<1> QED BY <1>1, <1>2, <1>5, <1>6, <1>7

LEMMA InitEstablishes == DbSessionsInit => IInv
<1> SUFFICES ASSUME DbSessionsInit PROVE IInv
  OBVIOUS
<1> USE DEF DbSessionsInit
<1>1. DOMAIN stored = {} /\ stored \in [DOMAIN stored -> Stored]
  OBVIOUS
<1>2. Typed
  BY <1>1, Numbers DEF Typed
<1>3. ChangesStay
  BY DEF ChangesStay
<1>4. UsesWritten
  BY <1>1 DEF UsesWritten
<1> QED BY <1>2, <1>3, <1>4 DEF IInv

LEMMA FetchKeeps ==
  ASSUME IInv, NEW v \in Visitors, NEW s \in Ids, FetchStored(v, s)
  PROVE  IInv'
<1>1. s \in 1 .. given /\ ContentOf(stored[s]) \in Content /\ stored[s] \in Stored
  BY StoredContent DEF IInv, Typed, FetchStored
<1>2. /\ stored' = stored /\ given' = given /\ changes' = changes
      /\ meant' = meant /\ undone' = undone
  BY DEF FetchStored
<1>3. visit' \in [Visitors -> Visits \cup {Away}]
  <2> DEFINE new == [at |-> IF stored[s].age > ReviveAfter THEN "revive" ELSE "serve",
                     id |-> s, copy |-> ContentOf(stored[s])]
  <2>1. new \in Visits
    BY <1>1 DEF Visits
  <2>2. visit' = [visit EXCEPT ![v] = new]
    BY DEF FetchStored
  <2> QED BY <2>1, <2>2 DEF IInv, Typed
<1>4. /\ unused' \in [Ids -> 0 .. Over]
      /\ \A t \in Ids \ {s} : unused'[t] = unused[t]
      /\ unused'[s] = IF stored[s].age > ReviveAfter THEN unused[s] ELSE 0
  BY Numbers DEF IInv, Typed, FetchStored
<1>5. Typed'
  BY <1>2, <1>3, <1>4 DEF IInv, Typed, Visits
<1>6. ChangesStay'
  BY <1>2 DEF IInv, ChangesStay, Now
<1>7. UsesWritten'
  <2> SUFFICES ASSUME NEW t \in DOMAIN stored
               PROVE  stored[t].age <= unused'[t] + ReviveAfter
    BY <1>2 DEF UsesWritten
  <2>1. t \in Ids /\ stored[t].age <= unused[t] + ReviveAfter
    BY Numbers DEF IInv, Typed, UsesWritten, Ids
  <2>2. stored[s].age \in Int
    BY <1>1, Numbers DEF Stored
  <2> QED BY <1>4, <2>1, <2>2, Numbers
<1> QED BY <1>5, <1>6, <1>7 DEF IInv

\* Writing what a session was meant to be.
LEMMA WriteKeeps ==
  ASSUME IInv, NEW s \in Ids, NEW content \in Content, Put(s, content),
         given' \in given .. MaxStored, s \in 1 .. given',
         changes' \in Nat, 
         visit' \in [Visitors -> (Visits \cup {Away})'],
         unused' \in [Ids -> 0 .. Over],
         \A t \in Ids \ {s} : unused'[t] = unused[t],
         DOMAIN meant' = Ids,
         \A t \in Ids \ {s} : meant'[t] = meant[t],
         undone \subseteq undone',
         \A t \in 1 .. given' : t \notin 1 .. given => t = s,
         s \notin undone' => meant'[s] = content
  PROVE  IInv'
<1>1. /\ DOMAIN stored' = DOMAIN stored \cup {s}
      /\ stored' \in [DOMAIN stored' -> Stored]
      /\ Now(s)' = content /\ stored'[s].age = 0
      /\ \A t \in DOMAIN stored \ {s} : stored'[t] = stored[t]
      /\ \A t \in Ids \ {s} : Now(t)' = Now(t)
  BY PutFacts DEF IInv
<1>2. DOMAIN stored' \subseteq 1 .. given'
  BY <1>1, Numbers DEF IInv, Typed
<1>3. Typed'
  BY <1>1, <1>2, Numbers DEF IInv, Typed, Stored, Ids, Over
<1>4. ChangesStay'
  <2> SUFFICES ASSUME NEW t \in 1 .. given', t \notin undone'
               PROVE  Now(t)' = meant'[t]
    BY DEF ChangesStay
  <2>1. CASE t = s
    BY <1>1, <2>1
  <2>2. CASE t # s
    <3>1. t \in 1 .. given /\ t \in Ids /\ t \notin undone
      BY <2>2, Numbers DEF IInv, Typed, Ids
    <3>2. Now(t) = meant[t]
      BY <3>1 DEF IInv, ChangesStay
    <3> QED BY <1>1, <2>2, <3>1, <3>2
  <2> QED BY <2>1, <2>2
<1>5. UsesWritten'
  <2> SUFFICES ASSUME NEW t \in DOMAIN stored'
               PROVE  stored'[t].age <= unused'[t] + ReviveAfter
    BY DEF UsesWritten
  <2>1. t \in Ids
    BY <1>1, Numbers DEF IInv, Typed, Ids
  <2>2. CASE t = s
    BY <1>1, <2>1, <2>2, Numbers
  <2>3. CASE t # s
    BY <1>1, <2>1, <2>3 DEF IInv, UsesWritten
  <2> QED BY <2>2, <2>3
<1> QED BY <1>3, <1>4, <1>5 DEF IInv

LEMMA CreateKeeps ==
  ASSUME IInv, NEW v \in Visitors, CreateStored(v)
  PROVE  IInv'
<1> DEFINE s == given + 1
           new == [userid |-> Guest, value |-> Unset]
<1>1. /\ given \in 0 .. MaxStored /\ given < MaxStored /\ s \in Ids
      /\ s \notin 1 .. given /\ s \in 1 .. s
      /\ s \in given .. MaxStored
      /\ \A t \in 1 .. s : t \notin 1 .. given => t = s
  BY Numbers DEF IInv, Typed, CreateStored, Ids
<1>2. /\ Put(s, new) /\ given' = s /\ undone' = undone /\ changes' = changes
      /\ meant' = [meant EXCEPT ![s] = new]
      /\ unused' = [unused EXCEPT ![s] = 0]
      /\ visit' = [visit EXCEPT ![v] = [at |-> "serve", id |-> s, copy |-> new]]
  BY DEF CreateStored
<1>3. new \in Content
  BY DbSessionsAssumption DEF Content
<1> HIDE DEF new
<1>4. visit' \in [Visitors -> (Visits \cup {Away})']
  <2>1. [at |-> "serve", id |-> s, copy |-> new] \in Visits'
    BY <1>1, <1>2, <1>3 DEF Visits
  <2>2. Visits \subseteq Visits'
    BY <1>1, <1>2 DEF Visits
  <2> QED BY <1>2, <2>1, <2>2 DEF IInv, Typed, Away
<1> HIDE DEF s
<1>5. /\ unused' \in [Ids -> 0 .. Over]
      /\ \A t \in Ids \ {s} : unused'[t] = unused[t]
  BY <1>2, Numbers DEF IInv, Typed
<1>6. /\ DOMAIN meant' = Ids /\ meant'[s] = new
      /\ \A t \in Ids \ {s} : meant'[t] = meant[t]
  BY <1>1, <1>2 DEF IInv, Typed
<1>7. changes' \in Nat
  BY <1>2 DEF IInv, Typed
<1> QED BY <1>1, <1>2, <1>3, <1>4, <1>5, <1>6, <1>7, WriteKeeps

\* An outdated copy that is written is counted as such.
LEMMA UndoesFacts ==
  ASSUME NEW v, Undoes(v)
  PROVE  /\ undone \subseteq undone'
         /\ visit[v].id \notin undone' =>
              /\ visit[v].id \notin undone
              /\ Now(visit[v].id) = visit[v].copy
BY DEF Undoes

LEMMA ReviveKeeps ==
  ASSUME IInv, NEW v \in Visitors, ReviveStored(v)
  PROVE  IInv'
<1> DEFINE s == visit[v].id
           copy == visit[v].copy
<1>1. visit[v] \in Visits /\ s \in 1 .. given /\ s \in Ids /\ copy \in Content
  BY IdOfVisit DEF IInv, ReviveStored
<1>2. /\ Put(s, copy) /\ given' = given /\ changes' = changes /\ meant' = meant
      /\ unused' = [unused EXCEPT ![s] = 0]
      /\ visit' = [visit EXCEPT ![v].at = "serve"]
      /\ Undoes(v)
  BY DEF ReviveStored
<1>3. visit' \in [Visitors -> (Visits \cup {Away})']
  <2>1. [visit[v] EXCEPT !.at = "serve"] \in Visits
    BY <1>1 DEF Visits
  <2>2. Visits' = Visits
    BY <1>2 DEF Visits
  <2> QED BY <1>2, <2>1, <2>2 DEF IInv, Typed, Away
<1>4. undone \subseteq undone' /\ (s \notin undone' => meant'[s] = copy)
  BY <1>1, <1>2, UndoesFacts DEF IInv, ChangesStay
<1> HIDE DEF s, copy
<1>5. /\ unused' \in [Ids -> 0 .. Over]
      /\ \A t \in Ids \ {s} : unused'[t] = unused[t]
  BY <1>2, Numbers DEF IInv, Typed
<1>6. DOMAIN meant' = Ids /\ \A t \in Ids \ {s} : meant'[t] = meant[t]
  BY <1>2 DEF IInv, Typed
<1>7. /\ changes' \in Nat /\ given' \in given .. MaxStored /\ s \in 1 .. given'
      /\ \A t \in 1 .. given' : t \notin 1 .. given => t = s
  BY <1>1, <1>2, Numbers DEF IInv, Typed
<1> QED BY <1>1, <1>2, <1>3, <1>4, <1>5, <1>6, <1>7, WriteKeeps

LEMMA CopyFacts ==
  ASSUME Typed, NEW v \in Visitors, visit[v].at = "serve", NEW nested \in BOOLEAN,
         NEW copy \in Content, CopyKept(v, nested, copy), given' = given
  PROVE  visit' \in [Visitors -> (Visits \cup {Away})']
<1>1. visit[v] \in Visits
  BY IdOfVisit
<1>2. [visit[v] EXCEPT !.copy = copy] \in Visits
  BY <1>1 DEF Visits
<1>3. Visits' = Visits
  BY DEF Visits
<1> QED BY <1>2, <1>3 DEF Typed, CopyKept, Away

LEMMA ValueKeeps ==
  ASSUME IInv, NEW v \in Visitors, NEW x \in Values \cup {Unset}, Serves(v),
         WriteValue(v, x), meant' = [meant EXCEPT ![visit[v].id].value = x],
         visit' \in [Visitors -> (Visits \cup {Away})'],
         given' = given, unused' = unused, undone' = undone
  PROVE  IInv'
<1> DEFINE s == visit[v].id
           content == [Now(s) EXCEPT !.value = x]
<1>1. s \in 1 .. given /\ s \in Ids
  BY IdOfVisit DEF IInv, Serves
<1>2. s \in DOMAIN stored /\ Put(s, content)
  BY DEF WriteValue
<1>3. Now(s) \in Content
  BY <1>2, StoredContent DEF IInv
<1>4. content \in Content
  BY <1>3 DEF Content
<1>5. /\ DOMAIN meant' = Ids /\ meant'[s] = [meant[s] EXCEPT !.value = x]
      /\ \A t \in Ids \ {s} : meant'[t] = meant[t]
  BY <1>1 DEF IInv, Typed
<1>6. s \notin undone' => meant'[s] = content
  BY <1>1, <1>5 DEF IInv, ChangesStay
<1> HIDE DEF s, content
<1>7. /\ changes' \in Nat /\ given' \in given .. MaxStored /\ s \in 1 .. given'
      /\ \A t \in 1 .. given' : t \notin 1 .. given => t = s
  BY <1>1, Numbers DEF IInv, Typed, Serves
<1>8. /\ unused' \in [Ids -> 0 .. Over]
      /\ \A t \in Ids \ {s} : unused'[t] = unused[t]
  BY DEF IInv, Typed
<1> QED BY <1>1, <1>2, <1>4, <1>5, <1>6, <1>7, <1>8, WriteKeeps

LEMMA UserKeeps ==
  ASSUME IInv, NEW v \in Visitors, NEW p \in Persons, NEW nested \in BOOLEAN,
         SetUser(v, p, nested)
  PROVE  IInv'
<1> DEFINE s == visit[v].id
           copy == [visit[v].copy EXCEPT !.userid = p]
<1>1. /\ visit[v].at = "serve" /\ s \in 1 .. given /\ s \in Ids
      /\ visit[v].copy \in Content
  BY IdOfVisit DEF IInv, SetUser, Serves
<1>2. /\ Serves(v) /\ Put(s, copy) /\ Undoes(v) /\ CopyKept(v, nested, copy)
      /\ meant' = [meant EXCEPT ![s].userid = p]
      /\ given' = given /\ unused' = unused
  BY DEF SetUser
<1>3. copy \in Content
  BY <1>1 DEF Content
<1>4. visit' \in [Visitors -> (Visits \cup {Away})']
  BY <1>1, <1>2, <1>3, CopyFacts DEF IInv
<1>5. /\ DOMAIN meant' = Ids /\ meant'[s] = [meant[s] EXCEPT !.userid = p]
      /\ \A t \in Ids \ {s} : meant'[t] = meant[t]
  BY <1>1, <1>2 DEF IInv, Typed
<1>6. undone \subseteq undone' /\ (s \notin undone' => meant'[s] = copy)
  BY <1>1, <1>2, <1>5, UndoesFacts DEF IInv, ChangesStay
<1> HIDE DEF s, copy
<1>7. /\ changes' \in Nat /\ given' \in given .. MaxStored /\ s \in 1 .. given'
      /\ \A t \in 1 .. given' : t \notin 1 .. given => t = s
  BY <1>1, <1>2, Numbers DEF IInv, Typed, Serves
<1>8. /\ unused' \in [Ids -> 0 .. Over]
      /\ \A t \in Ids \ {s} : unused'[t] = unused[t]
  BY <1>2 DEF IInv, Typed
<1> QED BY <1>1, <1>2, <1>3, <1>4, <1>5, <1>6, <1>7, <1>8, WriteKeeps

LEMMA RemoveFacts ==
  ASSUME Typed, NEW ended \in SUBSET DOMAIN stored, RemoveStored(ended)
  PROVE  /\ DOMAIN stored' = DOMAIN stored \ ended
         /\ stored' \in [DOMAIN stored' -> Stored]
         /\ \A t \in DOMAIN stored' : stored'[t] = stored[t]
         /\ \A t \in ended : Now(t)' = Gone
         /\ \A t : t \notin ended => Now(t)' = Now(t)
<1>1. /\ DOMAIN stored' = DOMAIN stored \ ended
      /\ \A t \in DOMAIN stored' : stored'[t] = stored[t]
      /\ stored' \in [DOMAIN stored' -> Stored]
  BY DEF RemoveStored, Typed
<1> QED BY <1>1 DEF Now

LEMMA EndKeeps ==
  ASSUME IInv, NEW v \in Visitors, EndStored(v)
  PROVE  IInv'
<1>0. PICK s : s = visit[v].id
  OBVIOUS
<1>1. s \in 1 .. given /\ s \in Ids /\ s \in DOMAIN stored
  BY <1>0, IdOfVisit DEF IInv, EndStored, Serves
<1>2. /\ RemoveStored({s}) /\ given' = given /\ visit' = visit
      /\ unused' = unused /\ undone' = undone /\ changes' = changes + 1
      /\ meant' = [meant EXCEPT ![s] = Gone]
  BY <1>0 DEF EndStored, Serves
<1>3. /\ DOMAIN stored' = DOMAIN stored \ {s}
      /\ stored' \in [DOMAIN stored' -> Stored]
      /\ \A t \in DOMAIN stored' : stored'[t] = stored[t]
      /\ Now(s)' = Gone
      /\ \A t : t # s => Now(t)' = Now(t)
  <2>1. {s} \in SUBSET DOMAIN stored
    BY <1>1
  <2>2. \A t \in {s} : Now(t)' = Gone
    BY <1>2, <2>1, RemoveFacts DEF IInv
  <2>3. \A t : t \notin {s} => Now(t)' = Now(t)
    BY <1>2, <2>1, RemoveFacts DEF IInv
  <2>4. /\ DOMAIN stored' = DOMAIN stored \ {s}
        /\ stored' \in [DOMAIN stored' -> Stored]
        /\ \A t \in DOMAIN stored' : stored'[t] = stored[t]
    BY <1>2, <2>1, RemoveFacts DEF IInv
  <2> QED BY <2>2, <2>3, <2>4
<1>4. Typed'
  <2>1. Visits' = Visits /\ visit' \in [Visitors -> (Visits \cup {Away})']
    BY <1>2 DEF IInv, Typed, Visits, Away
  <2>2. changes' \in Nat /\ DOMAIN meant' = Ids /\ unused' \in [Ids -> 0 .. Over]
    BY <1>2 DEF IInv, Typed
  <2>3. given' \in 0 .. MaxStored /\ DOMAIN stored' \subseteq 1 .. given'
    BY <1>2, <1>3 DEF IInv, Typed
  <2> QED BY <1>3, <2>1, <2>2, <2>3 DEF Typed, Stored, Ids, Over
<1>5. ChangesStay'
  <2> SUFFICES ASSUME NEW t \in 1 .. given, t \notin undone
               PROVE  Now(t)' = meant'[t]
    BY <1>2 DEF ChangesStay
  <2>1. t \in DOMAIN meant /\ Now(t) = meant[t]
    BY Numbers DEF IInv, Typed, ChangesStay, Ids
  <2>2. CASE t = s
    BY <1>2, <1>3, <2>1, <2>2
  <2>3. CASE t # s
    BY <1>2, <1>3, <2>1, <2>3
  <2> QED BY <2>2, <2>3
<1>6. UsesWritten'
  BY <1>2, <1>3 DEF IInv, UsesWritten
<1> QED BY <1>4, <1>5, <1>6 DEF IInv

LEMMA ExpireKeeps ==
  ASSUME IInv, ExpireStored
  PROVE  IInv'
<1>1. /\ RemoveStored(Inactive) /\ given' = given /\ visit' = visit
      /\ unused' = unused /\ undone' = undone /\ changes' = changes
      /\ meant' = [s \in Ids |-> IF s \in Inactive THEN Gone ELSE meant[s]]
  BY DEF ExpireStored
<1>2. Inactive \in SUBSET DOMAIN stored
  BY DEF Inactive
<1> DEFINE ended == Inactive
<1> HIDE DEF ended
<1>3. /\ DOMAIN stored' = DOMAIN stored \ ended
      /\ stored' \in [DOMAIN stored' -> Stored]
      /\ \A t \in DOMAIN stored' : stored'[t] = stored[t]
      /\ \A t \in ended : Now(t)' = Gone
      /\ \A t : t \notin ended => Now(t)' = Now(t)
  BY <1>1, <1>2, RemoveFacts DEF IInv, ended
<1>4. meant' = [s \in Ids |-> IF s \in ended THEN Gone ELSE meant[s]]
  BY <1>1 DEF ended
<1>5. Typed'
  BY <1>1, <1>3, <1>4 DEF IInv, Typed, Visits, Stored, Ids, Over
<1>6. ChangesStay'
  <2>1. 1 .. given \subseteq Ids
    BY Numbers DEF IInv, Typed, Ids
  <2> QED BY <1>1, <1>3, <1>4, <2>1 DEF IInv, ChangesStay
<1>7. UsesWritten'
  BY <1>1, <1>3 DEF IInv, UsesWritten
<1> QED BY <1>5, <1>6, <1>7 DEF IInv

LEMMA AgedFacts ==
  ASSUME NEW n \in 0 .. Over
  PROVE  /\ Aged(n) \in 0 .. Over /\ Aged(n) >= n
         /\ \A m \in 0 .. Over : n <= m + ReviveAfter =>
              Aged(n) <= Aged(m) + ReviveAfter
BY Numbers DEF Aged

LEMMA PassesKeeps ==
  ASSUME IInv, Passes
  PROVE  IInv'
<1>1. /\ given' = given /\ visit' = visit /\ changes' = changes
      /\ meant' = meant /\ undone' = undone
      /\ DOMAIN stored' = DOMAIN stored
      /\ stored' = [s \in DOMAIN stored |->
                      [stored[s] EXCEPT !.age = Aged(stored[s].age)]]
      /\ unused' = [s \in Ids |-> Aged(unused[s])]
  BY DEF Passes
<1>2. ASSUME NEW s \in DOMAIN stored
      PROVE  /\ stored'[s] \in Stored
             /\ stored[s].age \in 0 .. Over
             /\ stored'[s].age = Aged(stored[s].age)
             /\ Now(s)' = Now(s)
  <2>1. stored[s] \in Stored
    BY DEF IInv, Typed
  <2>2. stored'[s] = [stored[s] EXCEPT !.age = Aged(stored[s].age)]
    BY <1>1
  <2>3. stored[s].age \in 0 .. Over
    BY <2>1 DEF Stored
  <2>4. Aged(stored[s].age) \in 0 .. Over
    BY <2>3, AgedFacts
  <2>5. stored'[s] \in Stored /\ stored'[s].age = Aged(stored[s].age)
        /\ ContentOf(stored'[s]) = ContentOf(stored[s])
    BY <2>1, <2>2, <2>4 DEF Stored, ContentOf
  <2> QED BY <1>1, <2>3, <2>5 DEF Now
<1>3. Typed'
  <2>1. unused' \in [Ids -> 0 .. Over]
    BY <1>1, AgedFacts DEF IInv, Typed
  <2>2. stored' \in [DOMAIN stored' -> Stored]
    BY <1>1, <1>2
  <2> QED BY <1>1, <2>1, <2>2 DEF IInv, Typed, Visits, Stored, Ids, Over
<1>4. ChangesStay'
  <2>1. \A s : Now(s)' = Now(s)
    BY <1>1, <1>2 DEF Now
  <2> QED BY <1>1, <2>1 DEF IInv, ChangesStay
<1>5. UsesWritten'
  <2> SUFFICES ASSUME NEW s \in DOMAIN stored
               PROVE  stored'[s].age <= unused'[s] + ReviveAfter
    BY <1>1 DEF UsesWritten
  <2>1. s \in Ids
    BY Numbers DEF IInv, Typed, Ids
  <2>2. unused[s] \in 0 .. Over /\ unused'[s] = Aged(unused[s])
    BY <1>1, <2>1 DEF IInv, Typed
  <2>3. stored[s].age <= unused[s] + ReviveAfter
    BY DEF IInv, UsesWritten
  <2> QED BY <1>2, <2>2, <2>3, AgedFacts
<1> QED BY <1>3, <1>4, <1>5 DEF IInv

LEMMA NextKeeps == IInv /\ [DbSessionsNext]_dbSessionVars => IInv'
<1> SUFFICES ASSUME IInv, [DbSessionsNext]_dbSessionVars PROVE IInv'
  OBVIOUS
<1>1. ASSUME NEW v \in Visitors, NEW x \in Values, NEW nested \in BOOLEAN,
             SetValue(v, x, nested)
      PROVE  IInv'
  <2>1. /\ Serves(v) /\ WriteValue(v, x)
        /\ CopyKept(v, nested, [visit[v].copy EXCEPT !.value = x])
        /\ meant' = [meant EXCEPT ![visit[v].id].value = x]
        /\ given' = given /\ unused' = unused /\ undone' = undone
    BY <1>1 DEF SetValue
  <2>2. visit[v].at = "serve" /\ visit[v].copy \in Content
    BY <2>1, IdOfVisit DEF IInv, Serves
  <2>3. [visit[v].copy EXCEPT !.value = x] \in Content
    BY <2>2 DEF Content
  <2>4. visit' \in [Visitors -> (Visits \cup {Away})']
    BY <2>1, <2>2, <2>3, CopyFacts DEF IInv
  <2> QED BY <2>1, <2>4, ValueKeeps
<1>2. ASSUME NEW v \in Visitors, RemoveValue(v)
      PROVE  IInv'
  <2>1. /\ Serves(v) /\ WriteValue(v, Unset)
        /\ meant' = [meant EXCEPT ![visit[v].id].value = Unset]
        /\ given' = given /\ unused' = unused /\ undone' = undone
        /\ visit' = visit
    BY <1>2 DEF RemoveValue
  <2>2. visit' \in [Visitors -> (Visits \cup {Away})']
    BY <2>1 DEF IInv, Typed, Visits, Away
  <2> QED BY <2>1, <2>2, ValueKeeps
<1>3. ASSUME NEW v \in Visitors, Leave(v)
      PROVE  IInv'
  <2>1. /\ UNCHANGED <<given, stored, unused, changes, meant, undone>>
        /\ visit' = [visit EXCEPT ![v] = Away]
    BY <1>3 DEF Leave
  <2>2. Typed'
    BY <2>1 DEF IInv, Typed, Visits, Stored, Ids, Over
  <2>3. ChangesStay' /\ UsesWritten'
    BY <2>1 DEF IInv, ChangesStay, UsesWritten, Now
  <2> QED BY <2>2, <2>3 DEF IInv
<1>4. CASE UNCHANGED dbSessionVars
  <2>1. Typed'
    BY <1>4 DEF IInv, Typed, Visits, Stored, Ids, Over, dbSessionVars
  <2>2. ChangesStay' /\ UsesWritten'
    BY <1>4 DEF IInv, ChangesStay, UsesWritten, Now, dbSessionVars
  <2> QED BY <2>1, <2>2 DEF IInv
<1> QED
  BY <1>1, <1>2, <1>3, <1>4, FetchKeeps, CreateKeeps, ReviveKeeps, UserKeeps,
     EndKeeps, ExpireKeeps, PassesKeeps DEF DbSessionsNext

-----------------------------------------------------------------------------
(* What expires was not used.                                              *)

LEMMA UsedStay ==
  ASSUME IInv, [DbSessionsNext]_dbSessionVars,
         NEW s \in DOMAIN stored \ DOMAIN stored'
  PROVE  unused[s] > SessionTimeout \/ changes' # changes
<1>1. ASSUME NEW t, NEW content, Put(t, content)
      PROVE  FALSE
  BY <1>1 DEF Put
<1>2. ASSUME NEW v \in Visitors, EndStored(v)
      PROVE  changes' # changes
  BY <1>2 DEF IInv, Typed, EndStored, Serves
<1>3. CASE ExpireStored
  <2>1. s \in Inactive
    BY <1>3 DEF ExpireStored, RemoveStored
  <2>2. stored[s].age > SessionTimeout + ReviveAfter
    BY <2>1 DEF Inactive
  <2>3. stored[s].age <= unused[s] + ReviveAfter
    BY DEF IInv, UsesWritten
  <2>4. s \in Ids /\ stored[s] \in Stored
    BY Numbers DEF IInv, Typed, Ids
  <2>5. unused[s] \in Int /\ stored[s].age \in Int
    BY <2>4, Numbers DEF IInv, Typed, Stored
  <2> QED BY <2>2, <2>3, <2>5, Numbers
<1>4. CASE DOMAIN stored' = DOMAIN stored
  BY <1>4
<1>5. ASSUME NEW v \in Visitors
      PROVE  /\ \A t \in Ids : FetchStored(v, t) => stored' = stored
             /\ Leave(v) => stored' = stored
  BY DEF FetchStored, Leave
<1>6. ASSUME NEW v \in Visitors
      PROVE  ~CreateStored(v) /\ ~ReviveStored(v) /\ ~RemoveValue(v)
  BY <1>1 DEF CreateStored, ReviveStored, RemoveValue, WriteValue
<1>7. ASSUME NEW v \in Visitors, NEW nested \in BOOLEAN
      PROVE  /\ \A x \in Values : ~SetValue(v, x, nested)
             /\ \A p \in Persons : ~SetUser(v, p, nested)
  BY <1>1 DEF SetValue, SetUser, WriteValue
<1>8. Passes => DOMAIN stored' = DOMAIN stored
  BY DEF Passes
<1>9. UNCHANGED dbSessionVars => stored' = stored
  BY DEF dbSessionVars
<1> QED
  BY <1>2, <1>3, <1>4, <1>5, <1>6, <1>7, <1>8, <1>9 DEF DbSessionsNext

-----------------------------------------------------------------------------
\* The invariant, from which the properties follow.
THEOREM DbSessionsInvariance == DbSessionsSpec => []IInv
BY InitEstablishes, NextKeeps, PTL DEF DbSessionsSpec

\* A session is what the calls made on it amount to until somebody writes an
\* outdated copy over it, and it does not expire while it is used, for any
\* number of requests and sessions.
THEOREM SessionsLast == DbSessionsSpec => StoredSessionsLast
<1>1. IInv => ChangesStay
  BY DEF IInv
<1>2. IInv /\ [DbSessionsNext]_dbSessionVars =>
        [\A s \in DOMAIN stored \ DOMAIN stored' :
           unused[s] > SessionTimeout \/ changes' # changes]_dbSessionVars
  BY UsedStay
<1> QED
  BY <1>1, <1>2, DbSessionsInvariance, PTL
  DEF DbSessionsSpec, StoredSessionsLast, UsedStoredStay

-----------------------------------------------------------------------------
(* Sessions in a cookie. *)

Cells == 0 .. MaxChunks - 1

\* What a response does to the cookies of the client: it brings the session
\* whole, in n chunks, or blanks its first cookie.
Brings(reply, session) ==
  \/ \E n \in 1 .. MaxChunks :
       \A i \in 0 .. n - 1 :
         i \in DOMAIN reply /\ reply[i] = Chunks(session, n)[i]
  \/ session = NoSession /\ 0 \in DOMAIN reply /\ reply[0] = Blank

Fields == {"session", "sent", "reply", "result", "missed"}

\* A request that is under way.
UnderWay(t) ==
  tab[t] # Resting =>
    /\ DOMAIN tab[t].sent = Cells
    /\ DOMAIN tab[t].reply \subseteq Cells
    /\ DOMAIN tab[t].reply # {} =>
         tab[t].missed \/ Brings(tab[t].reply, tab[t].result)
    /\ DOMAIN tab[t] = Fields

CInv ==
  /\ DOMAIN jar = Cells /\ jar = [i \in Cells |-> jar[i]]
  /\ DOMAIN tab = Tabs
  /\ \A t \in Tabs : UnderWay(t)
  /\ CookiesMakeASession

LEMMA MergedValue ==
  ASSUME NEW f, NEW g
  PROVE  /\ DOMAIN Merged(f, g) = DOMAIN f \cup DOMAIN g
         /\ \A i \in DOMAIN f : Merged(f, g)[i] = f[i]
         /\ \A i \in DOMAIN g \ DOMAIN f : Merged(f, g)[i] = g[i]
BY DEF Merged

\* A session is loaded from its chunks, whatever follows them.
LEMMA LoadsWhole ==
  ASSUME NEW cookies, NEW v, NEW n \in 1 .. MaxChunks,
         \A i \in 0 .. n - 1 : cookies[i] = Chunks(v, n)[i]
  PROVE  Load(cookies) = v
<1> USE CookieSessionsAssumption
<1>1. n \in Nat /\ n > 0 /\ 0 \in 0 .. n - 1
  OBVIOUS
<1>2. cookies[0] = [of |-> n, version |-> v, at |-> 0]
  BY <1>1 DEF Chunks
<1>3. cookies[0].of = n /\ cookies[0].version = v
  BY <1>2
<1>4. cookies[0] # NoCookie /\ cookies[0] # Blank
  BY <1>1, <1>3 DEF NoCookie, Blank
<1>5. [i \in 0 .. n - 1 |-> cookies[i]] = Chunks(v, n)
  BY DEF Chunks
<1> QED BY <1>3, <1>4, <1>5 DEF Load

\* What the client loads after a response that brings a session.
LEMMA LoadsBrought ==
  ASSUME NEW reply, NEW old, NEW s, Brings(reply, s)
  PROVE  Load(Merged(reply, old)) = s
<1>1. CASE \E n \in 1 .. MaxChunks :
             \A i \in 0 .. n - 1 : i \in DOMAIN reply /\ reply[i] = Chunks(s, n)[i]
  <2>1. PICK n \in 1 .. MaxChunks :
          \A i \in 0 .. n - 1 : i \in DOMAIN reply /\ reply[i] = Chunks(s, n)[i]
    BY <1>1
  <2>2. \A i \in 0 .. n - 1 : Merged(reply, old)[i] = Chunks(s, n)[i]
    BY <2>1, MergedValue
  <2> QED BY <2>2, LoadsWhole
<1>2. CASE s = NoSession /\ 0 \in DOMAIN reply /\ reply[0] = Blank
  <2>1. Merged(reply, old)[0] = Blank
    BY <1>2, MergedValue
  <2> QED BY <1>2, <2>1 DEF Load
<1> QED BY <1>1, <1>2 DEF Brings

\* An update brings the session, over whatever the response had before.
LEMMA UpdateBrings ==
  ASSUME NEW sent, NEW reply, NEW v, NEW n \in 1 .. MaxChunks,
         DOMAIN reply \subseteq Cells
  PROVE  /\ DOMAIN Updated(sent, reply, v, n) \subseteq Cells
         /\ Brings(Updated(sent, reply, v, n), v)
<1> USE CookieSessionsAssumption
<1> DEFINE cleared == Cleared(SentFrom(sent, n))
           chunks == Chunks(v, n)
           new == Merged(cleared, chunks)
<1>1. DOMAIN cleared \subseteq n .. MaxChunks - 1 /\ DOMAIN chunks = 0 .. n - 1
  BY DEF Cleared, SentFrom, Chunks
<1>2. /\ DOMAIN new = DOMAIN cleared \cup DOMAIN chunks
      /\ \A i \in 0 .. n - 1 : new[i] = chunks[i]
  <2>1. \A i \in 0 .. n - 1 : i \notin DOMAIN cleared
    BY <1>1
  <2> HIDE DEF cleared, chunks
  <2>2. \A i \in DOMAIN chunks \ DOMAIN cleared : new[i] = chunks[i]
    BY MergedValue
  <2>3. DOMAIN new = DOMAIN cleared \cup DOMAIN chunks
    BY MergedValue
  <2> QED BY <1>1, <2>1, <2>2, <2>3
<1> HIDE DEF cleared, chunks, new
<1>3. /\ DOMAIN Merged(new, reply) = DOMAIN new \cup DOMAIN reply
      /\ \A i \in DOMAIN new : Merged(new, reply)[i] = new[i]
  BY MergedValue
<1>4. DOMAIN Merged(new, reply) \subseteq Cells
  <2>1. n .. MaxChunks - 1 \subseteq Cells /\ 0 .. n - 1 \subseteq Cells
    BY DEF Cells
  <2> QED BY <1>1, <1>2, <1>3, <2>1
<1>5. \A i \in 0 .. n - 1 :
        i \in DOMAIN Merged(new, reply) /\ Merged(new, reply)[i] = chunks[i]
  BY <1>1, <1>2, <1>3
<1>6. Updated(sent, reply, v, n) = Merged(new, reply)
  BY DEF Updated, new, cleared, chunks
<1>7. Brings(Merged(new, reply), v)
  BY <1>5 DEF Brings, chunks
<1> QED BY <1>4, <1>6, <1>7

\* The end of a session that the client has sent brings no session.
LEMMA EndBrings ==
  ASSUME NEW sent, NEW reply, DOMAIN reply \subseteq Cells
  PROVE  LET ended == Merged(Cleared(SentFrom(sent, 0)), reply) IN
         /\ DOMAIN ended \subseteq Cells
         /\ sent[0] = NoCookie \/ Brings(ended, NoSession)
<1> USE CookieSessionsAssumption
<1> DEFINE cleared == Cleared(SentFrom(sent, 0))
<1>1. DOMAIN cleared \subseteq Cells /\ \A i \in DOMAIN cleared : cleared[i] = Blank
  BY DEF Cleared, SentFrom, Cells
<1>2. sent[0] # NoCookie => 0 \in DOMAIN cleared
  BY DEF Cleared, SentFrom
<1> HIDE DEF cleared
<1>3. /\ DOMAIN Merged(cleared, reply) = DOMAIN cleared \cup DOMAIN reply
      /\ \A i \in DOMAIN cleared : Merged(cleared, reply)[i] = cleared[i]
  BY MergedValue
<1>4. DOMAIN Merged(cleared, reply) \subseteq Cells
  BY <1>1, <1>3
<1>5. sent[0] # NoCookie => Brings(Merged(cleared, reply), NoSession)
  BY <1>1, <1>2, <1>3 DEF Brings
<1> QED BY <1>4, <1>5 DEF cleared
-----------------------------------------------------------------------------
LEMMA CInvInit == CookiesInit => CInv
<1> SUFFICES ASSUME CookiesInit PROVE CInv
  OBVIOUS
<1> USE CookieSessionsAssumption
<1>1. /\ DOMAIN jar = Cells /\ jar = [i \in Cells |-> jar[i]]
      /\ DOMAIN tab = Tabs /\ \A t \in Tabs : tab[t] = Resting
  BY DEF CookiesInit, Cells
<1>2. jar[0] = NoCookie /\ kept = NoSession
  BY DEF CookiesInit
<1>3. Load(jar) = NoSession
  BY <1>2 DEF Load
<1> QED BY <1>1, <1>2, <1>3 DEF CInv, UnderWay, CookiesMakeASession

\* A step of one request, which leaves the others alone.
LEMMA OneRequest ==
  ASSUME CInv, NEW t \in Tabs, NEW x, tab' = [tab EXCEPT ![t] = x],
         x # Resting =>
           /\ DOMAIN x.sent = Cells
           /\ DOMAIN x.reply \subseteq Cells
           /\ DOMAIN x.reply # {} => x.missed \/ Brings(x.reply, x.result)
           /\ DOMAIN x = Fields
  PROVE  DOMAIN tab' = Tabs /\ \A u \in Tabs : UnderWay(u)'
<1>1. DOMAIN tab' = Tabs /\ tab'[t] = x /\ \A u \in Tabs : u # t => tab'[u] = tab[u]
  BY DEF CInv
<1>2. ASSUME NEW u \in Tabs, u # t PROVE UnderWay(u)'
  <2>1. tab'[u] = tab[u]
    BY <1>1, <1>2
  <2> QED BY <2>1 DEF CInv, UnderWay
<1>3. UnderWay(t)'
  BY <1>1 DEF UnderWay
<1> QED BY <1>1, <1>2, <1>3

LEMMA SendStep ==
  ASSUME CInv, NEW t \in Tabs, Send(t) PROVE CInv'
<1> USE CookieSessionsAssumption
<1>0. DOMAIN jar = Cells /\ CookiesMakeASession
  BY DEF CInv
<1>1. jar' = jar /\ kept' = kept /\ unended' = unended
  BY DEF Send
<1>2. CookiesMakeASession'
  <2>1. Load(jar') = Load(jar)
    BY <1>1
  <2> QED BY <1>0, <1>1, <2>1 DEF CookiesMakeASession
<1>3. DOMAIN tab' = Tabs /\ \A u \in Tabs : UnderWay(u)'
  <2>1. CASE tab' = [tab EXCEPT ![t] =
             [session |-> Load(jar), sent |-> jar, reply |-> <<>>,
              result |-> Load(jar), missed |-> FALSE]]
    <3> DEFINE x == [session |-> Load(jar), sent |-> jar, reply |-> <<>>,
                     result |-> Load(jar), missed |-> FALSE]
    <3>1. DOMAIN x.sent = Cells /\ DOMAIN x.reply = {} /\ DOMAIN x = Fields
      BY <1>0 DEF Fields
    <3>2. tab' = [tab EXCEPT ![t] = x]
      BY <2>1
    <3> HIDE DEF x
    <3> QED BY <3>1, <3>2, OneRequest
  <2>2. CASE \E n \in 1 .. MaxChunks :
             tab' = [tab EXCEPT ![t] =
               [session |-> versions', sent |-> jar,
                reply |-> Updated(jar, <<>>, versions', n),
                result |-> versions', missed |-> FALSE]]
    <3>1. PICK n \in 1 .. MaxChunks :
            tab' = [tab EXCEPT ![t] =
               [session |-> versions', sent |-> jar,
                reply |-> Updated(jar, <<>>, versions', n),
                result |-> versions', missed |-> FALSE]]
      BY <2>2
    <3>2. PICK v : v = versions'
      OBVIOUS
    <3>3. PICK reply : reply = Updated(jar, <<>>, v, n)
      OBVIOUS
    <3>4. DOMAIN reply \subseteq Cells /\ Brings(reply, v)
      <4>1. DOMAIN <<>> \subseteq Cells
        OBVIOUS
      <4> QED BY <3>3, <4>1, UpdateBrings
    <3> DEFINE x == [session |-> v, sent |-> jar, reply |-> reply,
                     result |-> v, missed |-> FALSE]
    <3>5. tab' = [tab EXCEPT ![t] = x]
      BY <3>1, <3>2, <3>3
    <3>6. /\ DOMAIN x.sent = Cells
          /\ DOMAIN x.reply \subseteq Cells
          /\ Brings(x.reply, x.result)
          /\ DOMAIN x = Fields
      BY <1>0, <3>4 DEF Fields
    <3> HIDE DEF x
    <3> QED BY <3>5, <3>6, OneRequest
  <2> QED BY <2>1, <2>2 DEF Send
<1> QED BY <1>0, <1>1, <1>2, <1>3 DEF CInv

LEMMA ChangeStep ==
  ASSUME CInv, NEW t \in Tabs, NEW n \in 1 .. MaxChunks, Change(t, n)
  PROVE  CInv'
<1> USE CookieSessionsAssumption
<1>0. DOMAIN jar = Cells /\ CookiesMakeASession /\ tab[t] # Resting /\ UnderWay(t)
  BY DEF CInv, Change
<1>1. jar' = jar /\ kept' = kept /\ unended' = unended
  BY DEF Change
<1>2. CookiesMakeASession'
  <2>1. Load(jar') = Load(jar)
    BY <1>1
  <2> QED BY <1>0, <1>1, <2>1 DEF CookiesMakeASession
<1>3. PICK x : x = tab'[t]
  OBVIOUS
<1>4. /\ DOMAIN tab[t] = Fields /\ DOMAIN tab[t].sent = Cells
      /\ DOMAIN tab[t].reply \subseteq Cells /\ DOMAIN tab = Tabs
  BY <1>0 DEF UnderWay, CInv
<1>5. /\ tab' = [tab EXCEPT ![t] = x] /\ DOMAIN x = Fields
      /\ x.sent = tab[t].sent /\ x.result = versions'
      /\ x.reply = Updated(tab[t].sent, tab[t].reply, versions', n)
  BY <1>3, <1>4 DEF Change, Fields
<1>6. DOMAIN x.reply \subseteq Cells /\ Brings(x.reply, x.result)
  BY <1>4, <1>5, UpdateBrings
<1>7. DOMAIN tab' = Tabs /\ \A u \in Tabs : UnderWay(u)'
  BY <1>4, <1>5, <1>6, OneRequest
<1> QED BY <1>0, <1>1, <1>2, <1>7 DEF CInv

LEMMA EndSessionStep ==
  ASSUME CInv, NEW t \in Tabs, EndSession(t) PROVE CInv'
<1> USE CookieSessionsAssumption
<1>0. DOMAIN jar = Cells /\ CookiesMakeASession /\ tab[t] # Resting /\ UnderWay(t)
  BY DEF CInv, EndSession
<1>1. jar' = jar /\ kept' = kept /\ unended' = unended
  BY DEF EndSession
<1>2. CookiesMakeASession'
  <2>1. Load(jar') = Load(jar)
    BY <1>1
  <2> QED BY <1>0, <1>1, <2>1 DEF CookiesMakeASession
<1>3. PICK x : x = tab'[t]
  OBVIOUS
<1>4. /\ DOMAIN tab[t] = Fields /\ DOMAIN tab[t].sent = Cells
      /\ DOMAIN tab[t].reply \subseteq Cells /\ DOMAIN tab = Tabs
  BY <1>0 DEF UnderWay, CInv
<1>5. /\ tab' = [tab EXCEPT ![t] = x] /\ DOMAIN x = Fields
      /\ x.sent = tab[t].sent /\ x.result = NoSession
      /\ x.reply = Merged(Cleared(SentFrom(tab[t].sent, 0)), tab[t].reply)
      /\ x.missed = (tab[t].sent[0] = NoCookie)
  BY <1>3, <1>4 DEF EndSession, Fields
<1>6. DOMAIN x.reply \subseteq Cells /\ (x.missed \/ Brings(x.reply, x.result))
  BY <1>4, <1>5, EndBrings
<1>7. DOMAIN tab' = Tabs /\ \A u \in Tabs : UnderWay(u)'
  BY <1>4, <1>5, <1>6, OneRequest
<1> QED BY <1>0, <1>1, <1>2, <1>7 DEF CInv

LEMMA ArriveStep ==
  ASSUME CInv, NEW t \in Tabs, Arrive(t) PROVE CInv'
<1>0. DOMAIN jar = Cells /\ CookiesMakeASession /\ tab[t] # Resting /\ UnderWay(t)
  BY DEF CInv, Arrive
<1>1. DOMAIN tab' = Tabs /\ \A u \in Tabs : UnderWay(u)'
  BY OneRequest DEF Arrive
<1>2. PICK reply : reply = tab[t].reply
  OBVIOUS
<1>3. jar' = Merged(reply, jar) /\ DOMAIN reply \subseteq Cells
  BY <1>0, <1>2 DEF Arrive, UnderWay
<1>4. DOMAIN jar' = Cells /\ jar' = [i \in Cells |-> jar'[i]]
  <2>1. DOMAIN Merged(reply, jar) = DOMAIN reply \cup DOMAIN jar
    BY MergedValue
  <2>2. DOMAIN reply \cup DOMAIN jar = Cells
    BY <1>0, <1>3
  <2>3. jar' = [i \in Cells |-> IF i \in DOMAIN reply THEN reply[i] ELSE jar[i]]
    BY <1>3, <2>2 DEF Merged
  <2> QED BY <2>3
<1>5. CASE DOMAIN reply = {}
  <2>1. kept' = kept /\ unended' = unended
    BY <1>2, <1>5 DEF Arrive
  <2>2. jar' = [i \in Cells |-> jar[i]]
    BY <1>0, <1>3, <1>5 DEF Merged
  <2>3. jar' = jar
    BY <2>2 DEF CInv
  <2>4. Load(jar') = Load(jar)
    BY <2>3
  <2> QED BY <1>0, <1>1, <1>4, <2>1, <2>4 DEF CInv, CookiesMakeASession
<1>6. CASE DOMAIN reply # {}
  <2>1. kept' = tab[t].result /\ unended' = tab[t].missed
    BY <1>2, <1>6 DEF Arrive
  <2>2. tab[t].missed \/ Brings(reply, tab[t].result)
    BY <1>0, <1>2, <1>6 DEF UnderWay
  <2>3. unended' \/ Load(jar') = kept'
    BY <1>3, <2>1, <2>2, LoadsBrought
  <2> QED BY <1>1, <1>4, <2>3 DEF CInv, CookiesMakeASession
<1> QED BY <1>5, <1>6

LEMMA LoseStep ==
  ASSUME CInv, NEW t \in Tabs, Lose(t) PROVE CInv'
<1>1. jar' = jar /\ kept' = kept /\ unended' = unended
  BY DEF Lose
<1>2. Load(jar') = Load(jar)
  BY <1>1
<1>3. DOMAIN tab' = Tabs /\ \A u \in Tabs : UnderWay(u)'
  BY OneRequest DEF Lose
<1> QED BY <1>1, <1>2, <1>3 DEF CInv, CookiesMakeASession

LEMMA CInvStep == CInv /\ [CookiesNext]_cookieVars => CInv'
<1> SUFFICES ASSUME CInv, [CookiesNext]_cookieVars PROVE CInv'
  OBVIOUS
<1>1. CASE UNCHANGED cookieVars
  <2>1. jar' = jar /\ tab' = tab /\ kept' = kept /\ unended' = unended
    BY <1>1 DEF cookieVars
  <2>2. Load(jar') = Load(jar)
    BY <2>1
  <2> QED BY <2>1, <2>2 DEF CInv, UnderWay, CookiesMakeASession
<1>2. CASE CookiesNext
  <2>1. PICK t \in Tabs : \/ Send(t) \/ EndSession(t) \/ Arrive(t) \/ Lose(t)
                          \/ \E n \in 1 .. MaxChunks : Change(t, n)
    BY <1>2 DEF CookiesNext
  <2> QED BY <2>1, SendStep, EndSessionStep, ArriveStep, LoseStep, ChangeStep
<1> QED BY <1>1, <1>2

\* Every response that was applied, whole and in whatever order, is one that
\* brings the session of its request, or ends it.
THEOREM CookiesInvariance == CookiesSpec => []CInv
BY CInvInit, CInvStep, PTL DEF CookiesSpec

\* The client has the session of the response that came last, whole, whatever
\* chunks other responses left (Session._update and Session.load).
THEOREM CookiesAreASession == CookiesSpec => []CookiesMakeASession
<1>1. CInv => CookiesMakeASession
  BY DEF CInv
<1> QED BY CookiesInvariance, <1>1, PTL
=============================================================================
