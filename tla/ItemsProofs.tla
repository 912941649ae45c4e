----------------------------- MODULE ItemsProofs -----------------------------
(***************************************************************************)
(* Proofs about the items of the store: concurrent transactions that       *)
(* change them, for any number of threads, items, retries and commits; the *)
(* roles that they inherit, for any users, descriptors, objects and calls; *)
(* and the documents and composites that they keep outside their record,   *)
(* for any attributes, contents, calls and versions of a schema.           *)
(*                                                                         *)
(* IInv: two-phase locking. What a transaction has read is what is         *)
(* committed, no other has written it, and it writes one more.             *)
(* RolesInv: the objects are a tree, and those that inherit their roles    *)
(* have those of their parents, until the roles of an outdated copy are    *)
(* written.                                                                *)
(* AttInv: no two attributes have the same document, and every document    *)
(* and composite belongs to an attribute, or was left behind by a version  *)
(* of the schema; a call holds new composites and composites of its own    *)
(* item.                                                                   *)
(***************************************************************************)
EXTENDS ItemLocks, Roles, Attachments, FiniteSetTheorems, TLAPS

-----------------------------------------------------------------------------
(* The locks of items. *)

States == {"idle", "runs", "waits", "backoff", "failed"}
Counts == UNION {[S -> Nat] : S \in SUBSET LockedItems}
Txns == [at : States, want : {NoAccess} \cup Accesses, read : Counts,
         wrote : Counts]

\* A transaction that waits to write an item has read it.
AsksInOrder(t) ==
  t.at = "waits" =>
    t.want \in Accesses /\ (t.want.op = "put" => t.want.item \in DOMAIN t.read)

\* What a transaction has read is still what is committed, and it writes one
\* more.
UpToDate(t, committed) ==
  /\ \A i \in DOMAIN t.read : t.read[i] = committed[i]
  /\ \A i \in DOMAIN t.wrote : i \in DOMAIN t.read /\ t.wrote[i] = t.read[i] + 1

\* Nobody has read what another transaction has written.
Excluded(of) ==
  \A v, w \in Writers : v # w => DOMAIN of[v].wrote \cap DOMAIN of[w].read = {}

LocksHold(of, committed) ==
  /\ of \in [Writers -> Txns]
  /\ committed \in [LockedItems -> Nat]
  /\ \A w \in Writers : AsksInOrder(of[w]) /\ UpToDate(of[w], committed)
  /\ Excluded(of)

\* A thread that has a call under way has a commit left.
CommitLeft ==
  \A w \in Writers : txn[w].at \in {"runs", "waits", "backoff"} =>
    \A i \in LockedItems : landed[w][i] < MaxCommits

Landed(i) == {c \in Writers \X (1 .. MaxCommits) : c[2] <= landed[c[1]][i]}

IInv ==
  /\ worksOn \in WorksGiven
  /\ LocksHold(txn, content)
  /\ landed \in [Writers -> [LockedItems -> 0 .. MaxCommits]]
  /\ CommitLeft
  /\ NoLostUpdates

-----------------------------------------------------------------------------
(* The lock manager.                                                       *)

LEMMA NothingReadOrWritten ==
  ASSUME NEW at \in States
  PROVE  /\ NoTxn(at) \in Txns
         /\ DOMAIN NoTxn(at).read = {} /\ DOMAIN NoTxn(at).wrote = {}
         /\ NoTxn(at).at = at /\ NoTxn(at).want = NoAccess
<1>1. <<>> \in Counts /\ DOMAIN <<>> = {}
  <2>1. <<>> \in [{} -> Nat] /\ DOMAIN <<>> = {}
    OBVIOUS
  <2> QED BY <2>1 DEF Counts
<1> QED BY <1>1 DEF NoTxn, Txns

LEMMA WithAdds ==
  ASSUME NEW f \in Counts, NEW i \in LockedItems, NEW n \in Nat
  PROVE  /\ With(f, i, n) \in Counts
         /\ DOMAIN With(f, i, n) = DOMAIN f \cup {i}
         /\ With(f, i, n)[i] = n
         /\ \A j \in DOMAIN f \ {i} : With(f, i, n)[j] = f[j]
<1>1. PICK S \in SUBSET LockedItems : f \in [S -> Nat]
  BY DEF Counts
<1>2. With(f, i, n) \in [S \cup {i} -> Nat]
  BY <1>1 DEF With
<1>3. S \cup {i} \in SUBSET LockedItems
  OBVIOUS
<1>4. With(f, i, n) \in Counts
  BY <1>2, <1>3 DEF Counts
<1>5. DOMAIN With(f, i, n) = DOMAIN f \cup {i}
  BY DEF With
<1>6. /\ With(f, i, n)[i] = n
      /\ \A j \in DOMAIN f \ {i} : With(f, i, n)[j] = f[j]
  BY DEF With
<1> QED BY <1>4, <1>5, <1>6

\* A lock that is granted adds a read of what is committed, or a write of one
\* more than was read.
LEMMA GrantedAccess ==
  ASSUME NEW t \in Txns, t.at = "waits", AsksInOrder(t),
         content' \in [LockedItems -> Nat], UpToDate(t, content')
  PROVE  /\ Granted(t) \in Txns
         /\ Granted(t).at = "runs"
         /\ UpToDate(Granted(t), content')
         /\ t.want \in Accesses
         /\ DOMAIN Granted(t).read =
              IF t.want.op = "get" THEN DOMAIN t.read \cup {t.want.item}
              ELSE DOMAIN t.read
         /\ DOMAIN Granted(t).wrote =
              IF t.want.op = "put" THEN DOMAIN t.wrote \cup {t.want.item}
              ELSE DOMAIN t.wrote
<1> DEFINE i == t.want.item
           r == t.read
           u == t.wrote
<1>1. /\ t.want \in Accesses /\ i \in LockedItems /\ t.want.op \in {"get", "put"}
      /\ t.want.op = "put" => i \in DOMAIN r
  BY DEF AsksInOrder, Accesses
<1>2. /\ r \in Counts /\ u \in Counts
      /\ \A j \in DOMAIN r : r[j] \in Nat /\ r[j] = content'[j]
      /\ \A j \in DOMAIN u : j \in DOMAIN r /\ u[j] = r[j] + 1
  BY DEF Txns, Counts, UpToDate
<1>3. content'[i] \in Nat
  BY <1>1
<1>4. CASE t.want.op = "get"
  <2> DEFINE q == With(r, i, content'[i])
  <2>1. /\ Granted(t) = [t EXCEPT !.at = "runs", !.want = NoAccess,
                                 !.read = q, !.wrote = u]
        /\ Granted(t).at = "runs"
        /\ Granted(t).read = q /\ Granted(t).wrote = u
    BY <1>4 DEF Granted, Txns
  <2> HIDE DEF i, r, u
  <2>2. /\ q \in Counts /\ DOMAIN q = DOMAIN r \cup {i}
        /\ q[i] = content'[i] /\ \A j \in DOMAIN r \ {i} : q[j] = r[j]
    <3>1. i \in LockedItems
      BY <1>1
    <3>2. r \in Counts
      BY <1>2
    <3>3. content'[i] \in Nat
      BY <1>3
    <3> QED BY <3>1, <3>2, <3>3, WithAdds
  <2> HIDE DEF q
  <2>3. \A j \in DOMAIN q : q[j] = content'[j]
    BY <1>2, <2>2
  <2>4. \A j \in DOMAIN u : j \in DOMAIN q /\ u[j] = q[j] + 1
    BY <1>2, <2>2, <2>3
  <2>5. Granted(t) \in Txns
    <3>1. \A a \in States, f, g \in Counts :
            [t EXCEPT !.at = a, !.want = NoAccess, !.read = f, !.wrote = g] \in Txns
      BY DEF Txns
    <3>2. "runs" \in States
      BY DEF States
    <3>3. u \in Counts
      BY <1>2
    <3>4. q \in Counts
      BY <2>2
    <3>5. Granted(t) = [t EXCEPT !.at = "runs", !.want = NoAccess,
                                 !.read = q, !.wrote = u]
      BY <2>1
    <3>6. [t EXCEPT !.at = "runs", !.want = NoAccess,
                    !.read = q, !.wrote = u] \in Txns
      BY <3>1, <3>2, <3>3, <3>4
    <3> QED BY <3>5, <3>6
  <2> QED BY <1>1, <1>4, <2>1, <2>2, <2>3, <2>4, <2>5 DEF UpToDate, i, r, u
<1>5. CASE t.want.op = "put"
  <2> DEFINE q == With(u, i, r[i] + 1)
  <2>1. /\ Granted(t) = [t EXCEPT !.at = "runs", !.want = NoAccess,
                                 !.read = r, !.wrote = q]
        /\ Granted(t).at = "runs"
        /\ Granted(t).read = r /\ Granted(t).wrote = q
    BY <1>5 DEF Granted, Txns
  <2> HIDE DEF i, r, u
  <2>2. r[i] + 1 \in Nat
    BY <1>1, <1>2, <1>5
  <2>3. /\ q \in Counts /\ DOMAIN q = DOMAIN u \cup {i}
        /\ q[i] = r[i] + 1 /\ \A j \in DOMAIN u \ {i} : q[j] = u[j]
    <3>1. i \in LockedItems
      BY <1>1
    <3>2. u \in Counts
      BY <1>2
    <3> QED BY <2>2, <3>1, <3>2, WithAdds
  <2> HIDE DEF q
  <2>4. \A j \in DOMAIN q : j \in DOMAIN r /\ q[j] = r[j] + 1
    BY <1>1, <1>2, <1>5, <2>3
  <2>5. Granted(t) \in Txns
    <3>1. \A a \in States, f, g \in Counts :
            [t EXCEPT !.at = a, !.want = NoAccess, !.read = f, !.wrote = g] \in Txns
      BY DEF Txns
    <3>2. "runs" \in States
      BY DEF States
    <3>3. r \in Counts
      BY <1>2
    <3>4. q \in Counts
      BY <2>3
    <3>5. Granted(t) = [t EXCEPT !.at = "runs", !.want = NoAccess,
                                 !.read = r, !.wrote = q]
      BY <2>1
    <3>6. [t EXCEPT !.at = "runs", !.want = NoAccess,
                    !.read = r, !.wrote = q] \in Txns
      BY <3>1, <3>2, <3>3, <3>4
    <3> QED BY <3>5, <3>6
  <2> QED BY <1>1, <1>2, <1>5, <2>1, <2>3, <2>4, <2>5 DEF UpToDate, i, r, u
<1> QED BY <1>1, <1>4, <1>5

\* Granting every lock that nobody blocks keeps the locks.
LEMMA ServedHolds ==
  ASSUME NEW of, LocksHold(of, content')
  PROVE  LocksHold(Served(of), content')
<1> DEFINE grants == {w \in Writers : of[w].at = "waits" /\ BlockersIn(w, of) = {}}
<1>1. /\ of \in [Writers -> Txns] /\ content' \in [LockedItems -> Nat]
      /\ \A w \in Writers : AsksInOrder(of[w]) /\ UpToDate(of[w], content')
      /\ Excluded(of)
  BY DEF LocksHold
<1>2. /\ \A w \in grants : Served(of)[w] = Granted(of[w])
      /\ \A w \in Writers \ grants : Served(of)[w] = of[w]
      /\ DOMAIN Served(of) = Writers
      /\ Served(of) = [w \in Writers |-> Served(of)[w]]
  BY DEF Served
<1>3. ASSUME NEW w \in Writers
      PROVE  /\ Served(of)[w] \in Txns
             /\ AsksInOrder(Served(of)[w]) /\ UpToDate(Served(of)[w], content')
  <2>1. CASE w \in grants
    <3>1. /\ Granted(of[w]) \in Txns /\ Granted(of[w]).at = "runs"
          /\ UpToDate(Granted(of[w]), content')
      BY <1>1, <2>1, GrantedAccess
    <3> QED BY <1>2, <2>1, <3>1 DEF AsksInOrder
  <2>2. CASE w \notin grants
    BY <1>1, <1>2, <2>2
  <2> QED BY <2>1, <2>2
<1>4. ASSUME NEW w \in Writers
      PROVE  /\ w \in grants => of[w].want \in Accesses
             /\ DOMAIN Served(of)[w].read =
                  IF w \in grants /\ of[w].want.op = "get"
                  THEN DOMAIN of[w].read \cup {of[w].want.item}
                  ELSE DOMAIN of[w].read
             /\ DOMAIN Served(of)[w].wrote =
                  IF w \in grants /\ of[w].want.op = "put"
                  THEN DOMAIN of[w].wrote \cup {of[w].want.item}
                  ELSE DOMAIN of[w].wrote
  <2>1. CASE w \in grants
    BY <1>1, <1>2, <2>1, GrantedAccess
  <2>2. CASE w \notin grants
    BY <1>2, <2>2
  <2> QED BY <2>1, <2>2
<1>5. Excluded(Served(of))
  <2> SUFFICES ASSUME NEW v \in Writers, NEW w \in Writers, v # w, NEW i,
                      i \in DOMAIN Served(of)[v].wrote,
                      i \in DOMAIN Served(of)[w].read
               PROVE  FALSE
    BY DEF Excluded
  <2>1. i \in DOMAIN of[v].wrote => i \notin DOMAIN of[w].read
    BY <1>1 DEF Excluded
  <2>2. CASE i \notin DOMAIN of[v].wrote
    <3>1. /\ v \in grants /\ of[v].want \in Accesses
          /\ of[v].want.op = "put" /\ of[v].want.item = i
      BY <1>4, <2>2
    <3>2. of[v].want = [op |-> "put", item |-> i]
      BY <3>1 DEF Accesses
    <3>3. i \notin DOMAIN of[w].read
      BY <3>1 DEF BlockersIn
    <3>4. /\ w \in grants /\ of[w].want.op = "get" /\ of[w].want.item = i
      BY <1>4, <3>3
    <3>5. v \in BlockersIn(w, of)
      BY <3>2, <3>4 DEF BlockersIn
    <3> QED BY <3>4, <3>5
  <2>3. CASE i \in DOMAIN of[v].wrote
    <3>1. /\ w \in grants /\ of[w].want.op = "get" /\ of[w].want.item = i
      BY <1>4, <2>1, <2>3
    <3>2. v \in BlockersIn(w, of)
      BY <2>3, <3>1 DEF BlockersIn
    <3> QED BY <3>1, <3>2
  <2> QED BY <2>2, <2>3
<1> HIDE DEF grants
<1>6. Served(of) \in [Writers -> Txns]
  BY <1>2, <1>3
<1> QED BY <1>1, <1>3, <1>5, <1>6 DEF LocksHold

\* Serving a thread does not begin a call.
LEMMA ServedStates ==
  ASSUME NEW of \in [Writers -> Txns], NEW w \in Writers
  PROVE  \/ Served(of)[w].at = of[w].at
         \/ of[w].at = "waits" /\ Served(of)[w].at = "runs"
<1>1. CASE of[w].at = "waits" /\ BlockersIn(w, of) = {}
  <2>1. Served(of)[w] = Granted(of[w])
    BY <1>1 DEF Served
  <2>2. Granted(of[w]).at = "runs"
    BY DEF Granted, Txns
  <2> QED BY <1>1, <2>1, <2>2
<1>2. CASE ~(of[w].at = "waits" /\ BlockersIn(w, of) = {})
  BY <1>2 DEF Served
<1> QED BY <1>1, <1>2

\* A thread ends its transaction, begins one, or asks for a lock.
LEMMA ReplacedHolds ==
  ASSUME LocksHold(txn, content), NEW w \in Writers, NEW t \in Txns,
         AsksInOrder(t), UpToDate(t, content'),
         content' \in [LockedItems -> Nat],
         \A v \in Writers \ {w} :
           /\ UpToDate(txn[v], content')
           /\ DOMAIN t.wrote \cap DOMAIN txn[v].read = {}
           /\ DOMAIN txn[v].wrote \cap DOMAIN t.read = {}
  PROVE  LocksHold([txn EXCEPT ![w] = t], content')
<1> DEFINE of == [txn EXCEPT ![w] = t]
<1>1. of \in [Writers -> Txns]
  BY DEF LocksHold
<1>2. of[w] = t /\ \A v \in Writers \ {w} : of[v] = txn[v]
  BY DEF LocksHold
<1> HIDE DEF of
<1>3. \A v \in Writers : AsksInOrder(of[v]) /\ UpToDate(of[v], content')
  BY <1>2 DEF LocksHold
<1>4. Excluded(of)
  <2> SUFFICES ASSUME NEW v \in Writers, NEW x \in Writers, v # x
               PROVE  DOMAIN of[v].wrote \cap DOMAIN of[x].read = {}
    BY DEF Excluded
  <2>1. CASE v = w
    BY <1>2, <2>1
  <2>2. CASE x = w
    BY <1>2, <2>2
  <2>3. CASE v # w /\ x # w
    BY <1>2, <2>3 DEF LocksHold, Excluded
  <2> QED BY <2>1, <2>2, <2>3
<1>5. LocksHold(of, content')
  BY <1>1, <1>3, <1>4 DEF LocksHold
<1> QED BY <1>5 DEF of

LEMMA EmptiedHolds ==
  ASSUME LocksHold(txn, content), NEW w \in Writers, NEW at \in States \ {"waits"},
         content' \in [LockedItems -> Nat],
         \A v \in Writers \ {w} : UpToDate(txn[v], content')
  PROVE  LocksHold([txn EXCEPT ![w] = NoTxn(at)], content')
<1> DEFINE t == NoTxn(at)
<1>1. /\ t \in Txns /\ t.at = at
      /\ DOMAIN t.read = {} /\ DOMAIN t.wrote = {}
  BY NothingReadOrWritten
<1> HIDE DEF t
<1>2. AsksInOrder(t) /\ UpToDate(t, content')
  BY <1>1 DEF AsksInOrder, UpToDate
<1>3. LocksHold([txn EXCEPT ![w] = t], content')
  BY <1>1, <1>2, ReplacedHolds
<1> QED BY <1>3 DEF t

-----------------------------------------------------------------------------
(* The invariant.                                                          *)

LEMMA InitEstablishes == LocksInit => IInv
<1> SUFFICES ASSUME LocksInit PROVE IInv
  OBVIOUS
<1>1. /\ txn \in [Writers -> Txns] /\ content \in [LockedItems -> Nat]
      /\ \A w \in Writers :
           /\ txn[w].at = "idle"
           /\ DOMAIN txn[w].read = {} /\ DOMAIN txn[w].wrote = {}
  BY NothingReadOrWritten DEF LocksInit, States
<1>2. LocksHold(txn, content)
  BY <1>1 DEF LocksHold, AsksInOrder, UpToDate, Excluded
<1>3. landed \in [Writers -> [LockedItems -> 0 .. MaxCommits]]
  BY ItemLocksAssumption DEF LocksInit
<1>4. CommitLeft
  BY <1>1 DEF CommitLeft
<1>5. NoLostUpdates
  <2> SUFFICES ASSUME NEW i \in LockedItems
               PROVE  content[i] = Cardinality(Landed(i))
    BY DEF NoLostUpdates, Landed
  <2>1. Landed(i) = {}
    BY DEF Landed, LocksInit
  <2> QED BY <2>1, FS_EmptySet DEF LocksInit
<1> QED BY <1>2, <1>3, <1>4, <1>5 DEF IInv, LocksInit

\* A step that commits nothing keeps what is counted.
LEMMA NothingCommitted ==
  ASSUME IInv, UNCHANGED <<worksOn, content, landed>>,
         LocksHold(txn', content'), CommitLeft'
  PROVE  IInv'
<1>1. NoLostUpdates'
  BY DEF IInv, NoLostUpdates
<1> QED BY <1>1 DEF IInv

LEMMA BeginKeeps ==
  ASSUME IInv, NEW w \in Writers, BeginTry(w)
  PROVE  IInv'
<1>1. content' \in [LockedItems -> Nat]
      /\ \A v \in Writers : UpToDate(txn[v], content')
  BY DEF IInv, LocksHold, BeginTry
<1>2. txn' = [txn EXCEPT ![w] = NoTxn("runs")]
  BY DEF BeginTry
<1>3. LocksHold(txn', content')
  BY <1>1, <1>2, EmptiedHolds DEF IInv, States
<1>4. CommitLeft'
  <2>1. \A v \in Writers \ {w} : txn'[v] = txn[v]
    BY <1>2 DEF IInv, LocksHold
  <2>2. \A i \in LockedItems : landed[w][i] < MaxCommits
    BY DEF IInv, CommitLeft, BeginTry
  <2> QED BY <2>1, <2>2 DEF IInv, CommitLeft, BeginTry
<1> QED BY <1>3, <1>4, NothingCommitted DEF BeginTry

LEMMA AskKeeps ==
  ASSUME IInv, NEW w \in Writers, Ask(w)
  PROVE  IInv'
<1>1. PICK access \in [op : {"get", "put"}, item : worksOn[w]] :
        /\ access.op = "get" <=> access.item \notin DOMAIN txn[w].read
        /\ txn' = Served([txn EXCEPT ![w].at = "waits", ![w].want = access])
  BY DEF Ask
<1> DEFINE t == [txn[w] EXCEPT !.at = "waits", !.want = access]
           of == [txn EXCEPT ![w] = t]
<1>2. txn \in [Writers -> Txns] /\ txn[w] \in Txns /\ content' = content
  BY DEF IInv, LocksHold, Ask
<1>3. txn' = Served(of)
  BY <1>1, <1>2
<1>4. access \in Accesses /\ (access.op = "put" => access.item \in DOMAIN txn[w].read)
  <2>1. worksOn[w] \subseteq LockedItems
    BY ItemLocksAssumption DEF IInv
  <2> QED BY <1>1, <2>1 DEF Accesses
<1>5. /\ t \in Txns /\ t.at = "waits" /\ t.want = access
      /\ t.read = txn[w].read /\ t.wrote = txn[w].wrote
  BY <1>2, <1>4 DEF Txns, States
<1> HIDE DEF t
<1>6. AsksInOrder(t) /\ UpToDate(t, content')
  BY <1>2, <1>4, <1>5 DEF AsksInOrder, UpToDate, IInv, LocksHold
<1>7. LocksHold(of, content')
  <2>1. content' \in [LockedItems -> Nat]
    BY <1>2 DEF IInv, LocksHold
  <2>2. ASSUME NEW v \in Writers \ {w}
        PROVE  /\ UpToDate(txn[v], content')
               /\ DOMAIN t.wrote \cap DOMAIN txn[v].read = {}
               /\ DOMAIN txn[v].wrote \cap DOMAIN t.read = {}
    BY <1>2, <1>5 DEF IInv, LocksHold, Excluded
  <2>3. LocksHold(txn, content)
    BY DEF IInv
  <2> QED BY <1>5, <1>6, <2>1, <2>2, <2>3, ReplacedHolds
<1>8. LocksHold(txn', content')
  BY <1>3, <1>7, ServedHolds
<1>9. CommitLeft'
  <2>1. of \in [Writers -> Txns]
    BY <1>7 DEF LocksHold
  <2>2. ASSUME NEW v \in Writers, txn'[v].at \in {"runs", "waits", "backoff"}
        PROVE  txn[v].at \in {"runs", "waits", "backoff"}
    <3>1. of[v].at \in {"runs", "waits", "backoff"}
      BY <1>3, <2>1, <2>2, ServedStates
    <3>2. v # w => of[v] = txn[v]
      BY <1>2
    <3> QED BY <3>1, <3>2 DEF Ask
  <2> QED BY <2>2 DEF IInv, CommitLeft, Ask
<1> QED BY <1>8, <1>9, NothingCommitted DEF Ask

LEMMA RetryKeeps ==
  ASSUME IInv, NEW w \in Writers, txn[w].at = "waits", RetryWork(w)
  PROVE  IInv'
<1> DEFINE of == Aborted(w, AfterTry(w))
<1>1. txn' = Served(of) /\ content' = content /\ landed' = landed
      /\ worksOn' = worksOn
  BY DEF RetryWork
<1>2. of = [txn EXCEPT ![w] = NoTxn(AfterTry(w))]
  BY DEF Aborted
<1>3. AfterTry(w) \in States \ {"waits"}
  BY DEF AfterTry, States
<1>4. LocksHold(of, content')
  <2>1. content' \in [LockedItems -> Nat]
        /\ \A v \in Writers : UpToDate(txn[v], content')
    BY <1>1 DEF IInv, LocksHold
  <2> QED BY <1>2, <1>3, <2>1, EmptiedHolds DEF IInv
<1> HIDE DEF of
<1>5. LocksHold(txn', content')
  BY <1>1, <1>4, ServedHolds
<1>6. CommitLeft'
  <2>1. of \in [Writers -> Txns]
    BY <1>4 DEF LocksHold
  <2>2. ASSUME NEW v \in Writers, txn'[v].at \in {"runs", "waits", "backoff"}
        PROVE  txn[v].at \in {"runs", "waits", "backoff"}
    <3>1. of[v].at \in {"runs", "waits", "backoff"}
      BY <1>1, <2>1, <2>2, ServedStates
    <3>2. v # w => of[v] = txn[v]
      BY <1>2 DEF IInv, LocksHold
    <3> QED BY <3>1, <3>2
  <2> QED BY <1>1, <2>2 DEF IInv, CommitLeft
<1> QED BY <1>1, <1>5, <1>6, NothingCommitted

\* A commit writes one more than is committed, which nobody else has read, and
\* is counted once for each item that it writes.
LEMMA CommitKeeps ==
  ASSUME IInv, NEW w \in Writers, CommitTry(w)
  PROVE  IInv'
<1> DEFINE of == Aborted(w, "idle")
           items == DOMAIN txn[w].wrote
<1>1. /\ txn' = Served(of) /\ worksOn' = worksOn
      /\ content' = [i \in LockedItems |->
                       IF i \in items THEN txn[w].wrote[i] ELSE content[i]]
      /\ landed' = [landed EXCEPT ![w] = [i \in LockedItems |->
                       IF i \in items THEN @[i] + 1 ELSE @[i]]]
  BY DEF CommitTry, Committed
<1>2. /\ txn \in [Writers -> Txns] /\ content \in [LockedItems -> Nat]
      /\ \A v \in Writers : UpToDate(txn[v], content)
      /\ Excluded(txn)
      /\ landed \in [Writers -> [LockedItems -> 0 .. MaxCommits]]
      /\ MaxCommits \in Nat
  BY ItemLocksAssumption DEF IInv, LocksHold
<1>3. ASSUME NEW i \in items
      PROVE  i \in LockedItems /\ txn[w].wrote[i] = content[i] + 1
  <2>1. i \in LockedItems
    BY <1>2 DEF Txns, Counts
  <2> QED BY <1>2, <2>1 DEF UpToDate
<1> HIDE DEF items
<1>4. content' \in [LockedItems -> Nat]
  BY <1>1, <1>2, <1>3
<1>5. ASSUME NEW v \in Writers \ {w}
      PROVE  UpToDate(txn[v], content')
  <2>1. \A i \in DOMAIN txn[v].read : i \notin items /\ i \in LockedItems
    BY <1>2 DEF Excluded, Txns, Counts, items
  <2>2. \A i \in DOMAIN txn[v].read : content'[i] = content[i]
    BY <1>1, <2>1
  <2> QED BY <1>2, <2>2 DEF UpToDate
<1>6. of = [txn EXCEPT ![w] = NoTxn("idle")]
  BY DEF Aborted
<1>7. LocksHold(of, content')
  BY <1>4, <1>5, <1>6, EmptiedHolds DEF IInv, States
<1> HIDE DEF of
<1>8. LocksHold(txn', content')
  BY <1>1, <1>7, ServedHolds
<1>9. \A i \in LockedItems : landed[w][i] < MaxCommits
  BY DEF IInv, CommitLeft, CommitTry
<1>10. /\ landed' \in [Writers -> [LockedItems -> 0 .. MaxCommits]]
       /\ \A v \in Writers, i \in LockedItems :
            landed'[v][i] = IF v = w /\ i \in items THEN landed[v][i] + 1
                            ELSE landed[v][i]
  BY <1>1, <1>2, <1>9
<1>11. CommitLeft'
  <2>1. of \in [Writers -> Txns]
    BY <1>7 DEF LocksHold
  <2>2. of[w].at = "idle" /\ \A v \in Writers \ {w} : of[v] = txn[v]
    BY <1>2, <1>6, NothingReadOrWritten DEF States
  <2>3. ASSUME NEW v \in Writers, txn'[v].at \in {"runs", "waits", "backoff"}
        PROVE  v # w /\ txn[v].at \in {"runs", "waits", "backoff"}
    <3>1. of[v].at \in {"runs", "waits", "backoff"}
      BY <1>1, <2>1, <2>3, ServedStates
    <3> QED BY <2>2, <3>1
  <2> QED BY <1>10, <2>3 DEF IInv, CommitLeft
<1>12. NoLostUpdates'
  <2> SUFFICES ASSUME NEW i \in LockedItems
               PROVE  content'[i] = Cardinality(Landed(i)')
    BY DEF NoLostUpdates, Landed
  <2>1. content[i] = Cardinality(Landed(i))
    BY DEF IInv, NoLostUpdates, Landed
  <2>2. CASE i \notin items
    <3>1. Landed(i)' = Landed(i)
      BY <1>10, <2>2 DEF Landed
    <3> QED BY <1>1, <2>1, <2>2, <3>1
  <2>3. CASE i \in items
    <3> DEFINE new == <<w, landed[w][i] + 1>>
    <3>1. landed[w][i] \in 0 .. MaxCommits /\ landed[w][i] < MaxCommits
      BY <1>2, <1>9
    <3>2. new \notin Landed(i)
      BY <3>1 DEF Landed
    <3>3. Landed(i)' = Landed(i) \cup {new}
      <4>1. ASSUME NEW c \in Writers \X (1 .. MaxCommits)
            PROVE  c[2] <= landed'[c[1]][i] <=> c[2] <= landed[c[1]][i] \/ c = new
        <5>1. CASE c[1] # w
          BY <1>10, <5>1
        <5>2. CASE c[1] = w
          <6>1. landed'[c[1]][i] = landed[w][i] + 1
            BY <1>10, <2>3, <5>2
          <6>2. c[2] \in 1 .. MaxCommits /\ c = <<w, c[2]>>
            BY <5>2
          <6> QED BY <3>1, <5>2, <6>1, <6>2
        <5> QED BY <5>1, <5>2
      <4>2. new \in Writers \X (1 .. MaxCommits)
        BY <1>2, <3>1
      <4> DEFINE now == {c \in Writers \X (1 .. MaxCommits) :
                           c[2] <= landed'[c[1]][i]}
                 before == {c \in Writers \X (1 .. MaxCommits) :
                              c[2] <= landed[c[1]][i]}
      <4> HIDE DEF new
      <4>3. now = before \cup {new}
        BY <4>1, <4>2
      <4>4. Landed(i)' = now
        BY DEF Landed
      <4>5. Landed(i) = before
        BY DEF Landed
      <4> HIDE DEF now, before
      <4> QED BY <4>3, <4>4, <4>5
    <3>4. IsFiniteSet(Landed(i))
      <4>1. IsFiniteSet(Writers \X (1 .. MaxCommits))
        <5>1. IsFiniteSet(Writers)
          BY ItemLocksAssumption
        <5>2. IsFiniteSet(1 .. MaxCommits)
          BY <1>2, FS_Interval
        <5> QED BY <5>1, <5>2, FS_Product
      <4>2. Landed(i) \subseteq Writers \X (1 .. MaxCommits)
        BY DEF Landed
      <4> QED BY <4>1, <4>2, FS_Subset
    <3> HIDE DEF new
    <3>5. Cardinality(Landed(i)') = Cardinality(Landed(i)) + 1
      BY <3>2, <3>3, <3>4, FS_AddElement
    <3>6. content'[i] = content[i] + 1
      BY <1>1, <1>3, <2>3
    <3> QED BY <2>1, <3>5, <3>6
  <2> QED BY <2>2, <2>3
<1> QED BY <1>1, <1>8, <1>10, <1>11, <1>12 DEF IInv

LEMMA TakeNextKeeps ==
  ASSUME IInv, NEW w \in Writers, TakeNext(w)
  PROVE  IInv'
<1> DEFINE t == [txn[w] EXCEPT !.at = "idle"]
<1>1. /\ txn' = [txn EXCEPT ![w] = t] /\ content' = content /\ landed' = landed
      /\ txn \in [Writers -> Txns] /\ txn[w] \in Txns
  BY DEF IInv, LocksHold, TakeNext
<1>2. /\ t \in Txns /\ t.at = "idle"
      /\ t.read = txn[w].read /\ t.wrote = txn[w].wrote
  BY <1>1 DEF Txns, States
<1> HIDE DEF t
<1>3. AsksInOrder(t) /\ UpToDate(t, content')
  BY <1>1, <1>2 DEF AsksInOrder, UpToDate, IInv, LocksHold
<1>4. LocksHold(txn', content')
  <2>1. content' \in [LockedItems -> Nat] /\ LocksHold(txn, content)
    BY <1>1 DEF IInv, LocksHold
  <2>2. ASSUME NEW v \in Writers \ {w}
        PROVE  /\ UpToDate(txn[v], content')
               /\ DOMAIN t.wrote \cap DOMAIN txn[v].read = {}
               /\ DOMAIN txn[v].wrote \cap DOMAIN t.read = {}
    BY <1>1, <1>2 DEF IInv, LocksHold, Excluded
  <2>3. LocksHold([txn EXCEPT ![w] = t], content')
    BY <1>2, <1>3, <2>1, <2>2, ReplacedHolds
  <2> QED BY <1>1, <2>3
<1>5. CommitLeft'
  <2>1. txn'[w].at = "idle" /\ \A v \in Writers \ {w} : txn'[v] = txn[v]
    BY <1>1, <1>2
  <2> QED BY <1>1, <2>1 DEF IInv, CommitLeft
<1> QED BY <1>1, <1>4, <1>5, NothingCommitted DEF TakeNext

LEMMA NextKeeps == IInv /\ [LocksNext]_lockVars => IInv'
<1> SUFFICES ASSUME IInv, [LocksNext]_lockVars PROVE IInv'
  OBVIOUS
<1>1. ASSUME NEW w \in Writers, BeginTry(w) PROVE IInv'
  BY <1>1, BeginKeeps
<1>2. ASSUME NEW w \in Writers, Ask(w) PROVE IInv'
  BY <1>2, AskKeeps
<1>3. ASSUME NEW w \in Writers, CommitTry(w) PROVE IInv'
  BY <1>3, CommitKeeps
<1>4. ASSUME NEW w \in Writers, Refuse(w) PROVE IInv'
  BY <1>4, RetryKeeps DEF Refuse
<1>5. ASSUME NEW w \in Writers, TakeNext(w) PROVE IInv'
  BY <1>5, TakeNextKeeps
<1>6. ASSUME Detect PROVE IInv'
  <2>1. PICK w \in Writers : txn[w].at = "waits" /\ RetryWork(w)
    BY <1>6 DEF Detect, Deadlocks
  <2> QED BY <2>1, RetryKeeps
<1>7. CASE UNCHANGED lockVars
  <2>1. LocksHold(txn', content') /\ CommitLeft'
    BY <1>7 DEF IInv, CommitLeft, lockVars
  <2> QED BY <1>7, <2>1, NothingCommitted DEF lockVars
<1> QED BY <1>1, <1>2, <1>3, <1>4, <1>5, <1>6, <1>7 DEF LocksNext, WriterRuns

-----------------------------------------------------------------------------
(* Theorems.                                                               *)

\* In every reachable state a transaction has read what is still committed, has
\* written one more, and excludes the others from what it has written.
THEOREM LocksInvariance == LocksSpec => []IInv
BY InitEstablishes, NextKeeps, PTL DEF LocksSpec

\* An item counts every commit that wrote it: read, count up and write under
\* the locks of the transaction loses nothing, whatever deadlocks, refusals and
\* retries come between.
THEOREM UpdatesAreNotLost == LocksSpec => []NoLostUpdates
<1>1. IInv => NoLostUpdates
  BY DEF IInv
<1> QED BY <1>1, LocksInvariance, PTL

-----------------------------------------------------------------------------
(* Roles. *)

TreeNodes ==
  [id : Nat, pid : Nat \cup {-1}, folder : BOOLEAN, inheritRoles : BOOLEAN,
   security : Acls, owner : Users \cup {"system"}, level : Int]

\* A set of objects below the root has one whose parent is not in it.
Rooted(t) ==
  \A S \in SUBSET (DOMAIN t \ {RootFolder}) :
    S # {} => \E i \in S : t[i].pid \notin S

\* Every object but the root has its parent in the tree.
HasParents(t) == \A i \in DOMAIN t \ {RootFolder} : t[i].pid \in DOMAIN t

GoodTree(t) ==
  /\ IsFiniteSet(DOMAIN t)
  /\ DOMAIN t = 0 .. Cardinality(DOMAIN t) - 1
  /\ RootFolder \in DOMAIN t /\ ~t[RootFolder].inheritRoles
  /\ \A i \in DOMAIN t : t[i] \in TreeNodes /\ t[i].id = i
  /\ HasParents(t) /\ Rooted(t)

-----------------------------------------------------------------------------
(* The line of an object: itself and those above it.                       *)

Closed(t, S) == \A i \in S : i # RootFolder => t[i].pid \in S

Reached(t, i) ==
  {k \in DOMAIN t : \A S \in SUBSET DOMAIN t : Closed(t, S) /\ i \in S => k \in S}

LineFits(t, up) ==
  up = [i \in DOMAIN t |->
          {i} \cup IF i = RootFolder THEN {} ELSE up[t[i].pid]]

LEMMA ReachedFits ==
  ASSUME NEW t, HasParents(t)
  PROVE  LineFits(t, [i \in DOMAIN t |-> Reached(t, i)])
<1> SUFFICES ASSUME NEW i \in DOMAIN t
             PROVE  Reached(t, i)
                      = {i} \cup IF i = RootFolder THEN {}
                                 ELSE Reached(t, t[i].pid)
  BY DEF LineFits, HasParents
<1>1. i \in Reached(t, i)
  BY DEF Reached
<1>2. CASE i = RootFolder
  <2>1. Closed(t, {i}) /\ {i} \in SUBSET DOMAIN t
    BY <1>2 DEF Closed
  <2>2. Reached(t, i) \subseteq {i}
    BY <2>1 DEF Reached
  <2> QED BY <1>1, <1>2, <2>2
<1>3. CASE i # RootFolder
  <2>1. t[i].pid \in DOMAIN t
    BY <1>3 DEF HasParents
  <2>2. ASSUME NEW k \in Reached(t, t[i].pid) PROVE k \in Reached(t, i)
    <3>1. ASSUME NEW S \in SUBSET DOMAIN t, Closed(t, S), i \in S PROVE k \in S
      <4>1. t[i].pid \in S
        BY <3>1, <1>3 DEF Closed
      <4> QED BY <4>1, <3>1, <2>2 DEF Reached
    <3> QED BY <3>1, <2>2 DEF Reached
  <2>3. ASSUME NEW k \in Reached(t, i), k # i PROVE k \in Reached(t, t[i].pid)
    <3>1. ASSUME NEW S \in SUBSET DOMAIN t, Closed(t, S), t[i].pid \in S
          PROVE  k \in S
      <4>1. Closed(t, S \cup {i}) /\ S \cup {i} \in SUBSET DOMAIN t
        BY <3>1 DEF Closed
      <4>2. k \in S \cup {i}
        BY <4>1 DEF Reached
      <4> QED BY <4>2, <2>3
    <3> QED BY <3>1 DEF Reached
  <2> QED BY <1>1, <1>3, <2>2, <2>3
<1> QED BY <1>2, <1>3

LEMMA LineMeans ==
  ASSUME NEW t, HasParents(t)
  PROVE  LineFits(t, Line(t))
<1>1. \E up : LineFits(t, up)
  BY ReachedFits
<1>2. Line(t) = CHOOSE up : LineFits(t, up)
  BY DEF Line, LineFits
<1> QED BY <1>1, <1>2

\* What the line of an object is, one object up.
LEMMA LineOf ==
  ASSUME NEW t, HasParents(t), NEW i \in DOMAIN t
  PROVE  /\ i \in Line(t)[i]
         /\ i = RootFolder => Line(t)[i] = {i}
         /\ i # RootFolder => /\ t[i].pid \in DOMAIN t
                              /\ Line(t)[i] = {i} \cup Line(t)[t[i].pid]
<1>1. PICK up : up = Line(t)
  OBVIOUS
<1>2. LineFits(t, up)
  BY <1>1, LineMeans
<1>3. up[i] = {i} \cup IF i = RootFolder THEN {} ELSE up[t[i].pid]
  BY <1>2 DEF LineFits
<1> QED BY <1>1, <1>3 DEF HasParents

LEMMA NoLoop ==
  ASSUME NEW t, Rooted(t), NEW T \in SUBSET DOMAIN t,
         \A y \in T : y # RootFolder /\ t[y].pid \in T
  PROVE  T = {}
<1>1. T \in SUBSET (DOMAIN t \ {RootFolder})
  OBVIOUS
<1> QED BY <1>1 DEF Rooted

\* Lines stay in the tree, go on to the root and never come back.
LEMMA LinesGoUp ==
  ASSUME NEW t, HasParents(t), Rooted(t), NEW i \in DOMAIN t
  PROVE  /\ Line(t)[i] \subseteq DOMAIN t
         /\ \A x \in Line(t)[i] : x # RootFolder => t[x].pid \in Line(t)[i]
         /\ i # RootFolder => i \notin Line(t)[t[i].pid]
<1>1. PICK up : up = Line(t)
  OBVIOUS
<1>2. \A y \in DOMAIN t :
        /\ y \in up[y]
        /\ y = RootFolder => up[y] = {y}
        /\ y # RootFolder => /\ t[y].pid \in DOMAIN t
                             /\ up[y] = {y} \cup up[t[y].pid]
  BY <1>1, LineOf
<1>3. Line(t)[i] \subseteq DOMAIN t
  <2> SUFFICES ASSUME NEW z \in up[i], z \notin DOMAIN t PROVE FALSE
    BY <1>1
  <2> DEFINE T == {y \in DOMAIN t : z \in up[y]}
  <2>1. \A y \in T : y # RootFolder /\ t[y].pid \in T
    BY <1>2
  <2>2. T \in SUBSET DOMAIN t /\ i \in T
    OBVIOUS
  <2> HIDE DEF T
  <2> QED BY <2>1, <2>2, NoLoop
<1>4. ASSUME NEW x \in up[i], x # RootFolder PROVE t[x].pid \in up[i]
  <2> SUFFICES ASSUME t[x].pid \notin up[i] PROVE FALSE
    OBVIOUS
  <2>0. x \in DOMAIN t /\ t[x].pid \in DOMAIN t
    BY <1>1, <1>3, <1>4, <1>2
  <2> DEFINE T == {y \in DOMAIN t : x \in up[y] /\ t[x].pid \notin up[y]}
  <2>1. \A y \in T : y # RootFolder /\ t[y].pid \in T
    <3> SUFFICES ASSUME NEW y \in T PROVE y # RootFolder /\ t[y].pid \in T
      OBVIOUS
    <3>1. y # x
      BY <2>0, <1>2, <1>4
    <3> QED BY <3>1, <1>2, <1>4
  <2>2. T \in SUBSET DOMAIN t /\ i \in T
    BY <1>4
  <2> HIDE DEF T
  <2> QED BY <2>1, <2>2, NoLoop
<1>5. ASSUME i # RootFolder, i \in up[t[i].pid] PROVE FALSE
  <2> DEFINE T == {y \in DOMAIN t : i \in up[y] /\ (y = RootFolder => FALSE)}
  <2>1. \A y \in T : y # RootFolder /\ t[y].pid \in T
    <3> SUFFICES ASSUME NEW y \in T PROVE y # RootFolder /\ t[y].pid \in T
      OBVIOUS
    <3>1. t[y].pid \in DOMAIN t /\ i \in up[t[y].pid]
      BY <1>2, <1>5
    <3>2. t[y].pid # RootFolder
      BY <3>1, <1>2, <1>5
    <3> QED BY <3>1, <3>2
  <2>2. T \in SUBSET DOMAIN t /\ i \in T
    BY <1>5, <1>2
  <2> HIDE DEF T
  <2> QED BY <2>1, <2>2, NoLoop
<1> QED BY <1>1, <1>3, <1>4, <1>5

\* The line of an object holds the lines of those in it.
LEMMA LinesNest ==
  ASSUME NEW t, HasParents(t), Rooted(t), NEW i \in DOMAIN t,
         NEW x \in Line(t)[i]
  PROVE  Line(t)[x] \subseteq Line(t)[i]
<1>1. PICK up : up = Line(t)
  OBVIOUS
<1>2. \A y \in DOMAIN t :
        /\ y = RootFolder => up[y] = {y}
        /\ y # RootFolder => up[y] = {y} \cup up[t[y].pid]
  BY <1>1, LineOf
<1>3. /\ up[i] \subseteq DOMAIN t
      /\ \A y \in up[i] : y # RootFolder => t[y].pid \in up[i]
  BY <1>1, LinesGoUp
<1> SUFFICES ASSUME NEW z \in up[x], z \notin up[i] PROVE FALSE
  BY <1>1
<1> DEFINE T == {y \in up[i] : z \in up[y]}
<1>4. \A y \in T : y # RootFolder /\ t[y].pid \in T
  <2> SUFFICES ASSUME NEW y \in T PROVE y # RootFolder /\ t[y].pid \in T
    OBVIOUS
  <2>1. y # z /\ y \in DOMAIN t
    BY <1>3
  <2> QED BY <2>1, <1>2, <1>3
<1>5. T \in SUBSET DOMAIN t /\ x \in T
  BY <1>1, <1>3
<1> HIDE DEF T
<1> QED BY <1>4, <1>5, NoLoop

\* Two objects are not above each other.
LEMMA OneIsAbove ==
  ASSUME NEW t, HasParents(t), Rooted(t), NEW i \in DOMAIN t,
         NEW m \in Line(t)[i], i \in Line(t)[m]
  PROVE  m = i
<1> SUFFICES ASSUME m # i PROVE FALSE
  OBVIOUS
<1>1. i # RootFolder /\ m \in Line(t)[t[i].pid] /\ t[i].pid \in DOMAIN t
  BY LineOf
<1>2. Line(t)[m] \subseteq Line(t)[t[i].pid]
  BY <1>1, LinesNest
<1> QED BY <1>1, <1>2, LinesGoUp

-----------------------------------------------------------------------------
(* What is under an object, and the roles given to it.                     *)

LEMMA GoodTreeFacts ==
  ASSUME NEW t, GoodTree(t)
  PROVE  /\ HasParents(t) /\ Rooted(t)
         /\ \A i \in DOMAIN t : t[i] \in TreeNodes /\ t[i].id = i
         /\ RootFolder \in DOMAIN t /\ ~t[RootFolder].inheritRoles
BY DEF GoodTree

LEMMA UnderMeans ==
  ASSUME NEW t, HasParents(t), Rooted(t), NEW i \in DOMAIN t
  PROVE  /\ Under(t, i) \subseteq DOMAIN t /\ i \notin Under(t, i)
         /\ RootFolder \notin Under(t, i)
         /\ \A j \in DOMAIN t : j \in Under(t, i) <=> j # i /\ i \in Line(t)[j]
         /\ \A j \in Under(t, i) : t[j].pid \in Under(t, i) \cup {i}
         /\ \A j \in DOMAIN t \ {RootFolder, i} :
              t[j].pid \in Under(t, i) \cup {i} => j \in Under(t, i)
         /\ i # RootFolder => t[i].pid \notin Under(t, i) \cup {i}
<1>1. PICK up : up = Line(t)
  OBVIOUS
<1>2. PICK below : below = Under(t, i)
  OBVIOUS
<1>3. \A y \in DOMAIN t :
        /\ y \in up[y]
        /\ y = RootFolder => up[y] = {y}
        /\ y # RootFolder => /\ t[y].pid \in DOMAIN t
                             /\ up[y] = {y} \cup up[t[y].pid]
  BY <1>1, LineOf
<1>4. below = {j \in DOMAIN t \ {i} : i \in up[j]}
  BY <1>1, <1>2 DEF Under
<1>5. i # RootFolder => i \notin up[t[i].pid]
  BY <1>1, LinesGoUp
<1>6. RootFolder \notin below
  BY <1>3, <1>4
<1>7. \A j \in below : t[j].pid \in below \cup {i}
  BY <1>3, <1>4, <1>6
<1>8. \A j \in DOMAIN t \ {RootFolder, i} :
        t[j].pid \in below \cup {i} => j \in below
  BY <1>3, <1>4
<1>9. i # RootFolder => t[i].pid \notin below \cup {i}
  BY <1>3, <1>4, <1>5
<1> QED BY <1>1, <1>2, <1>4, <1>6, <1>7, <1>8, <1>9

RolesFit(t, item, acl) ==
  acl = [j \in Under(t, item.id) \cup {item.id} |->
           IF j = item.id THEN item.security
           ELSE IF t[j].inheritRoles THEN acl[t[j].pid] ELSE t[j].security]

Stops(t, item, k) == k = item.id \/ ~t[k].inheritRoles

\* The objects that an object under item has its roles from: there is one.
Givers(t, item, j) ==
  {k \in Line(t)[j] :
     /\ k \in Under(t, item.id) \cup {item.id} /\ Stops(t, item, k)
     /\ \A m \in Line(t)[j] \ {k} : k \in Line(t)[m] => ~Stops(t, item, m)}

Giver(t, item, j) == CHOOSE k : k \in Givers(t, item, j)

RolesOf(t, item, j) ==
  IF Giver(t, item, j) = item.id THEN item.security
  ELSE t[Giver(t, item, j)].security

LEMMA GiversGoDown ==
  ASSUME NEW t, HasParents(t), Rooted(t), NEW item, item.id \in DOMAIN t,
         NEW j \in Under(t, item.id) \cup {item.id}
  PROVE  /\ Stops(t, item, j) => Givers(t, item, j) = {j}
         /\ ~Stops(t, item, j) =>
              Givers(t, item, j) = Givers(t, item, t[j].pid)
<1>1. PICK up : up = Line(t)
  OBVIOUS
<1>2. PICK D : D = Under(t, item.id) \cup {item.id}
  OBVIOUS
<1>3. D \subseteq DOMAIN t /\ j \in D
  BY <1>2, UnderMeans
<1>4. \A x : Givers(t, item, x) =
        {k \in up[x] : /\ k \in D /\ Stops(t, item, k)
                       /\ \A m \in up[x] \ {k} : k \in up[m] => ~Stops(t, item, m)}
  BY <1>1, <1>2 DEF Givers
<1>5. j \in up[j]
  BY <1>1, <1>3, LineOf
<1>6. ASSUME Stops(t, item, j) PROVE Givers(t, item, j) = {j}
  <2>1. \A m \in up[j] : j \in up[m] => m = j
    BY <1>1, <1>3, OneIsAbove
  <2> QED BY <1>3, <1>4, <1>5, <1>6, <2>1
<1>7. ASSUME ~Stops(t, item, j) PROVE Givers(t, item, j) = Givers(t, item, t[j].pid)
  <2>1. j # item.id /\ j \in Under(t, item.id)
    BY <1>7, <1>2, <1>3 DEF Stops
  <2>2. j # RootFolder
    BY <2>1, UnderMeans
  <2>3. up[j] = {j} \cup up[t[j].pid] /\ j \notin up[t[j].pid]
    BY <1>1, <1>3, <2>2, LineOf, LinesGoUp
  <2> QED BY <1>4, <1>7, <2>3
<1> QED BY <1>6, <1>7

LEMMA RolesOfFit ==
  ASSUME NEW t, HasParents(t), Rooted(t), NEW item, item.id \in DOMAIN t
  PROVE  RolesFit(t, item, [j \in Under(t, item.id) \cup {item.id} |->
                              RolesOf(t, item, j)])
<1>1. PICK D : D = Under(t, item.id) \cup {item.id}
  OBVIOUS
<1> SUFFICES ASSUME NEW j \in D
             PROVE  /\ RolesOf(t, item, j) =
                         IF j = item.id THEN item.security
                         ELSE IF t[j].inheritRoles THEN RolesOf(t, item, t[j].pid)
                         ELSE t[j].security
                    /\ j # item.id => t[j].pid \in D
  BY <1>1 DEF RolesFit
<1>2. j # item.id => t[j].pid \in D
  BY <1>1, UnderMeans
<1>3. CASE Stops(t, item, j)
  <2>1. Givers(t, item, j) = {j}
    BY <1>1, <1>3, GiversGoDown
  <2>2. Giver(t, item, j) = j
    BY <2>1 DEF Giver
  <2>3. RolesOf(t, item, j) = IF j = item.id THEN item.security ELSE t[j].security
    BY <2>2 DEF RolesOf
  <2> QED BY <1>2, <1>3, <2>3 DEF Stops
<1>4. CASE ~Stops(t, item, j)
  <2>1. Givers(t, item, j) = Givers(t, item, t[j].pid)
    BY <1>1, <1>4, GiversGoDown
  <2>2. RolesOf(t, item, j) = RolesOf(t, item, t[j].pid)
    BY <2>1 DEF RolesOf, Giver
  <2> QED BY <1>2, <1>4, <2>2 DEF Stops
<1> QED BY <1>3, <1>4

\* Every object under item gets the roles of its parent if it inherits them,
\* and stays as it is otherwise.
LEMMA ApplyBelowMeans ==
  ASSUME NEW t, GoodTree(t), NEW item, item.id \in DOMAIN t,
         item.security \in Acls,
         NEW r, r = ApplyBelow(t, item)
  PROVE  /\ DOMAIN r = DOMAIN t
         /\ \A j \in DOMAIN t \ Under(t, item.id) : r[j] = t[j]
         /\ \A j \in DOMAIN t :
              /\ r[j] \in TreeNodes /\ r[j].id = t[j].id /\ r[j].pid = t[j].pid
              /\ r[j].inheritRoles = t[j].inheritRoles
              /\ r[j].folder = t[j].folder
         /\ \A j \in Under(t, item.id) :
              r[j].security =
                IF ~t[j].inheritRoles THEN t[j].security
                ELSE IF t[j].pid = item.id THEN item.security
                ELSE r[t[j].pid].security
<1>1. /\ HasParents(t) /\ Rooted(t)
      /\ \A i \in DOMAIN t : t[i] \in TreeNodes /\ t[i].id = i
  BY GoodTreeFacts
<1>2. PICK below : below = Under(t, item.id)
  OBVIOUS
<1>3. PICK acl : /\ RolesFit(t, item, acl)
                 /\ r = [j \in DOMAIN t |->
                           IF j \in Under(t, item.id)
                           THEN [t[j] EXCEPT !.security = acl[j]] ELSE t[j]]
  <2>1. \E acl : RolesFit(t, item, acl)
    BY <1>1, RolesOfFit
  <2> DEFINE chosen == CHOOSE acl : RolesFit(t, item, acl)
  <2>2. RolesFit(t, item, chosen)
    BY <2>1
  <2>3. r = [j \in DOMAIN t |-> IF j \in Under(t, item.id)
                                THEN [t[j] EXCEPT !.security = chosen[j]] ELSE t[j]]
    BY DEF ApplyBelow, RolesFit
  <2> QED BY <2>2, <2>3
<1>4. acl = [j \in below \cup {item.id} |->
               IF j = item.id THEN item.security
               ELSE IF t[j].inheritRoles THEN acl[t[j].pid] ELSE t[j].security]
  BY <1>2, <1>3 DEF RolesFit
<1>5. /\ below \subseteq DOMAIN t /\ item.id \notin below
      /\ RootFolder \notin below
      /\ \A j \in below : t[j].pid \in below \cup {item.id}
  BY <1>1, <1>2, UnderMeans
<1>6. \A j \in below : acl[j] \in Acls
  <2> DEFINE T == {j \in below : acl[j] \notin Acls}
  <2>1. \A j \in T : j # RootFolder /\ t[j].pid \in T
    <3> SUFFICES ASSUME NEW j \in T PROVE j # RootFolder /\ t[j].pid \in T
      OBVIOUS
    <3>1. acl[j] = IF t[j].inheritRoles THEN acl[t[j].pid] ELSE t[j].security
      BY <1>4, <1>5
    <3>2. t[j].security \in Acls
      BY <1>1, <1>5 DEF TreeNodes
    <3>3. t[j].pid # item.id
      BY <1>4, <3>1, <3>2
    <3> QED BY <1>5, <3>1, <3>2, <3>3
  <2>2. T \in SUBSET DOMAIN t
    BY <1>5
  <2> HIDE DEF T
  <2>3. T = {}
    BY <1>1, <2>1, <2>2, NoLoop
  <2> QED BY <2>3 DEF T
<1>7. DOMAIN r = DOMAIN t /\ \A j \in DOMAIN t \ below : r[j] = t[j]
  BY <1>2, <1>3
<1>8. ASSUME NEW j \in below
      PROVE  /\ r[j] \in TreeNodes /\ r[j].id = t[j].id /\ r[j].pid = t[j].pid
             /\ r[j].inheritRoles = t[j].inheritRoles
             /\ r[j].folder = t[j].folder /\ r[j].security = acl[j]
  <2>1. r[j] = [t[j] EXCEPT !.security = acl[j]]
    BY <1>2, <1>3, <1>5
  <2>2. t[j] \in TreeNodes /\ acl[j] \in Acls
    BY <1>1, <1>5, <1>6
  <2> QED BY <2>1, <2>2 DEF TreeNodes
<1>9. ASSUME NEW j \in below
      PROVE  r[j].security = IF ~t[j].inheritRoles THEN t[j].security
                             ELSE IF t[j].pid = item.id THEN item.security
                             ELSE r[t[j].pid].security
  <2>1. acl[j] = IF t[j].inheritRoles THEN acl[t[j].pid] ELSE t[j].security
    BY <1>4, <1>5
  <2>2. acl[item.id] = item.security
    BY <1>4
  <2>3. t[j].pid = item.id \/ t[j].pid \in below
    BY <1>5
  <2>4. t[j].pid \in below => r[t[j].pid].security = acl[t[j].pid]
    BY <1>8
  <2> QED BY <1>8, <2>1, <2>2, <2>3, <2>4, <1>5
<1> QED BY <1>1, <1>2, <1>7, <1>8, <1>9

-----------------------------------------------------------------------------
(* What keeps a tree a tree.                                               *)

LEMMA SamePlaces ==
  ASSUME NEW t, GoodTree(t), NEW s, DOMAIN s = DOMAIN t,
         \A i \in DOMAIN t :
           s[i] \in TreeNodes /\ s[i].id = i /\ s[i].pid = t[i].pid,
         ~s[RootFolder].inheritRoles
  PROVE  GoodTree(s)
<1>1. HasParents(s)
  BY DEF GoodTree, HasParents
<1>2. Rooted(s)
  <2> SUFFICES ASSUME NEW S \in SUBSET (DOMAIN t \ {RootFolder}), S # {}
               PROVE  \E i \in S : s[i].pid \notin S
    BY DEF Rooted
  <2>1. PICK i \in S : t[i].pid \notin S
    BY DEF GoodTree, Rooted
  <2> QED BY <2>1
<1> QED BY <1>1, <1>2 DEF GoodTree

\* An object goes into one that is not below it.
LEMMA MovedPlace ==
  ASSUME NEW t, GoodTree(t), NEW s, DOMAIN s = DOMAIN t,
         NEW i \in DOMAIN t \ {RootFolder}, NEW target \in DOMAIN t,
         i \notin Line(t)[target], s[i].pid = target,
         \A j \in DOMAIN t : s[j] \in TreeNodes /\ s[j].id = j,
         \A j \in DOMAIN t \ {i} : s[j].pid = t[j].pid,
         ~s[RootFolder].inheritRoles
  PROVE  GoodTree(s)
<1>1. HasParents(s)
  BY DEF GoodTree, HasParents
<1>2. PICK up : up = Line(t)[target]
  OBVIOUS
<1>3. /\ up \subseteq DOMAIN t /\ target \in up /\ i \notin up
      /\ \A x \in up : x # RootFolder => t[x].pid \in up
  BY <1>2, GoodTreeFacts, LinesGoUp, LineOf
<1>4. Rooted(s)
  <2> SUFFICES ASSUME NEW S \in SUBSET (DOMAIN t \ {RootFolder}),
                      \A j \in S : s[j].pid \in S
               PROVE  S = {}
    BY DEF Rooted
  <2>1. CASE i \notin S
    <3>1. \A j \in S : j # RootFolder /\ t[j].pid \in S
      BY <2>1
    <3>2. S \in SUBSET DOMAIN t
      OBVIOUS
    <3> QED BY <3>1, <3>2, GoodTreeFacts, NoLoop
  <2>2. CASE i \in S
    <3> DEFINE T == S \cap up
    <3>1. \A j \in T : j # RootFolder /\ t[j].pid \in T
      BY <1>3
    <3>2. T \in SUBSET DOMAIN t /\ target \in T
      BY <1>3, <2>2
    <3> HIDE DEF T
    <3>3. T = {}
      BY <3>1, <3>2, GoodTreeFacts, NoLoop
    <3> QED BY <3>2, <3>3
  <2> QED BY <2>1, <2>2
<1> QED BY <1>1, <1>4 DEF GoodTree

\* s has the places of t, and n to n + k below them.
Grows(t, s, n, k) ==
  /\ DOMAIN s = DOMAIN t \cup (n .. n + k)
  /\ \A j \in DOMAIN s : s[j] \in TreeNodes /\ s[j].id = j
  /\ \A j \in DOMAIN s \ {RootFolder} : s[j].pid \in DOMAIN s
  /\ \A j \in DOMAIN t : s[j].pid = t[j].pid
  /\ ~s[RootFolder].inheritRoles
  /\ \A S \in SUBSET (n .. n + k) : S # {} => \E j \in S : s[j].pid \notin S

LEMMA GrownTree ==
  ASSUME NEW t, GoodTree(t), NEW n, n = Cardinality(DOMAIN t),
         NEW k \in Nat, NEW s, Grows(t, s, n, k)
  PROVE  GoodTree(s)
<1>0. /\ DOMAIN s = DOMAIN t \cup (n .. n + k)
      /\ \A j \in DOMAIN s : s[j] \in TreeNodes /\ s[j].id = j
      /\ \A j \in DOMAIN s \ {RootFolder} : s[j].pid \in DOMAIN s
      /\ \A j \in DOMAIN t : s[j].pid = t[j].pid
      /\ ~s[RootFolder].inheritRoles
  BY DEF Grows
<1>1. n \in Nat /\ DOMAIN t = 0 .. n - 1
  BY FS_CardinalityType DEF GoodTree
<1>2. DOMAIN s = 0 .. n + k
  <2>1. n \in Nat
    BY <1>1
  <2>2. (0 .. n - 1) \cup (n .. n + k) = 0 .. n + k
    BY <2>1
  <2> QED BY <1>0, <1>1, <2>2
<1>3. IsFiniteSet(DOMAIN s) /\ Cardinality(DOMAIN s) = n + k + 1
  <2>1. PICK b : b = n + k
    OBVIOUS
  <2>0. n \in Nat
    BY <1>1
  <2>2. b \in Nat /\ b - 0 + 1 = n + k + 1
    BY <2>0, <2>1
  <2>3. IsFiniteSet(0 .. b) /\ Cardinality(0 .. b) = b - 0 + 1
    BY <2>2, FS_Interval
  <2> QED BY <1>2, <2>1, <2>2, <2>3
<1>4. RootFolder \in DOMAIN s
  BY <1>0 DEF GoodTree
<1>5. HasParents(s)
  BY <1>0 DEF HasParents
<1>6. Rooted(s)
  <2> SUFFICES ASSUME NEW S \in SUBSET (DOMAIN s \ {RootFolder}),
                      \A j \in S : s[j].pid \in S
               PROVE  S = {}
    BY DEF Rooted
  <2> DEFINE T == S \cap DOMAIN t
  <2>1. \A j \in T : j # RootFolder /\ t[j].pid \in T
    BY <1>0 DEF GoodTree, HasParents
  <2>2. T \in SUBSET DOMAIN t
    OBVIOUS
  <2>3. T = {}
    <3> HIDE DEF T
    <3> QED BY <2>1, <2>2, GoodTreeFacts, NoLoop
  <2>4. S \in SUBSET (n .. n + k)
    BY <1>0, <2>3
  <2> QED BY <2>4 DEF Grows
<1>7. DOMAIN s = 0 .. Cardinality(DOMAIN s) - 1
  <2>1. n \in Nat
    BY <1>1
  <2>2. PICK c : c = Cardinality(DOMAIN s)
    OBVIOUS
  <2>3. c = n + k + 1
    BY <1>3, <2>2
  <2>4. c - 1 = n + k
    BY <2>1, <2>3
  <2> QED BY <1>2, <2>2, <2>4
<1> QED BY <1>0, <1>3, <1>4, <1>5, <1>6, <1>7 DEF GoodTree

LEMMA SavedMeans ==
  ASSUME NEW t, NEW item, NEW s, s = Saved(t, item)
  PROVE  /\ DOMAIN s = DOMAIN t \cup {item.id} /\ s[item.id] = item
         /\ \A j \in DOMAIN t \ {item.id} : s[j] = t[j]
BY DEF Saved

-----------------------------------------------------------------------------
(* The inductive invariant.                                                *)

Matched(t) ==
  \A i \in DOMAIN t :
    t[i].inheritRoles => t[i].security = t[t[i].pid].security

\* The copy that a request was sent to is of an object in the tree.
GoodCopy(c, t) ==
  \/ c = NoCopy
  \/ /\ c \in TreeNodes /\ c.id \in DOMAIN t
     /\ c.id = RootFolder => ~c.inheritRoles

RolesInv ==
  /\ GoodTree(tree)
  /\ DOMAIN held = Users /\ \A u \in Users : GoodCopy(held[u], tree)
  /\ calls \in 0 .. MaxCalls /\ outdated \in BOOLEAN
  /\ ~outdated => Matched(tree)

\* What the roles of a tree may become in a call of u.
Allowed(u, t) ==
  /\ \A i \in DOMAIN tree :
       t[i].security # tree[i].security =>
         \E j \in Line(tree)[i] : get_access(tree[j], u) = COORDINATOR
  /\ \A i \in DOMAIN tree \ {held[u].id} :
       ~tree[i].inheritRoles =>
         t[i].security = tree[i].security /\ ~t[i].inheritRoles

\* What a call of u has to leave behind, t, if it wrote no outdated roles.
Kept(u, t, writes) ==
  /\ GoodTree(t) /\ DOMAIN tree \subseteq DOMAIN t /\ writes \in BOOLEAN
  /\ (writes => Same(held[u])) =>
       Allowed(u, t) /\ (Matched(tree) => Matched(t))

ChangesAreAllowed ==
  ~outdated' =>
    /\ \A i \in DOMAIN tree :
         tree'[i].security # tree[i].security =>
           \E u \in Caller : \E j \in Line(tree)[i] :
             get_access(tree[j], u) = COORDINATOR
    /\ \A i \in DOMAIN tree \ {held[u].id : u \in Caller} :
         ~tree[i].inheritRoles => /\ tree'[i].security = tree[i].security
                                  /\ ~tree'[i].inheritRoles

LEMMA NoCopyIsNone == NoCopy \notin TreeNodes
<1>1. NoCopy.id = -1 /\ -1 \notin Nat
  BY DEF NoCopy
<1> QED BY <1>1 DEF TreeNodes

LEMMA RolesInvInit == RolesInit => RolesInv
<1> SUFFICES ASSUME RolesInit PROVE RolesInv
  OBVIOUS
<1>1. /\ DOMAIN tree = {RootFolder}
      /\ tree[RootFolder] =
           Stored(RootFolder, -1, TRUE, FALSE, RootAcl, "system")
  BY DEF RolesInit
<1>2. tree[RootFolder] \in TreeNodes
  BY <1>1, RolesAssumption DEF Stored, TreeNodes, RootFolder
<1>3. tree[RootFolder].id = RootFolder /\ ~tree[RootFolder].inheritRoles
  BY <1>1 DEF Stored
<1>4. IsFiniteSet(DOMAIN tree) /\ Cardinality(DOMAIN tree) = 1
  BY <1>1, FS_Singleton
<1>5. DOMAIN tree = 0 .. Cardinality(DOMAIN tree) - 1
  BY <1>1, <1>4 DEF RootFolder
<1>6. HasParents(tree) /\ Rooted(tree)
  BY <1>1 DEF HasParents, Rooted
<1>7. GoodTree(tree)
  BY <1>1, <1>2, <1>3, <1>4, <1>5, <1>6 DEF GoodTree
<1>8. DOMAIN held = Users /\ \A u \in Users : GoodCopy(held[u], tree)
  BY DEF RolesInit, GoodCopy
<1>9. calls \in 0 .. MaxCalls
  BY RolesAssumption DEF RolesInit
<1>10. outdated \in BOOLEAN
  BY DEF RolesInit
<1>11. Matched(tree)
  BY <1>1, <1>3 DEF Matched
<1> QED BY <1>7, <1>8, <1>9, <1>10, <1>11 DEF RolesInv

LEMMA GoodCopyStays ==
  ASSUME NEW c, NEW t, NEW s, GoodCopy(c, t), DOMAIN t \subseteq DOMAIN s
  PROVE  GoodCopy(c, s)
BY DEF GoodCopy

\* A call ends.
LEMMA CallKeeps ==
  ASSUME RolesInv, NEW u \in Users, held[u] # NoCopy, NEW t, NEW writes,
         Kept(u, t, writes), Called(u, t, writes)
  PROVE  RolesInv' /\ ChangesAreAllowed
<1>1. /\ tree' = t /\ held' = [held EXCEPT ![u] = NoCopy] /\ calls' = calls
      /\ outdated' = (outdated \/ (writes /\ ~Same(held[u])))
  BY DEF Called
<1>2. outdated' \in BOOLEAN /\ (~outdated' => ~outdated /\ (writes => Same(held[u])))
  BY <1>1
<1>3. GoodTree(tree')
  BY <1>1 DEF Kept
<1>4. DOMAIN held' = Users /\ \A v \in Users : GoodCopy(held'[v], tree')
  <2> SUFFICES ASSUME NEW v \in Users PROVE GoodCopy(held'[v], tree')
    BY <1>1 DEF RolesInv
  <2>1. CASE v = u
    BY <2>1, <1>1 DEF RolesInv, GoodCopy
  <2>2. CASE v # u
    <3>1. held'[v] = held[v] /\ GoodCopy(held[v], tree)
      BY <2>2, <1>1 DEF RolesInv
    <3>2. DOMAIN tree \subseteq DOMAIN t
      BY DEF Kept
    <3> QED BY <1>1, <3>1, <3>2, GoodCopyStays
  <2> QED BY <2>1, <2>2
<1>5. ~outdated' => Matched(tree')
  BY <1>1, <1>2 DEF Kept, RolesInv
<1>6. calls' \in 0 .. MaxCalls
  BY <1>1 DEF RolesInv
<1>7. ASSUME ~outdated' PROVE Allowed(u, tree')
  BY <1>1, <1>2, <1>7 DEF Kept
<1>8. u \in Caller
  BY <1>1 DEF RolesInv, Caller
<1>9. ChangesAreAllowed
  BY <1>7, <1>8 DEF ChangesAreAllowed, Allowed
<1> QED BY <1>2, <1>3, <1>4, <1>5, <1>6, <1>9 DEF RolesInv

LEMMA NothingChanges ==
  ASSUME RolesInv, tree' = tree
  PROVE  ChangesAreAllowed
BY DEF ChangesAreAllowed

LEMMA DispatchedStep ==
  ASSUME RolesInv, NEW u \in Users, NEW i \in DOMAIN tree, Dispatched(u, i)
  PROVE  RolesInv' /\ ChangesAreAllowed
<1>1. /\ held' = [held EXCEPT ![u] = tree[i]] /\ tree' = tree
      /\ calls' = calls + 1 /\ calls < MaxCalls /\ outdated' = outdated
  BY DEF Dispatched
<1>2. calls' \in 0 .. MaxCalls
  BY <1>1, RolesAssumption DEF RolesInv
<1>3. GoodCopy(tree[i], tree)
  BY DEF RolesInv, GoodTree, GoodCopy
<1>4. DOMAIN held' = Users /\ \A v \in Users : GoodCopy(held'[v], tree)
  BY <1>1, <1>3 DEF RolesInv
<1> QED BY <1>1, <1>2, <1>4, NothingChanges DEF RolesInv

LEMMA RefusedStep ==
  ASSUME RolesInv, NEW u \in Users, Refused(u)
  PROVE  RolesInv' /\ ChangesAreAllowed
<1>1. Kept(u, tree, FALSE)
  BY DEF RolesInv, Kept, Allowed
<1> QED BY <1>1, CallKeeps DEF Refused

-----------------------------------------------------------------------------
(* The steps.                                                              *)

LEMMA CopyFacts ==
  ASSUME RolesInv, NEW u \in Users, held[u] # NoCopy
  PROVE  /\ held[u] \in TreeNodes /\ held[u].id \in DOMAIN tree
         /\ held[u].id = RootFolder => ~held[u].inheritRoles
         /\ held[u].security \in Acls
         /\ tree[held[u].id] \in TreeNodes /\ tree[held[u].id].id = held[u].id
BY DEF RolesInv, GoodCopy, GoodTree, TreeNodes

LEMMA NewNodeIsNew ==
  ASSUME GoodTree(tree)
  PROVE  /\ NewNode \in Nat /\ NewNode \notin DOMAIN tree
         /\ DOMAIN tree = 0 .. NewNode - 1 /\ DOMAIN tree \subseteq Nat
<1>1. NewNode \in Nat /\ DOMAIN tree = 0 .. NewNode - 1
  BY FS_CardinalityType DEF NewNode, GoodTree
<1> QED BY <1>1

\* No roles change, and new objects have those of their parents.
LEMMA RolesStay ==
  ASSUME GoodTree(tree), NEW u \in Users, NEW t,
         DOMAIN tree \subseteq DOMAIN t,
         \A i \in DOMAIN tree :
           /\ t[i].security = tree[i].security
           /\ t[i].inheritRoles =>
                tree[i].inheritRoles /\ t[i].pid = tree[i].pid,
         \A i \in DOMAIN t \ DOMAIN tree :
           Matched(tree) /\ t[i].inheritRoles =>
             t[i].security = t[t[i].pid].security
  PROVE  Allowed(u, t) /\ (Matched(tree) => Matched(t))
<1>1. Allowed(u, t)
  BY DEF Allowed
<1>2. ASSUME Matched(tree), NEW i \in DOMAIN t, t[i].inheritRoles
      PROVE  t[i].security = t[t[i].pid].security
  <2>1. CASE i \notin DOMAIN tree
    BY <1>2, <2>1
  <2>2. CASE i \in DOMAIN tree
    <3>1. tree[i].inheritRoles /\ t[i].pid = tree[i].pid
      BY <1>2, <2>2
    <3>2. i # RootFolder
      BY <3>1 DEF GoodTree
    <3>3. tree[i].pid \in DOMAIN tree
      BY <2>2, <3>2 DEF GoodTree, HasParents
    <3>4. tree[i].security = tree[tree[i].pid].security
      BY <1>2, <2>2, <3>1 DEF Matched
    <3> QED BY <2>2, <3>1, <3>3, <3>4
  <2> QED BY <2>1, <2>2
<1> QED BY <1>1, <1>2 DEF Matched

\* The object that a call creates.
NewItem(n, parent, u, folder, inherits, acl, role) ==
  LET new == Chosen(Stored(n, parent.id, folder, TRUE, NoRoles, u),
                    role, inherits, acl)
  IN IF role = COORDINATOR THEN FromParent(new, parent)
     ELSE [new EXCEPT !.inheritRoles = TRUE, !.security = parent.security]

RawNodes ==
  [id : Nat, pid : Nat \cup {-1}, folder : BOOLEAN, inheritRoles : BOOLEAN,
   security : Acls \cup {NoRoles}, owner : Users \cup {"system"}, level : Int]

LEMMA NewItemInherits ==
  ASSUME NEW parent \in TreeNodes, NEW n \in Nat, NEW u \in Users,
         NEW folder \in BOOLEAN, NEW inherits \in BOOLEAN, NEW acl \in Acls,
         NEW role, NEW item,
         item = NewItem(n, parent, u, folder, inherits, acl, role),
         parent.id \in Nat
  PROVE  /\ item \in TreeNodes /\ item.id = n /\ item.pid = parent.id
         /\ item.inheritRoles => item.security = parent.security
<1>1. PICK x : x = Stored(n, parent.id, folder, TRUE, NoRoles, u)
  OBVIOUS
<1>2. x \in RawNodes /\ x.id = n /\ x.pid = parent.id /\ x.security = NoRoles
  BY <1>1 DEF Stored, RawNodes
<1>3. PICK new : new = Chosen(x, role, inherits, acl)
  OBVIOUS
<1>4. item = IF role = COORDINATOR THEN FromParent(new, parent)
             ELSE [new EXCEPT !.inheritRoles = TRUE, !.security = parent.security]
  BY <1>1, <1>3 DEF NewItem
<1>5. parent.security \in Acls
  BY DEF TreeNodes
<1>6. /\ new \in RawNodes /\ new.id = n /\ new.pid = parent.id
      /\ role = COORDINATOR =>
           /\ new.inheritRoles = inherits
           /\ ~inherits => new.security = acl
  <2>1. CASE role # COORDINATOR
    BY <1>2, <1>3, <2>1 DEF Chosen
  <2>2. CASE role = COORDINATOR /\ inherits
    <3>1. new = [x EXCEPT !.inheritRoles = TRUE, !.security = x.security]
      BY <1>3, <2>2 DEF Chosen
    <3> QED BY <1>2, <2>2, <3>1 DEF RawNodes
  <2>3. CASE role = COORDINATOR /\ ~inherits
    <3>1. new = [x EXCEPT !.inheritRoles = FALSE, !.security = acl]
      BY <1>3, <2>3 DEF Chosen
    <3> QED BY <1>2, <2>3, <3>1 DEF RawNodes
  <2> QED BY <2>1, <2>2, <2>3
<1>7. CASE role = COORDINATOR /\ inherits
  <2>1. item = [new EXCEPT !.security = parent.security]
    BY <1>4, <1>6, <1>7 DEF FromParent
  <2> QED BY <1>5, <1>6, <2>1 DEF RawNodes, TreeNodes
<1>8. CASE role = COORDINATOR /\ ~inherits
  <2>1. item = new /\ new.security = acl
    BY <1>4, <1>6, <1>8 DEF FromParent
  <2> QED BY <1>6, <1>8, <2>1 DEF RawNodes, TreeNodes
<1>9. CASE role # COORDINATOR
  <2>1. item = [new EXCEPT !.inheritRoles = TRUE, !.security = parent.security]
    BY <1>4, <1>9
  <2> QED BY <1>5, <1>6, <2>1 DEF RawNodes, TreeNodes
<1> QED BY <1>7, <1>8, <1>9

LEMMA CreateInStep ==
  ASSUME RolesInv, NEW u \in Users, NEW folder \in BOOLEAN,
         NEW inherits \in BOOLEAN, NEW acl \in Acls,
         CreateIn(u, folder, inherits, acl)
  PROVE  RolesInv' /\ ChangesAreAllowed
<1>1. PICK parent : parent = held[u]
  OBVIOUS
<1>2. PICK role : role = get_access(parent, u)
  OBVIOUS
<1>3. PICK n : n = NewNode
  OBVIOUS
<1>4. PICK item : item = NewItem(n, parent, u, folder, inherits, acl, role)
  OBVIOUS
<1>5. PICK t : t = Saved(Saved(tree, parent), item)
  OBVIOUS
<1>6. parent # NoCopy /\ Unmoved(parent) /\ Called(u, t, TRUE)
  BY <1>1, <1>2, <1>3, <1>4, <1>5 DEF CreateIn, NewItem
<1>7. /\ parent \in TreeNodes /\ parent.id \in DOMAIN tree
      /\ parent.id = RootFolder => ~parent.inheritRoles
  BY <1>1, <1>6, CopyFacts
<1>8. GoodTree(tree) /\ n \in Nat /\ n \notin DOMAIN tree
      /\ DOMAIN tree \subseteq Nat
  BY <1>3, NewNodeIsNew DEF RolesInv
<1>9. /\ item \in TreeNodes /\ item.id = n /\ item.pid = parent.id
      /\ item.inheritRoles => item.security = parent.security
  <2>1. parent.id \in Nat
    BY <1>7, <1>8
  <2>2. parent \in TreeNodes /\ n \in Nat
    BY <1>7, <1>8
  <2> QED BY <1>4, <2>1, <2>2, NewItemInherits
<1>10. /\ DOMAIN t = DOMAIN tree \cup {n}
       /\ t[n] = item /\ t[parent.id] = parent
       /\ \A j \in DOMAIN tree \ {parent.id} : t[j] = tree[j]
  <2>1. PICK s : s = Saved(tree, parent)
    OBVIOUS
  <2>2. /\ DOMAIN s = DOMAIN tree /\ s[parent.id] = parent
        /\ \A j \in DOMAIN tree \ {parent.id} : s[j] = tree[j]
    <3>1. DOMAIN s = DOMAIN tree \cup {parent.id}
      BY <2>1 DEF Saved
    <3>2. /\ s[parent.id] = parent
          /\ \A j \in DOMAIN tree \ {parent.id} : s[j] = tree[j]
      BY <2>1 DEF Saved
    <3> QED BY <1>7, <3>1, <3>2
  <2>3. /\ DOMAIN t = DOMAIN s \cup {n} /\ t[n] = item
        /\ \A j \in DOMAIN s \ {n} : t[j] = s[j]
    <3>1. t = Saved(s, item)
      BY <1>5, <2>1
    <3>2. /\ DOMAIN t = DOMAIN s \cup {item.id} /\ t[item.id] = item
          /\ \A j \in DOMAIN s \ {item.id} : t[j] = s[j]
      BY <3>1 DEF Saved
    <3> QED BY <1>9, <3>2
  <2> QED BY <1>7, <1>8, <2>2, <2>3
<1>11. \A j \in DOMAIN tree : tree[j] \in TreeNodes /\ tree[j].id = j
  BY <1>8, GoodTreeFacts
<1>12. parent.pid = tree[parent.id].pid
  BY <1>6 DEF Unmoved
<1>13. GoodTree(t)
  <2>1. n .. n + 0 = {n}
    BY <1>8
  <2>2. \A j \in DOMAIN t : t[j] \in TreeNodes /\ t[j].id = j
    BY <1>7, <1>9, <1>10, <1>11
  <2>3. \A j \in DOMAIN tree : t[j].pid = tree[j].pid
    BY <1>10, <1>12
  <2>4. \A j \in DOMAIN t \ {RootFolder} : t[j].pid \in DOMAIN t
    BY <1>7, <1>8, <1>9, <1>10, <2>3 DEF GoodTree, HasParents
  <2>5. ~t[RootFolder].inheritRoles
    BY <1>7, <1>8, <1>10 DEF GoodTree
  <2>6. ASSUME NEW S \in SUBSET {n}, S # {} PROVE \E j \in S : t[j].pid \notin S
    <3>1. n \in S
      BY <2>6
    <3>2. t[n].pid = parent.id /\ parent.id # n
      BY <1>7, <1>8, <1>9, <1>10
    <3> QED BY <3>1, <3>2
  <2>7. Grows(tree, t, n, 0)
    BY <1>10, <2>1, <2>2, <2>3, <2>4, <2>5, <2>6 DEF Grows
  <2>8. n = Cardinality(DOMAIN tree) /\ 0 \in Nat
    BY <1>3 DEF NewNode
  <2> QED BY <1>8, <2>7, <2>8, GrownTree
<1>14. ASSUME Same(parent)
       PROVE  Allowed(u, t) /\ (Matched(tree) => Matched(t))
  <2>1. \A i \in DOMAIN tree :
          /\ t[i].security = tree[i].security
          /\ t[i].inheritRoles => tree[i].inheritRoles /\ t[i].pid = tree[i].pid
    BY <1>10, <1>12, <1>14 DEF Same
  <2>2. \A i \in DOMAIN t \ DOMAIN tree :
          Matched(tree) /\ t[i].inheritRoles =>
            t[i].security = t[t[i].pid].security
    BY <1>9, <1>10
  <2> QED BY <1>8, <1>10, <2>1, <2>2, RolesStay
<1>15. Kept(u, t, TRUE)
  BY <1>1, <1>10, <1>13, <1>14 DEF Kept
<1> QED BY <1>1, <1>6, <1>15, CallKeeps

LEMMA DetachedFacts ==
  ASSUME NEW c \in TreeNodes, NEW pid \in Nat, NEW d, d = Detached(c, pid)
  PROVE  /\ d \in TreeNodes /\ d.id = c.id /\ d.pid = pid
         /\ ~d.inheritRoles /\ d.security = c.security
BY DEF Detached, TreeNodes

LEMMA MoveToStep ==
  ASSUME RolesInv, NEW u \in Users, NEW target \in DOMAIN tree,
         MoveTo(u, target)
  PROVE  RolesInv' /\ ChangesAreAllowed
<1>1. PICK self : self = held[u]
  OBVIOUS
<1>2. PICK d : d = Detached(self, target)
  OBVIOUS
<1>3. PICK t : t = Saved(tree, d)
  OBVIOUS
<1>4. /\ self # NoCopy /\ self.id # RootFolder
      /\ self.id \notin Line(tree)[target] /\ Called(u, t, TRUE)
  BY <1>1, <1>2, <1>3 DEF MoveTo
<1>5. self \in TreeNodes /\ self.id \in DOMAIN tree
  BY <1>1, <1>4, CopyFacts
<1>6. GoodTree(tree) /\ DOMAIN tree \subseteq Nat
  BY NewNodeIsNew DEF RolesInv
<1>7. /\ d \in TreeNodes /\ d.id = self.id /\ d.pid = target
      /\ ~d.inheritRoles /\ d.security = self.security
  <2>1. target \in Nat
    BY <1>6
  <2> QED BY <1>2, <1>5, <2>1, DetachedFacts
<1>8. /\ DOMAIN t = DOMAIN tree /\ t[self.id] = d
      /\ \A j \in DOMAIN tree \ {self.id} : t[j] = tree[j]
  <2>1. DOMAIN t = DOMAIN tree \cup {d.id}
    BY <1>3 DEF Saved
  <2>2. t[d.id] = d /\ \A j \in DOMAIN tree \ {d.id} : t[j] = tree[j]
    BY <1>3 DEF Saved
  <2> QED BY <1>5, <1>7, <2>1, <2>2
<1>9. GoodTree(t)
  <2>1. \A j \in DOMAIN tree : t[j] \in TreeNodes /\ t[j].id = j
    BY <1>5, <1>6, <1>7, <1>8, GoodTreeFacts
  <2>2. \A j \in DOMAIN tree \ {self.id} : t[j].pid = tree[j].pid
    BY <1>8
  <2>3. ~t[RootFolder].inheritRoles
    BY <1>4, <1>6, <1>8, GoodTreeFacts
  <2>4. self.id \in DOMAIN tree \ {RootFolder} /\ t[self.id].pid = target
    BY <1>4, <1>5, <1>7, <1>8
  <2> QED BY <1>4, <1>6, <1>8, <2>1, <2>2, <2>3, <2>4, MovedPlace
<1>10. ASSUME Same(self) PROVE Allowed(u, t) /\ (Matched(tree) => Matched(t))
  <2>1. \A i \in DOMAIN tree :
          /\ t[i].security = tree[i].security
          /\ t[i].inheritRoles => tree[i].inheritRoles /\ t[i].pid = tree[i].pid
    BY <1>7, <1>8, <1>10 DEF Same
  <2>2. DOMAIN tree \subseteq DOMAIN t /\ DOMAIN t \ DOMAIN tree = {}
    BY <1>8
  <2> QED BY <1>6, <2>1, <2>2, RolesStay
<1>11. Kept(u, t, TRUE)
  BY <1>1, <1>8, <1>9, <1>10 DEF Kept
<1> QED BY <1>1, <1>4, <1>11, CallKeeps

LEMMA RelevelMeans ==
  ASSUME NEW t, GoodTree(t), NEW ids, NEW n \in Int, NEW s, s = Relevel(t, ids, n)
  PROVE  /\ DOMAIN s = DOMAIN t
         /\ \A i \in DOMAIN t :
              /\ s[i] \in TreeNodes /\ s[i].id = i /\ s[i].pid = t[i].pid
              /\ s[i].inheritRoles = t[i].inheritRoles
              /\ s[i].security = t[i].security
<1>1. DOMAIN s = DOMAIN t
  BY DEF Relevel
<1>2. ASSUME NEW i \in DOMAIN t
      PROVE  /\ s[i] \in TreeNodes /\ s[i].id = i /\ s[i].pid = t[i].pid
             /\ s[i].inheritRoles = t[i].inheritRoles
             /\ s[i].security = t[i].security
  <2>1. t[i] \in TreeNodes /\ t[i].id = i
    BY GoodTreeFacts
  <2>2. CASE i \in ids
    <3>1. s[i] = [t[i] EXCEPT !.level = @ + n]
      BY <2>2 DEF Relevel
    <3>2. t[i].level + n \in Int
      BY <2>1 DEF TreeNodes
    <3> QED BY <2>1, <3>1, <3>2 DEF TreeNodes
  <2>3. CASE i \notin ids
    BY <2>1, <2>3 DEF Relevel
  <2> QED BY <2>2, <2>3
<1> QED BY <1>1, <1>2

LEMMA RecycleInStep ==
  ASSUME RolesInv, NEW u \in Users, RecycleIn(u)
  PROVE  RolesInv' /\ ChangesAreAllowed
<1>1. PICK ids, t : /\ t = Relevel(tree, ids, 1)
                    /\ held[u] # NoCopy /\ Called(u, t, FALSE)
  BY DEF RecycleIn
<1>2. GoodTree(tree) /\ 1 \in Int
  BY DEF RolesInv
<1>3. /\ DOMAIN t = DOMAIN tree
      /\ \A i \in DOMAIN tree :
           /\ t[i] \in TreeNodes /\ t[i].id = i /\ t[i].pid = tree[i].pid
           /\ t[i].inheritRoles = tree[i].inheritRoles
           /\ t[i].security = tree[i].security
  BY <1>1, <1>2, RelevelMeans
<1>4. GoodTree(t)
  <2>1. ~t[RootFolder].inheritRoles
    BY <1>2, <1>3, GoodTreeFacts
  <2> QED BY <1>2, <1>3, <2>1, SamePlaces
<1>5. Allowed(u, t) /\ (Matched(tree) => Matched(t))
  <2>1. DOMAIN tree \subseteq DOMAIN t /\ DOMAIN t \ DOMAIN tree = {}
    BY <1>3
  <2> QED BY <1>2, <1>3, <2>1, RolesStay
<1>6. Kept(u, t, FALSE)
  BY <1>3, <1>4, <1>5 DEF Kept
<1> QED BY <1>1, <1>6, CallKeeps

LEMMA RootIsAbove ==
  ASSUME NEW t, HasParents(t), Rooted(t), NEW i \in DOMAIN t
  PROVE  RootFolder \in Line(t)[i]
<1>1. PICK up : up = Line(t)
  OBVIOUS
<1>2. \A y \in DOMAIN t :
        /\ y = RootFolder => up[y] = {y}
        /\ y # RootFolder => /\ t[y].pid \in DOMAIN t
                             /\ up[y] = {y} \cup up[t[y].pid]
  BY <1>1, LineOf
<1> DEFINE T == {y \in DOMAIN t : RootFolder \notin up[y]}
<1>3. \A y \in T : y # RootFolder /\ t[y].pid \in T
  BY <1>2
<1>4. T \in SUBSET DOMAIN t
  OBVIOUS
<1>5. T = {}
  <2> HIDE DEF T
  <2> QED BY <1>3, <1>4, NoLoop
<1> QED BY <1>1, <1>5

LEMMA RestoreInStep ==
  ASSUME RolesInv, NEW u \in Users, NEW i \in DOMAIN tree,
         NEW target \in DOMAIN tree, RestoreIn(u, i, target)
  PROVE  RolesInv' /\ ChangesAreAllowed
<1>1. PICK s : s = Relevel(tree, Under(tree, i), -1)
  OBVIOUS
<1>2. PICK d : d = Detached(tree[i], target)
  OBVIOUS
<1>3. PICK level \in {0, tree[i].level - 1} :
        /\ tree' = Saved(s, [d EXCEPT !.level = level])
        /\ calls' = calls + 1 /\ calls < MaxCalls
        /\ held' = held /\ outdated' = outdated
        /\ i \notin Line(tree)[target]
  BY <1>1, <1>2 DEF RestoreIn, StaysInTree
<1>4. PICK e : e = [d EXCEPT !.level = level]
  OBVIOUS
<1>5. PICK t : t = Saved(s, e)
  OBVIOUS
<1>6. /\ GoodTree(tree) /\ DOMAIN tree \subseteq Nat
      /\ \A j \in DOMAIN tree : tree[j] \in TreeNodes /\ tree[j].id = j
  BY NewNodeIsNew, GoodTreeFacts DEF RolesInv
<1>7. i # RootFolder
  BY <1>3, <1>6, GoodTreeFacts, RootIsAbove
<1>8. /\ DOMAIN s = DOMAIN tree
      /\ \A j \in DOMAIN tree :
           /\ s[j] \in TreeNodes /\ s[j].id = j /\ s[j].pid = tree[j].pid
           /\ s[j].inheritRoles = tree[j].inheritRoles
           /\ s[j].security = tree[j].security
  <2>1. -1 \in Int
    OBVIOUS
  <2> QED BY <1>1, <1>6, <2>1, RelevelMeans
<1>9. /\ d \in TreeNodes /\ d.id = i /\ d.pid = target
      /\ ~d.inheritRoles /\ d.security = tree[i].security
  <2>1. target \in Nat
    BY <1>6
  <2> QED BY <1>2, <1>6, <2>1, DetachedFacts
<1>10. /\ e \in TreeNodes /\ e.id = i /\ e.pid = target
       /\ ~e.inheritRoles /\ e.security = tree[i].security
  <2>1. tree[i].level \in Int
    BY <1>6 DEF TreeNodes
  <2>2. level \in Int
    BY <2>1
  <2> QED BY <1>4, <1>9, <2>2 DEF TreeNodes
<1>11. /\ DOMAIN t = DOMAIN tree /\ t[i] = e
       /\ \A j \in DOMAIN tree \ {i} : t[j] = s[j]
  <2>1. DOMAIN t = DOMAIN s \cup {e.id}
    BY <1>5 DEF Saved
  <2>2. t[e.id] = e /\ \A j \in DOMAIN s \ {e.id} : t[j] = s[j]
    BY <1>5 DEF Saved
  <2> QED BY <1>8, <1>10, <2>1, <2>2
<1>12. GoodTree(t)
  <2>1. \A j \in DOMAIN tree : t[j] \in TreeNodes /\ t[j].id = j
    BY <1>8, <1>10, <1>11
  <2>2. \A j \in DOMAIN tree \ {i} : t[j].pid = tree[j].pid
    BY <1>8, <1>11
  <2>3. ~t[RootFolder].inheritRoles
    BY <1>6, <1>7, <1>8, <1>11, GoodTreeFacts
  <2>4. i \in DOMAIN tree \ {RootFolder} /\ t[i].pid = target
    BY <1>7, <1>10, <1>11
  <2> QED BY <1>3, <1>6, <1>11, <2>1, <2>2, <2>3, <2>4, MovedPlace
<1>13. /\ \A j \in DOMAIN tree :
            /\ t[j].security = tree[j].security
            /\ t[j].inheritRoles => tree[j].inheritRoles /\ t[j].pid = tree[j].pid
       /\ DOMAIN tree \subseteq DOMAIN t /\ DOMAIN t \ DOMAIN tree = {}
  BY <1>8, <1>10, <1>11
<1>14. Matched(tree) => Matched(t)
  BY <1>6, <1>13, RolesStay
<1>15. tree' = t
  BY <1>3, <1>4, <1>5
<1>16. calls' \in 0 .. MaxCalls
  BY <1>3, RolesAssumption DEF RolesInv
<1>17. DOMAIN held' = Users /\ \A v \in Users : GoodCopy(held'[v], tree')
  BY <1>3, <1>13, <1>15, GoodCopyStays DEF RolesInv
<1>18. outdated' \in BOOLEAN /\ (~outdated' => Matched(tree'))
  BY <1>3, <1>14, <1>15 DEF RolesInv
<1>19. ChangesAreAllowed
  BY <1>13, <1>15 DEF ChangesAreAllowed
<1> QED BY <1>12, <1>15, <1>16, <1>17, <1>18, <1>19 DEF RolesInv

LEMMA ChosenFacts ==
  ASSUME NEW c \in TreeNodes, NEW role, NEW inherits \in BOOLEAN,
         NEW acl \in Acls, NEW r, r = Chosen(c, role, inherits, acl)
  PROVE  /\ r \in TreeNodes /\ r.id = c.id /\ r.pid = c.pid
         /\ r.inheritRoles => r.security = c.security
         /\ r.inheritRoles \in {c.inheritRoles, inherits}
<1>1. CASE role # COORDINATOR
  BY <1>1 DEF Chosen, TreeNodes
<1>2. CASE role = COORDINATOR /\ inherits
  <2>1. r = [c EXCEPT !.inheritRoles = TRUE, !.security = c.security]
    BY <1>2 DEF Chosen
  <2> QED BY <1>2, <2>1 DEF TreeNodes
<1>3. CASE role = COORDINATOR /\ ~inherits
  <2>1. r = [c EXCEPT !.inheritRoles = FALSE, !.security = acl]
    BY <1>3 DEF Chosen
  <2> QED BY <1>3, <2>1 DEF TreeNodes
<1> QED BY <1>1, <1>2, <1>3

LEMMA FromParentFacts ==
  ASSUME NEW c \in TreeNodes, NEW p \in TreeNodes, NEW r, r = FromParent(c, p)
  PROVE  /\ r \in TreeNodes /\ r.id = c.id /\ r.pid = c.pid
         /\ r.inheritRoles = c.inheritRoles
         /\ r.inheritRoles => r.security = p.security
BY DEF FromParent, TreeNodes

\* The object is written over what is stored in its place.
LEMMA WrittenInPlace ==
  ASSUME GoodTree(tree), NEW t, DOMAIN t = DOMAIN tree,
         \A j \in DOMAIN tree :
           t[j] \in TreeNodes /\ t[j].id = j /\ t[j].pid = tree[j].pid,
         ~t[RootFolder].inheritRoles,
         NEW item \in TreeNodes, item.id \in DOMAIN tree,
         item.pid = tree[item.id].pid,
         item.id = RootFolder => ~item.inheritRoles,
         NEW r, r = Saved(t, item)
  PROVE  /\ DOMAIN r = DOMAIN tree /\ r[item.id] = item
         /\ \A j \in DOMAIN tree \ {item.id} : r[j] = t[j]
         /\ GoodTree(r)
<1>1. /\ DOMAIN r = DOMAIN tree /\ r[item.id] = item
      /\ \A j \in DOMAIN tree \ {item.id} : r[j] = t[j]
  <2>1. DOMAIN r = DOMAIN t \cup {item.id}
    BY DEF Saved
  <2>2. r[item.id] = item /\ \A j \in DOMAIN t \ {item.id} : r[j] = t[j]
    BY DEF Saved
  <2> QED BY <2>1, <2>2
<1>2. \A j \in DOMAIN tree :
        r[j] \in TreeNodes /\ r[j].id = j /\ r[j].pid = tree[j].pid
  BY <1>1
<1>3. ~r[RootFolder].inheritRoles
  BY <1>1, GoodTreeFacts
<1> QED BY <1>1, <1>2, <1>3, SamePlaces

\* The roles change, and go to all that is below the object.
LEMMA RolesGiven ==
  ASSUME GoodTree(tree), NEW u \in Users,
         NEW item \in TreeNodes, item.id \in DOMAIN tree, item.id = held[u].id,
         item.pid = tree[item.id].pid,
         item.id = RootFolder => ~item.inheritRoles,
         item.inheritRoles => item.security = tree[item.pid].security,
         get_access(tree[item.id], u) = COORDINATOR,
         NEW t, t = Saved(ApplyBelow(tree, item), item)
  PROVE  /\ DOMAIN t = DOMAIN tree /\ GoodTree(t)
         /\ Allowed(u, t) /\ (Matched(tree) => Matched(t))
<1>1. PICK b : b = ApplyBelow(tree, item)
  OBVIOUS
<1>2. PICK i : i = item.id
  OBVIOUS
<1>3. PICK below : below = Under(tree, i)
  OBVIOUS
<1>4. item.security \in Acls /\ i \in DOMAIN tree
  BY <1>2 DEF TreeNodes
<1>5. /\ HasParents(tree) /\ Rooted(tree)
      /\ \A j \in DOMAIN tree : tree[j] \in TreeNodes /\ tree[j].id = j
      /\ RootFolder \in DOMAIN tree /\ ~tree[RootFolder].inheritRoles
  BY GoodTreeFacts
<1>6. /\ DOMAIN b = DOMAIN tree
      /\ \A j \in DOMAIN tree \ below : b[j] = tree[j]
      /\ \A j \in DOMAIN tree :
           /\ b[j] \in TreeNodes /\ b[j].id = tree[j].id /\ b[j].pid = tree[j].pid
           /\ b[j].inheritRoles = tree[j].inheritRoles
           /\ b[j].folder = tree[j].folder
      /\ \A j \in below :
           b[j].security = IF ~tree[j].inheritRoles THEN tree[j].security
                           ELSE IF tree[j].pid = i THEN item.security
                           ELSE b[tree[j].pid].security
  BY <1>1, <1>2, <1>3, <1>4, ApplyBelowMeans
<1>7. /\ DOMAIN t = DOMAIN tree /\ t[i] = item /\ GoodTree(t)
      /\ \A j \in DOMAIN tree \ {i} : t[j] = b[j]
  <2>1. \A j \in DOMAIN tree :
          b[j] \in TreeNodes /\ b[j].id = j /\ b[j].pid = tree[j].pid
    BY <1>5, <1>6
  <2>2. ~b[RootFolder].inheritRoles
    BY <1>5, <1>6
  <2>3. t = Saved(b, item) /\ DOMAIN b = DOMAIN tree
    BY <1>1, <1>6
  <2> QED BY <1>2, <2>1, <2>2, <2>3, WrittenInPlace
<1>8. /\ below \subseteq DOMAIN tree /\ i \notin below
      /\ \A j \in DOMAIN tree : j \in below <=> j # i /\ i \in Line(tree)[j]
      /\ \A j \in below : tree[j].pid \in below \cup {i}
      /\ \A j \in DOMAIN tree \ {RootFolder, i} :
           tree[j].pid \in below \cup {i} => j \in below
      /\ i # RootFolder => tree[i].pid \notin below \cup {i}
  BY <1>3, <1>4, <1>5, UnderMeans
<1>9. Allowed(u, t)
  <2>1. ASSUME NEW j \in DOMAIN tree, t[j].security # tree[j].security
        PROVE  \E k \in Line(tree)[j] : get_access(tree[k], u) = COORDINATOR
    <3>1. j = i \/ j \in below
      BY <1>6, <1>7, <2>1
    <3>2. i \in Line(tree)[j]
      BY <1>4, <1>5, <1>8, <3>1, LineOf
    <3> QED BY <1>2, <3>2
  <2>2. \A j \in DOMAIN tree \ {i} :
          ~tree[j].inheritRoles =>
            t[j].security = tree[j].security /\ ~t[j].inheritRoles
    BY <1>6, <1>7
  <2> QED BY <1>2, <2>1, <2>2 DEF Allowed
<1>10. ASSUME Matched(tree), NEW j \in DOMAIN tree, t[j].inheritRoles
       PROVE  t[j].security = t[t[j].pid].security
  <2>1. j # RootFolder
    BY <1>7, <1>10 DEF GoodTree
  <2>2. tree[j].pid \in DOMAIN tree /\ t[j].pid = tree[j].pid
    BY <1>2, <1>5, <1>6, <1>7, <2>1 DEF HasParents
  <2>3. CASE j = i
    <3>1. tree[i].pid \notin below \cup {i}
      BY <1>8, <2>1, <2>3
    <3>2. t[tree[i].pid] = tree[tree[i].pid]
      BY <1>6, <1>7, <2>2, <2>3, <3>1
    <3>3. item.security = tree[tree[i].pid].security
      BY <1>2, <1>7, <1>10, <2>3
    <3> QED BY <1>7, <2>2, <2>3, <3>2, <3>3
  <2>4. CASE j \in below
    <3>1. t[j].security = b[j].security /\ tree[j].inheritRoles
      BY <1>6, <1>7, <1>8, <1>10, <2>4
    <3>2. CASE tree[j].pid = i
      BY <1>6, <1>7, <2>2, <2>4, <3>1, <3>2
    <3>3. CASE tree[j].pid # i
      BY <1>6, <1>7, <2>2, <2>4, <3>1, <3>3
    <3> QED BY <3>2, <3>3
  <2>5. CASE j # i /\ j \notin below
    <3>1. t[j] = tree[j]
      BY <1>6, <1>7, <2>5
    <3>2. tree[j].pid \notin below \cup {i}
      BY <1>8, <2>1, <2>5
    <3>3. t[tree[j].pid] = tree[tree[j].pid]
      BY <1>6, <1>7, <2>2, <3>2
    <3>4. tree[j].security = tree[tree[j].pid].security
      BY <1>10, <3>1 DEF Matched
    <3> QED BY <3>1, <3>3, <3>4
  <2> QED BY <2>3, <2>4, <2>5
<1>11. Matched(tree) => Matched(t)
  BY <1>7, <1>10 DEF Matched
<1> QED BY <1>7, <1>9, <1>11

LEMMA UpdateRolesStep ==
  ASSUME RolesInv, NEW u \in Users, NEW inherits \in BOOLEAN, NEW acl \in Acls,
         UpdateRoles(u, inherits, acl)
  PROVE  RolesInv' /\ ChangesAreAllowed
<1>1. PICK copy : copy = held[u]
  OBVIOUS
<1>2. PICK self : self = Chosen(copy, get_access(copy, u), inherits, acl)
  OBVIOUS
<1>3. PICK old : old = tree[copy.id]
  OBVIOUS
<1>4. PICK role : role = get_access(old, u)
  OBVIOUS
<1>5. PICK changed \in BOOLEAN :
        changed <=> \/ self.inheritRoles # old.inheritRoles
                    \/ ~self.inheritRoles /\ self.security # old.security
  OBVIOUS
<1>6. PICK item : item = IF role # COORDINATOR THEN RestorePrevious(self, old)
                         ELSE IF changed /\ self.id # RootFolder
                         THEN FromParent(self, tree[self.pid])
                         ELSE self
  OBVIOUS
<1>7. PICK t : t = Saved(IF role = COORDINATOR /\ changed
                         THEN ApplyBelow(tree, item) ELSE tree, item)
  OBVIOUS
<1>8. /\ copy # NoCopy /\ (copy.id = RootFolder => ~inherits)
      /\ Unmoved(self) /\ Called(u, t, role = COORDINATOR)
  BY <1>1, <1>2, <1>3, <1>4, <1>5, <1>6, <1>7 DEF UpdateRoles
<1>9. /\ copy \in TreeNodes /\ copy.id \in DOMAIN tree
      /\ copy.id = RootFolder => ~copy.inheritRoles
      /\ old \in TreeNodes /\ old.id = copy.id
  BY <1>1, <1>3, <1>8, CopyFacts
<1>10. GoodTree(tree)
  BY DEF RolesInv
<1>11. /\ self \in TreeNodes /\ self.id = copy.id /\ self.pid = copy.pid
       /\ self.inheritRoles => self.security = copy.security
       /\ self.inheritRoles \in {copy.inheritRoles, inherits}
  BY <1>2, <1>9, ChosenFacts
<1>12. /\ self.id = RootFolder => ~self.inheritRoles
       /\ self.pid = tree[self.id].pid
  BY <1>8, <1>9, <1>11 DEF Unmoved
<1>13. \A j \in DOMAIN tree : tree[j] \in TreeNodes /\ tree[j].id = j
  BY <1>10, GoodTreeFacts
<1>14. Kept(u, t, role = COORDINATOR)
  <2>1. CASE role # COORDINATOR
    <3>1. item = [self EXCEPT !.security = old.security,
                              !.inheritRoles = old.inheritRoles]
      BY <1>6, <2>1 DEF RestorePrevious
    <3>2. /\ item \in TreeNodes /\ item.id = copy.id
          /\ item.pid = tree[item.id].pid
          /\ item.security = old.security /\ item.inheritRoles = old.inheritRoles
      BY <1>9, <1>11, <1>12, <3>1 DEF TreeNodes
    <3>3. item.id = RootFolder => ~item.inheritRoles
      BY <1>3, <1>10, <3>2, GoodTreeFacts
    <3>4. t = Saved(tree, item)
      BY <1>7, <2>1
    <3>5. item.id \in DOMAIN tree /\ ~tree[RootFolder].inheritRoles
      BY <1>9, <1>10, <3>2, GoodTreeFacts
    <3>6. /\ DOMAIN t = DOMAIN tree /\ t[item.id] = item
          /\ \A j \in DOMAIN tree \ {item.id} : t[j] = tree[j]
          /\ GoodTree(t)
      BY <1>10, <1>13, <3>2, <3>3, <3>4, <3>5, WrittenInPlace
    <3>7. \A i \in DOMAIN tree :
            /\ t[i].security = tree[i].security
            /\ t[i].inheritRoles => tree[i].inheritRoles /\ t[i].pid = tree[i].pid
      BY <1>3, <3>2, <3>6
    <3>8. DOMAIN tree \subseteq DOMAIN t /\ DOMAIN t \ DOMAIN tree = {}
      BY <3>6
    <3>9. Allowed(u, t) /\ (Matched(tree) => Matched(t))
      BY <1>10, <3>7, <3>8, RolesStay
    <3> QED BY <3>6, <3>8, <3>9 DEF Kept
  <2>2. CASE role = COORDINATOR /\ changed
    <3>1. t = Saved(ApplyBelow(tree, item), item)
      BY <1>7, <2>2
    <3>2. /\ item \in TreeNodes /\ item.id = copy.id
          /\ item.pid = tree[item.id].pid
          /\ item.id = RootFolder => ~item.inheritRoles
          /\ item.inheritRoles => item.security = tree[item.pid].security
      <4>1. CASE self.id = RootFolder
        <5>1. item = self
          BY <1>6, <2>2, <4>1
        <5> QED BY <1>11, <1>12, <4>1, <5>1
      <4>2. CASE self.id # RootFolder
        <5>1. item = FromParent(self, tree[self.pid])
          BY <1>6, <2>2, <4>2
        <5>2. self.pid \in DOMAIN tree
          BY <1>9, <1>10, <1>11, <1>12, <4>2 DEF GoodTree, HasParents
        <5>3. tree[self.pid] \in TreeNodes
          BY <1>13, <5>2
        <5>4. /\ item \in TreeNodes /\ item.id = self.id /\ item.pid = self.pid
              /\ item.inheritRoles => item.security = tree[self.pid].security
          BY <1>11, <5>1, <5>3, FromParentFacts
        <5> QED BY <1>11, <1>12, <4>2, <5>4
      <4> QED BY <4>1, <4>2
    <3>3. item.id \in DOMAIN tree /\ item.id = held[u].id
      BY <1>1, <1>9, <3>2
    <3>4. get_access(tree[item.id], u) = COORDINATOR
      BY <1>3, <1>4, <2>2, <3>2
    <3>5. /\ DOMAIN t = DOMAIN tree /\ GoodTree(t)
          /\ Allowed(u, t) /\ (Matched(tree) => Matched(t))
      BY <1>10, <3>1, <3>2, <3>3, <3>4, RolesGiven
    <3> QED BY <3>5 DEF Kept
  <2>3. CASE role = COORDINATOR /\ ~changed
    <3>1. item = self /\ t = Saved(tree, item)
      BY <1>6, <1>7, <2>3
    <3>2. self.id \in DOMAIN tree /\ ~tree[RootFolder].inheritRoles
      BY <1>9, <1>10, <1>11, GoodTreeFacts
    <3>3. /\ DOMAIN t = DOMAIN tree /\ t[self.id] = self
          /\ \A j \in DOMAIN tree \ {self.id} : t[j] = tree[j]
          /\ GoodTree(t)
      BY <1>10, <1>11, <1>12, <1>13, <3>1, <3>2, WrittenInPlace
    <3>4. ASSUME Same(copy)
          PROVE  Allowed(u, t) /\ (Matched(tree) => Matched(t))
      <4>1. self.inheritRoles = old.inheritRoles /\ self.security = old.security
        BY <1>3, <1>5, <1>11, <2>3, <3>4 DEF Same
      <4>2. \A i \in DOMAIN tree :
              /\ t[i].security = tree[i].security
              /\ t[i].inheritRoles =>
                   tree[i].inheritRoles /\ t[i].pid = tree[i].pid
        BY <1>3, <1>11, <1>12, <3>3, <4>1
      <4>3. DOMAIN tree \subseteq DOMAIN t /\ DOMAIN t \ DOMAIN tree = {}
        BY <3>3
      <4> QED BY <1>10, <4>2, <4>3, RolesStay
    <3> QED BY <1>1, <2>3, <3>3, <3>4 DEF Kept
  <2> QED BY <2>1, <2>2, <2>3
<1> QED BY <1>1, <1>8, <1>14, CallKeeps

\* f tells what is copied to each id: the object i to n, and what is below it.
From(n, i, below, ids, f) ==
  /\ \A m \in ids : f[m] = i <=> m = n
  /\ \A j \in below : \E m \in ids : f[m] = j

\* There are ids for all that is copied.
LEMMA IdsForCopies ==
  ASSUME NEW n \in Nat, NEW below, IsFiniteSet(below), NEW i, i \notin below,
         NEW ids, ids = n .. n + Cardinality(below)
  PROVE  \E f \in [ids -> below \cup {i}] : From(n, i, below, ids, f)
<1>1. PICK k \in Nat : k = Cardinality(below)
  BY FS_CardinalityType
<1>2. PICK b : b \in Bijection(1 .. k, below)
  <2>1. ExistsBijection(1 .. k, below)
    BY <1>1, FS_CardinalityType
  <2> QED BY <2>1 DEF ExistsBijection
<1>3. b \in [1 .. k -> below] /\ \A j \in below : \E m \in 1 .. k : b[m] = j
  BY <1>2 DEF Bijection, Surjection
<1>4. ids = n .. n + k
  BY <1>1
<1>5. PICK f : f = [m \in ids |-> IF m = n THEN i ELSE b[m - n]]
  OBVIOUS
<1>6. \A m \in ids : m # n => m - n \in 1 .. k
  BY <1>1, <1>4
<1>7. \A m \in ids : m # n => f[m] \in below
  BY <1>3, <1>5, <1>6
<1>8. \A m \in ids : m = n => f[m] = i
  BY <1>5
<1>9. f \in [ids -> below \cup {i}]
  BY <1>5, <1>7, <1>8
<1>10. ASSUME NEW j \in below PROVE \E m \in ids : f[m] = j
  <2>1. PICK x \in 1 .. k : b[x] = j
    BY <1>3
  <2>2. x + n \in ids /\ x + n # n /\ x + n - n = x
    BY <1>1, <1>4, <2>1
  <2>3. f[x + n] = j
    BY <1>5, <2>1, <2>2
  <2> QED BY <2>2, <2>3
<1>11. \A m \in ids : f[m] = i <=> m = n
  BY <1>7, <1>8
<1> QED BY <1>9, <1>10, <1>11 DEF From

LEMMA CopiedMeans ==
  ASSUME GoodTree(tree), NEW u \in Users, NEW i \in DOMAIN tree,
         NEW below, below = CopiedWith(u, i)
  PROVE  /\ below \subseteq DOMAIN tree /\ i \notin below
         /\ RootFolder \notin below
         /\ IsFiniteSet(below) /\ Cardinality(below) \in Nat
         /\ \A j \in below : tree[j].pid \in below \cup {i}
<1>1. HasParents(tree) /\ Rooted(tree) /\ IsFiniteSet(DOMAIN tree)
  BY DEF GoodTree
<1>2. below = {j \in Under(tree, i) :
                 \A k \in Line(tree)[j] \ Line(tree)[i] : Visible(k, u)}
  BY DEF CopiedWith
<1>3. /\ Under(tree, i) \subseteq DOMAIN tree /\ i \notin Under(tree, i)
      /\ RootFolder \notin Under(tree, i)
      /\ \A j \in Under(tree, i) : tree[j].pid \in Under(tree, i) \cup {i}
  BY <1>1, UnderMeans
<1>4. below \subseteq DOMAIN tree /\ i \notin below /\ RootFolder \notin below
  BY <1>2, <1>3
<1>5. IsFiniteSet(below)
  BY <1>1, <1>4, FS_Subset
<1>6. Cardinality(below) \in Nat
  BY <1>5, FS_CardinalityType
<1>7. ASSUME NEW j \in below, tree[j].pid # i PROVE tree[j].pid \in below
  <2>1. tree[j].pid \in Under(tree, i)
    BY <1>2, <1>3, <1>7
  <2>2. j \in DOMAIN tree /\ j # RootFolder
    BY <1>4
  <2>3. Line(tree)[tree[j].pid] \subseteq Line(tree)[j]
    BY <1>1, <2>2, LineOf
  <2>4. \A k \in Line(tree)[tree[j].pid] \ Line(tree)[i] : Visible(k, u)
    BY <1>2, <2>3
  <2> QED BY <1>2, <2>1, <2>4
<1> QED BY <1>4, <1>5, <1>6, <1>7

\* The tree with the copies: clone, at n, and a copy of what each id is from.
Copies(self, target, u, ids, from) ==
  LET copyOf(j) == CHOOSE m \in ids : from[m] = j
      clone   == [Detached(self, target) EXCEPT !.id = NewNode, !.owner = u]
      copy(m) == [tree[from[m]] EXCEPT !.id = m, !.pid = copyOf(@), !.owner = u]
  IN [i \in DOMAIN tree \cup ids |->
        IF i \in DOMAIN tree THEN tree[i]
        ELSE IF i = NewNode THEN clone ELSE copy(i)]

LEMMA CopyToMeans ==
  ASSUME RolesInv, NEW u \in Users, NEW target \in DOMAIN tree,
         CopyTo(u, target)
  PROVE  \E below, ids, from :
           /\ below = CopiedWith(u, held[u].id)
           /\ ids = NewNode .. NewNode + Cardinality(below)
           /\ from \in [ids -> below \cup {held[u].id}]
           /\ From(NewNode, held[u].id, below, ids, from)
           /\ held[u] # NoCopy
           /\ Called(u, Copies(held[u], target, u, ids, from), TRUE)
<1> DEFINE below == CopiedWith(u, held[u].id)
           ids   == NewNode .. NewNode + Cardinality(below)
           from  == CHOOSE f \in [ids -> below \cup {held[u].id}] :
                      /\ \A m \in ids : f[m] = held[u].id <=> m = NewNode
                      /\ \A j \in below : \E m \in ids : f[m] = j
<1>1. /\ held[u] # NoCopy
      /\ Called(u, Copies(held[u], target, u, ids, from), TRUE)
  BY DEF CopyTo, Copies
<1>2. GoodTree(tree) /\ held[u].id \in DOMAIN tree /\ NewNode \in Nat
  BY <1>1, CopyFacts, NewNodeIsNew DEF RolesInv
<1> HIDE DEF below
<1>3. IsFiniteSet(below) /\ held[u].id \notin below
  BY <1>2, CopiedMeans DEF below
<1>4. \E f \in [ids -> below \cup {held[u].id}] :
        From(NewNode, held[u].id, below, ids, f)
  <2>1. PICK i, n : i = held[u].id /\ n = NewNode
    OBVIOUS
  <2>2. PICK I : I = ids
    OBVIOUS
  <2>3. n \in Nat /\ i \notin below /\ I = n .. n + Cardinality(below)
    BY <1>2, <1>3, <2>1, <2>2
  <2> HIDE DEF ids
  <2>4. \E f \in [I -> below \cup {i}] : From(n, i, below, I, f)
    BY <1>3, <2>3, IdsForCopies
  <2> QED BY <2>1, <2>2, <2>4
<1> HIDE DEF ids
<1>5. from \in [ids -> below \cup {held[u].id}]
      /\ From(NewNode, held[u].id, below, ids, from)
  BY <1>4 DEF From
<1> HIDE DEF from
<1>6. below = CopiedWith(u, held[u].id)
      /\ ids = NewNode .. NewNode + Cardinality(below)
  BY DEF below, ids
<1> QED BY <1>1, <1>5, <1>6

LEMMA CopyToStep ==
  ASSUME RolesInv, NEW u \in Users, NEW target \in DOMAIN tree,
         CopyTo(u, target)
  PROVE  RolesInv' /\ ChangesAreAllowed
<1>1. PICK below, ids, from :
        /\ below = CopiedWith(u, held[u].id)
        /\ ids = NewNode .. NewNode + Cardinality(below)
        /\ from \in [ids -> below \cup {held[u].id}]
        /\ From(NewNode, held[u].id, below, ids, from)
        /\ held[u] # NoCopy
        /\ Called(u, Copies(held[u], target, u, ids, from), TRUE)
  BY CopyToMeans
<1>2. PICK self : self = held[u]
  OBVIOUS
<1>3. PICK n : n = NewNode
  OBVIOUS
<1>4. PICK k : k = Cardinality(below)
  OBVIOUS
<1>5. PICK t : t = Copies(self, target, u, ids, from)
  OBVIOUS
<1>6. /\ self \in TreeNodes /\ self.id \in DOMAIN tree
      /\ GoodTree(tree) /\ n \in Nat /\ n \notin DOMAIN tree
      /\ DOMAIN tree = 0 .. n - 1 /\ DOMAIN tree \subseteq Nat
  BY <1>1, <1>2, <1>3, CopyFacts, NewNodeIsNew DEF RolesInv
<1>7. /\ below \subseteq DOMAIN tree /\ self.id \notin below
      /\ RootFolder \notin below /\ k \in Nat
      /\ \A j \in below : tree[j].pid \in below \cup {self.id}
  BY <1>1, <1>2, <1>4, <1>6, CopiedMeans
<1>8. ids = n .. n + k
  BY <1>1, <1>3, <1>4
<1>9. ids \subseteq Nat /\ n \in ids /\ ids \cap DOMAIN tree = {}
  <2>1. n .. n + k \subseteq Nat /\ n \in n .. n + k
    BY <1>6, <1>7
  <2>2. \A x \in n .. n + k : x \notin 0 .. n - 1
    BY <1>6, <1>7
  <2> QED BY <1>6, <1>8, <2>1, <2>2
<1>10. /\ \A m \in ids : from[m] \in below \cup {self.id}
       /\ \A m \in ids : from[m] = self.id <=> m = n
       /\ \A j \in below \cup {self.id} : \E m \in ids : from[m] = j
  BY <1>1, <1>2, <1>3, <1>9 DEF From
<1>11. PICK to : to = [j \in below \cup {self.id} |->
                         CHOOSE m \in ids : from[m] = j]
  OBVIOUS
<1>12. \A j \in below \cup {self.id} :
         to[j] \in ids /\ from[to[j]] = j /\ (to[j] = n <=> j = self.id)
  BY <1>10, <1>11
<1>13. PICK clone : clone = [Detached(self, target) EXCEPT !.id = n, !.owner = u]
  OBVIOUS
<1>14. /\ clone \in TreeNodes /\ clone.id = n /\ clone.pid = target
       /\ ~clone.inheritRoles /\ clone.security = self.security
  <2>1. PICK d : d = Detached(self, target)
    OBVIOUS
  <2>2. /\ d \in TreeNodes /\ d.pid = target /\ ~d.inheritRoles
        /\ d.security = self.security
    <3>1. target \in Nat
      BY <1>6
    <3>2. self \in TreeNodes
      BY <1>6
    <3> QED BY <2>1, <3>1, <3>2, DetachedFacts
  <2>3. clone = [d EXCEPT !.id = n, !.owner = u]
    BY <1>13, <2>1
  <2> QED BY <1>6, <2>2, <2>3 DEF TreeNodes
<1>15. /\ DOMAIN t = DOMAIN tree \cup ids /\ t[n] = clone
       /\ \A i \in DOMAIN tree : t[i] = tree[i]
  BY <1>3, <1>5, <1>6, <1>9, <1>13 DEF Copies
<1>16. ASSUME NEW m \in ids, m # n
       PROVE  /\ from[m] \in below
              /\ t[m] \in TreeNodes /\ t[m].id = m
              /\ t[m].pid = to[tree[from[m]].pid]
              /\ t[m].inheritRoles = tree[from[m]].inheritRoles
              /\ t[m].security = tree[from[m]].security
  <2>1. PICK x : x = tree[from[m]]
    OBVIOUS
  <2>2. from[m] \in below
    BY <1>10, <1>16
  <2>3. x \in TreeNodes /\ x.pid \in below \cup {self.id}
    BY <1>6, <1>7, <2>1, <2>2, GoodTreeFacts
  <2>4. to[x.pid] = CHOOSE y \in ids : from[y] = x.pid
    BY <1>11, <2>3
  <2>5. t[m] = [tree[from[m]] EXCEPT
                  !.id = m, !.pid = CHOOSE y \in ids : from[y] = tree[from[m]].pid,
                  !.owner = u]
    BY <1>3, <1>5, <1>9, <1>16 DEF Copies
  <2>6. t[m] = [x EXCEPT !.id = m, !.pid = to[x.pid], !.owner = u]
    BY <2>1, <2>4, <2>5
  <2>7. m \in Nat /\ to[x.pid] \in Nat
    BY <1>9, <1>12, <2>3
  <2>8. /\ t[m] \in TreeNodes /\ t[m].id = m /\ t[m].pid = to[x.pid]
        /\ t[m].inheritRoles = x.inheritRoles /\ t[m].security = x.security
    BY <2>3, <2>6, <2>7 DEF TreeNodes
  <2> QED BY <2>1, <2>2, <2>8
<1>17. GoodTree(t)
  <2>1. \A j \in DOMAIN t : t[j] \in TreeNodes /\ t[j].id = j
    BY <1>6, <1>14, <1>15, <1>16, GoodTreeFacts
  <2>2. \A j \in DOMAIN tree : t[j].pid = tree[j].pid
    BY <1>15
  <2>3. \A m \in ids : m # n => t[m].pid \in ids
    BY <1>7, <1>12, <1>16
  <2>4. \A j \in DOMAIN t \ {RootFolder} : t[j].pid \in DOMAIN t
    BY <1>6, <1>14, <1>15, <2>2, <2>3 DEF GoodTree, HasParents
  <2>5. ~t[RootFolder].inheritRoles
    BY <1>6, <1>15, GoodTreeFacts
  <2>6. ASSUME NEW S \in SUBSET ids, S # {}, \A m \in S : t[m].pid \in S
        PROVE  FALSE
    <3>1. n \notin S
      BY <1>9, <1>14, <1>15, <2>6
    <3> DEFINE T == {from[m] : m \in S}
    <3>2. \A m \in S : from[m] \in below /\ tree[from[m]].pid \in T
      <4> SUFFICES ASSUME NEW m \in S
                   PROVE  from[m] \in below /\ tree[from[m]].pid \in T
        OBVIOUS
      <4>1. m \in ids /\ m # n
        BY <3>1
      <4>2. from[m] \in below /\ t[m].pid = to[tree[from[m]].pid]
        BY <4>1, <1>16
      <4>3. from[to[tree[from[m]].pid]] = tree[from[m]].pid
        BY <1>7, <1>12, <4>2
      <4>4. to[tree[from[m]].pid] \in S
        BY <2>6, <4>2
      <4> QED BY <4>2, <4>3, <4>4
    <3>3. \A y \in T : y # RootFolder /\ tree[y].pid \in T
      BY <1>7, <3>2
    <3>4. T \in SUBSET DOMAIN tree /\ T # {}
      BY <1>7, <2>6, <3>2
    <3> HIDE DEF T
    <3> QED BY <1>6, <3>3, <3>4, GoodTreeFacts, NoLoop
  <2>7. \A S \in SUBSET (n .. n + k) : S # {} => \E j \in S : t[j].pid \notin S
    BY <1>8, <2>6
  <2>8. Grows(tree, t, n, k)
    BY <1>8, <1>15, <2>1, <2>2, <2>4, <2>5, <2>7 DEF Grows
  <2>9. n = Cardinality(DOMAIN tree)
    BY <1>3 DEF NewNode
  <2> QED BY <1>6, <1>7, <2>8, <2>9, GrownTree
<1>18. ASSUME Same(self)
       PROVE  Allowed(u, t) /\ (Matched(tree) => Matched(t))
  <2>1. \A i \in DOMAIN tree :
          /\ t[i].security = tree[i].security
          /\ t[i].inheritRoles => tree[i].inheritRoles /\ t[i].pid = tree[i].pid
    BY <1>15
  <2>2. ASSUME NEW m \in DOMAIN t \ DOMAIN tree, Matched(tree), t[m].inheritRoles
        PROVE  t[m].security = t[t[m].pid].security
    <3>1. m \in ids /\ m # n
      BY <1>14, <1>15, <2>2
    <3>2. PICK j : j = from[m]
      OBVIOUS
    <3>3. /\ j \in below /\ t[m].pid = to[tree[j].pid] /\ tree[j].inheritRoles
          /\ t[m].security = tree[j].security
      BY <1>16, <2>2, <3>1, <3>2
    <3>4. tree[j].security = tree[tree[j].pid].security
      BY <1>7, <2>2, <3>3 DEF Matched
    <3>5. CASE tree[j].pid = self.id
      <4>1. t[m].pid = n
        BY <1>12, <3>3, <3>5
      <4>2. t[n].security = tree[self.id].security
        BY <1>14, <1>15, <1>18 DEF Same
      <4> QED BY <3>3, <3>4, <3>5, <4>1, <4>2
    <3>6. CASE tree[j].pid # self.id
      <4>1. PICK m2 : m2 = to[tree[j].pid]
        OBVIOUS
      <4>2. tree[j].pid \in below /\ m2 \in ids /\ m2 # n /\ from[m2] = tree[j].pid
        BY <1>7, <1>12, <3>3, <3>6, <4>1
      <4>3. t[m2].security = tree[tree[j].pid].security
        BY <1>16, <4>2
      <4> QED BY <3>3, <3>4, <4>1, <4>3
    <3> QED BY <3>5, <3>6
  <2>3. DOMAIN tree \subseteq DOMAIN t
    BY <1>15
  <2> QED BY <1>6, <2>1, <2>2, <2>3, RolesStay
<1>19. Kept(u, t, TRUE)
  <2>1. DOMAIN tree \subseteq DOMAIN t
    BY <1>15
  <2> QED BY <1>2, <1>17, <1>18, <2>1 DEF Kept
<1> QED BY <1>1, <1>2, <1>5, <1>19, CallKeeps

LEMMA RolesInvStep ==
  RolesInv /\ [RolesNext]_rolesVars =>
    RolesInv' /\ (RolesNext => ChangesAreAllowed)
<1> SUFFICES ASSUME RolesInv, [RolesNext]_rolesVars
             PROVE  RolesInv' /\ (RolesNext => ChangesAreAllowed)
  OBVIOUS
<1>1. CASE UNCHANGED rolesVars
  <2>1. RolesInv'
    BY <1>1 DEF rolesVars, RolesInv
  <2>2. ChangesAreAllowed
    BY <1>1, NothingChanges DEF rolesVars
  <2> QED BY <2>1, <2>2
<1>2. CASE RolesNext
  <2>1. PICK u \in Users :
          \/ Refused(u)
          \/ \E i \in DOMAIN tree : Dispatched(u, i) \/ MoveTo(u, i) \/ CopyTo(u, i)
          \/ \E inherits \in BOOLEAN, acl \in Acls :
               \/ UpdateRoles(u, inherits, acl)
               \/ \E folder \in BOOLEAN : CreateIn(u, folder, inherits, acl)
          \/ RecycleIn(u)
          \/ \E i, target \in DOMAIN tree : RestoreIn(u, i, target)
    BY <1>2 DEF RolesNext
  <2> QED BY <2>1, RefusedStep, DispatchedStep, MoveToStep, CopyToStep,
             UpdateRolesStep, CreateInStep, RecycleInStep, RestoreInStep
<1> QED BY <1>1, <1>2

LEMMA RolesInvImplies ==
  RolesInv => RolesTypeOK /\ InheritedRolesMatch
<1> SUFFICES ASSUME RolesInv PROVE RolesTypeOK /\ InheritedRolesMatch
  OBVIOUS
<1>1. /\ HasParents(tree) /\ Rooted(tree)
      /\ \A i \in DOMAIN tree : tree[i] \in TreeNodes /\ tree[i].id = i
  BY GoodTreeFacts DEF RolesInv
<1>2. ASSUME NEW i \in DOMAIN tree, i # RootFolder
      PROVE  tree[i].pid \in DOMAIN tree \ {i}
  <2>1. tree[i].pid \in DOMAIN tree
    BY <1>1, <1>2 DEF HasParents
  <2>2. i \in Line(tree)[i] /\ i \notin Line(tree)[tree[i].pid]
    BY <1>1, <1>2, LineOf, LinesGoUp
  <2> QED BY <2>1, <2>2
<1>3. \A i \in DOMAIN tree :
        tree[i].security \in Acls /\ tree[i].inheritRoles \in BOOLEAN
  BY <1>1 DEF TreeNodes
<1>4. RolesTypeOK
  BY <1>1, <1>2, <1>3 DEF RolesInv, RolesTypeOK
<1>5. InheritedRolesMatch
  BY DEF RolesInv, InheritedRolesMatch, Matched
<1> QED BY <1>4, <1>5

\* The inductive invariant of the roles: the objects are a tree, and those that
\* inherit have the roles of their parents, until outdated roles are written.
THEOREM RolesInvariance == RolesSpec => []RolesInv
BY RolesInvInit, RolesInvStep, PTL DEF RolesSpec

\* Every variable of the roles keeps its type, for any users, descriptors and
\* number of objects and calls.
THEOREM RolesTypeCorrect == RolesSpec => []RolesTypeOK
BY RolesInvImplies, RolesInvariance, PTL

\* Roles go down the tree, change by those who may change them, and stay where
\* inheritance ends, under every method that creates, updates, moves, copies,
\* recycles or restores objects (GenericItem._apply_security).
THEOREM RolesReachAll == RolesSpec => RolesGoDown
<1>1. RolesInv /\ [RolesNext]_rolesVars =>
        [~outdated' =>
           \A i \in DOMAIN tree :
             tree'[i].security # tree[i].security =>
               \E u \in Caller : \E j \in Line(tree)[i] :
                 get_access(tree[j], u) = COORDINATOR]_rolesVars
  BY RolesInvStep DEF ChangesAreAllowed
<1>2. RolesInv /\ [RolesNext]_rolesVars =>
        [~outdated' =>
           \A i \in DOMAIN tree \ {held[u].id : u \in Caller} :
             ~tree[i].inheritRoles => /\ tree'[i].security = tree[i].security
                                      /\ ~tree'[i].inheritRoles]_rolesVars
  BY RolesInvStep DEF ChangesAreAllowed
<1> QED BY <1>1, <1>2, RolesInvImplies, RolesInvariance, PTL
        DEF RolesGoDown, RolesChangedByCoordinators, OwnRolesStay, RolesSpec

-----------------------------------------------------------------------------
(* What the items keep outside their own record.                           *)

InMemories == [id : Nat, value : Contents, dirty : BOOLEAN]
ItemRecords ==
  [attrs : SUBSET Attributes, doc : Nat, own : SUBSET Contents,
   parts : SUBSET Nat, deleted : BOOLEAN]
PartRecords == [pid : Nat, doc : Nat, deleted : BOOLEAN]
PartsInMemory == [pid : Nat, doc : InMemories, deleted : BOOLEAN]

\* What is stored consists of tables, and all ids in it were given out.
Tabled(s) ==
  /\ s = [items |-> s.items, composites |-> s.composites, docs |-> s.docs,
          next |-> s.next, ok |-> s.ok]
  /\ s.next \in Nat \ {0} /\ s.ok \in BOOLEAN
  /\ s.items \in [DOMAIN s.items -> ItemRecords]
  /\ s.composites \in [DOMAIN s.composites -> PartRecords]
  /\ s.docs \in [DOMAIN s.docs -> Contents]

HasDoc(item) == "doc" \in item.attrs

AllGivenOut(s) ==
  /\ \A i \in DOMAIN s.items : i \in 1 .. s.next - 1 /\ s.items[i].doc < s.next
  /\ \A i \in DOMAIN s.items : HasDoc(s.items[i]) <=> s.items[i].doc # NoId
  /\ \A c \in DOMAIN s.composites :
       c \in 1 .. s.next - 1 /\ s.composites[c].doc < s.next
  /\ \A d \in DOMAIN s.docs : d \in 1 .. s.next - 1
  /\ DOMAIN s.items \cap DOMAIN s.composites = {}

\* No two attributes have the same document.
DocsApart(s) ==
  /\ \A i, j \in DOMAIN s.items :
       HasDoc(s.items[i]) /\ HasDoc(s.items[j])
         /\ s.items[i].doc = s.items[j].doc => i = j
  /\ \A c, e \in DOMAIN s.composites :
       s.composites[c].doc = s.composites[e].doc => c = e
  /\ \A i \in DOMAIN s.items, c \in DOMAIN s.composites :
       HasDoc(s.items[i]) => s.items[i].doc # s.composites[c].doc

\* Every document belongs to an attribute or was left behind; and every
\* attribute has its document, or its value in the record of the item.
DocsBelong(s, left) ==
  \A d \in DOMAIN s.docs :
    \/ d \in left
    \/ \E i \in DOMAIN s.items : HasDoc(s.items[i]) /\ s.items[i].doc = d
    \/ \E c \in DOMAIN s.composites : s.composites[c].doc = d

DocsThere(s) ==
  /\ \A i \in DOMAIN s.items :
       HasDoc(s.items[i]) =>
         (s.items[i].doc \in DOMAIN s.docs) # (s.items[i].own # {})
  /\ \A c \in DOMAIN s.composites : s.composites[c].doc \in DOMAIN s.docs

PartsThere(s, common) ==
  \A i \in DOMAIN s.items : \A c \in s.items[i].parts \ common :
    /\ c \in DOMAIN s.composites
    /\ s.composites[c].pid = i
    /\ schemas = 0 => s.composites[c].deleted = s.items[i].deleted

PartsBelong(s, common, left) ==
  \A c \in DOMAIN s.composites \ (left \cup common) :
    \E i \in DOMAIN s.items : c \in s.items[i].parts

\* An item without the attribute has no composites, and as long as the schema
\* has not changed it has the attributes of its class.
Schemed(s) ==
  \A i \in DOMAIN s.items :
    /\ "parts" \notin s.items[i].attrs => s.items[i].parts = {}
    /\ schemas = 0 => s.items[i].attrs = props

Together(s, common, left) ==
  /\ Tabled(s) /\ AllGivenOut(s)
  /\ DocsApart(s) /\ DocsBelong(s, left) /\ DocsThere(s)
  /\ PartsThere(s, common) /\ PartsBelong(s, common, left)
  /\ Schemed(s)

\* An id of a document that was given out and not used yet.
Unclaimed(s, d) ==
  /\ d \in 1 .. s.next - 1 /\ d \notin DOMAIN s.docs
  /\ \A i \in DOMAIN s.items : s.items[i].doc # d
  /\ \A c \in DOMAIN s.composites : s.composites[c].doc # d

\* The composites that an item is given are its own, as they are stored, or
\* new.
PartsGiven(s, i, own, objects) ==
  /\ objects \in [DOMAIN objects -> PartsInMemory]
  /\ \A c \in DOMAIN objects :
       IF c \in DOMAIN s.composites
       THEN /\ c \in own
            /\ objects[c].doc.id = s.composites[c].doc
            /\ objects[c].deleted = s.composites[c].deleted
       ELSE /\ c \in 1 .. s.next - 1 /\ c \notin DOMAIN s.items /\ c # i
            /\ Unclaimed(s, objects[c].doc.id)
            /\ objects[c].doc.dirty /\ ~objects[c].deleted
  /\ \A c, e \in DOMAIN objects :
       objects[c].doc.id = objects[e].doc.id => c = e

CallRecorded ==
  /\ call = [at |-> call.at, item |-> call.item, set |-> call.set,
             value |-> call.value, doc |-> call.doc,
             list |-> Given(call.list.ids, call.list.objects),
             tries |-> call.tries]
  /\ call.at \in {"create", "update"}
  /\ call.set \in BOOLEAN /\ call.value \in Contents
  /\ call.doc \in InMemories /\ call.doc.dirty = call.set
  /\ call.set => call.doc.value = call.value
  /\ call.tries \in Nat /\ call.list.ids \in SUBSET Nat

CreateGiven ==
  /\ call.item \in 1 .. saved.next - 1
  /\ call.item \notin DOMAIN saved.items /\ call.item \notin DOMAIN saved.composites
  /\ call.set /\ Unclaimed(saved, call.doc.id) /\ call.list.ids = {}
  /\ PartsGiven(saved, call.item, {}, call.list.objects)
  /\ \A c \in DOMAIN call.list.objects :
       call.list.objects[c].doc.id # call.doc.id

UpdateGiven ==
  /\ saved.next <= MaxIds
  /\ call.item \in DOMAIN saved.items /\ ~saved.items[call.item].deleted
  /\ call.list.ids \subseteq saved.items[call.item].parts
  /\ PartsGiven(saved, call.item, saved.items[call.item].parts,
                call.list.objects)

CallGiven ==
  /\ CallRecorded
  /\ call.at = "create" => CreateGiven
  /\ call.at = "update" => UpdateGiven

AttInv ==
  /\ props \in SUBSET Attributes /\ schemas \in Nat
  /\ saved.ok /\ saved.next <= MaxIds + 1
  /\ Together(saved, shared, lost)
  /\ call = NoCall \/ CallGiven

\* No exception was raised.
Done(s) == s.ok

IsTable(f) == f = [x \in DOMAIN f |-> f[x]]
PartTable(f) == f \in [DOMAIN f -> PartRecords]
DocTable(f) == f \in [DOMAIN f -> Contents]
ItemTable(f) == f \in [DOMAIN f -> ItemRecords]

\* New rows over a table: the new ones, and the others as they were.
LEMMA OverlaidIs ==
  ASSUME NEW new, NEW table, NEW t, t = Overlaid(new, table)
  PROVE  /\ IsTable(t)
         /\ \A x : x \in DOMAIN t <=> x \in DOMAIN table \/ x \in DOMAIN new
         /\ \A x \in DOMAIN new : t[x] = new[x]
         /\ \A x \in DOMAIN table : x \notin DOMAIN new => t[x] = table[x]
BY DEF Overlaid, IsTable

\* One row over a table: that row, and the others as they were.
LEMMA RowOverlaidIs ==
  ASSUME NEW id, NEW record, NEW table, NEW t,
         t = Overlaid(Row(id, record), table)
  PROVE  /\ IsTable(t)
         /\ \A x : x \in DOMAIN t <=> x \in DOMAIN table \/ x = id
         /\ t[id] = record
         /\ \A x \in DOMAIN table : x # id => t[x] = table[x]
BY DEF Overlaid, Row, IsTable

\* A table without some rows keeps the others.
LEMMA WithoutIs ==
  ASSUME NEW table, NEW ids, NEW t, t = Without(table, ids)
  PROVE  /\ IsTable(t)
         /\ \A x : x \in DOMAIN t <=> x \in DOMAIN table /\ x \notin ids
         /\ \A x \in DOMAIN t : t[x] = table[x]
BY DEF Without, Tables!Restrict, IsTable

\* A store whose tables are written anew.
Rewritten(s, i, c, d) == [s EXCEPT !.items = i, !.composites = c, !.docs = d]

\* Tables written over stored ones are what is stored, if they are tables.
LEMMA RewrittenIs ==
  ASSUME NEW s, Tabled(s), NEW i, ItemTable(i), NEW c, PartTable(c),
         NEW d, DocTable(d), NEW t, t = Rewritten(s, i, c, d)
  PROVE  /\ Tabled(t) /\ t.items = i /\ t.composites = c /\ t.docs = d
         /\ t.next = s.next /\ (Done(t) <=> Done(s))
<1>1. t = [items |-> i, composites |-> c, docs |-> d, next |-> s.next,
           ok |-> s.ok]
  BY DEF Tabled, Rewritten
<1> QED BY <1>1 DEF Tabled, ItemTable, PartTable, DocTable, Done

\* What is stored are three tables and a counter.
LEMMA TabledHas ==
  ASSUME NEW s, Tabled(s)
  PROVE  /\ ItemTable(s.items) /\ PartTable(s.composites) /\ DocTable(s.docs)
         /\ s.next \in Nat
BY DEF Tabled, ItemTable, PartTable, DocTable

\* A document that is stored.
LEMMA PutExternalIs ==
  ASSUME NEW s, Tabled(s), NEW id, NEW value \in Contents,
         NEW t, t = PutExternal(s, id, value)
  PROVE  /\ Tabled(t) /\ (Done(t) <=> Done(s)) /\ t.next = s.next
         /\ t.items = s.items /\ t.composites = s.composites
         /\ \A d : d \in DOMAIN t.docs <=> d \in DOMAIN s.docs \/ d = id
         /\ t.docs[id] = value
         /\ \A d \in DOMAIN s.docs : d # id => t.docs[d] = s.docs[d]
<1>i. PICK i0 : i0 = s.items
  OBVIOUS
<1>c. PICK c0 : c0 = s.composites
  OBVIOUS
<1>0. PICK g : g = s.docs
  OBVIOUS
<1>1. PICK f : f = Overlaid(Row(id, value), g)
  OBVIOUS
<1>2. /\ IsTable(f)
      /\ \A d : d \in DOMAIN f <=> d \in DOMAIN g \/ d = id
      /\ f[id] = value
      /\ \A d \in DOMAIN g : d # id => f[d] = g[d]
  BY <1>1, RowOverlaidIs
<1>3. \A x \in DOMAIN f : f[x] \in Contents
  BY <1>0, <1>2 DEF Tabled
<1>4. DocTable(f)
  BY <1>2, <1>3 DEF IsTable, DocTable
<1>5. t = Rewritten(s, i0, c0, f)
  BY <1>i, <1>c, <1>0, <1>1 DEF PutExternal, Rewritten, Tabled
<1>7. ItemTable(i0) /\ PartTable(c0)
  BY <1>i, <1>c, TabledHas
<1>6. /\ Tabled(t) /\ t.items = i0 /\ t.composites = c0
      /\ t.docs = f /\ t.next = s.next /\ (Done(t) <=> Done(s))
  BY <1>4, <1>5, <1>7, RewrittenIs
<1> QED BY <1>i, <1>c, <1>0, <1>2, <1>6

\* delete_external takes the documents with those ids and nothing else.
LEMMA DeleteExternalsIs ==
  ASSUME NEW s, Tabled(s), NEW ids,
         NEW t, t = DeleteExternals(s, ids)
  PROVE  /\ Tabled(t) /\ (Done(t) <=> Done(s)) /\ t.next = s.next
         /\ t.items = s.items /\ t.composites = s.composites
         /\ \A d : d \in DOMAIN t.docs <=> d \in DOMAIN s.docs /\ d \notin ids
         /\ \A d \in DOMAIN t.docs : t.docs[d] = s.docs[d]
<1>i. PICK i0 : i0 = s.items
  OBVIOUS
<1>c. PICK c0 : c0 = s.composites
  OBVIOUS
<1>0. PICK g : g = s.docs
  OBVIOUS
<1>1. PICK f : f = Without(g, ids)
  OBVIOUS
<1>2. /\ IsTable(f)
      /\ \A d : d \in DOMAIN f <=> d \in DOMAIN g /\ d \notin ids
      /\ \A d \in DOMAIN f : f[d] = g[d]
  BY <1>1, WithoutIs
<1>3. \A x \in DOMAIN f : f[x] \in Contents
  BY <1>0, <1>2 DEF Tabled
<1>4. DocTable(f)
  BY <1>2, <1>3 DEF IsTable, DocTable
<1>5. t = Rewritten(s, i0, c0, f)
  BY <1>i, <1>c, <1>0, <1>1 DEF DeleteExternals, Rewritten, Tabled
<1>7. ItemTable(i0) /\ PartTable(c0)
  BY <1>i, <1>c, TabledHas
<1>6. /\ Tabled(t) /\ t.items = i0 /\ t.composites = c0
      /\ t.docs = f /\ t.next = s.next /\ (Done(t) <=> Done(s))
  BY <1>4, <1>5, <1>7, RewrittenIs
<1> QED BY <1>i, <1>c, <1>0, <1>2, <1>6

\* A method that raised has stored nothing that can be committed.
LEMMA FailedIs ==
  ASSUME NEW s, Tabled(s), NEW t, t = Failed(s)
  PROVE  Tabled(t) /\ ~Done(t)
<1>1. t = [items |-> s.items, composites |-> s.composites, docs |-> s.docs,
           next |-> s.next, ok |-> FALSE]
  BY DEF Tabled, Failed
<1> QED BY <1>1 DEF Tabled, Done

\* An item that is stored.
LEMMA PutThingIs ==
  ASSUME NEW s, Tabled(s), NEW i, NEW item \in ItemRecords,
         NEW t, t = PutThing(s, i, item)
  PROVE  /\ Tabled(t) /\ (Done(t) <=> Done(s)) /\ t.next = s.next
         /\ t.docs = s.docs /\ t.composites = s.composites
         /\ \A j : j \in DOMAIN t.items <=> j \in DOMAIN s.items \/ j = i
         /\ t.items[i] = item
         /\ \A j \in DOMAIN s.items : j # i => t.items[j] = s.items[j]
<1>c. PICK c0 : c0 = s.composites
  OBVIOUS
<1>d. PICK d0 : d0 = s.docs
  OBVIOUS
<1>0. PICK g : g = s.items
  OBVIOUS
<1>1. PICK f : f = Overlaid(Row(i, item), g)
  OBVIOUS
<1>2. /\ IsTable(f)
      /\ \A j : j \in DOMAIN f <=> j \in DOMAIN g \/ j = i
      /\ f[i] = item
      /\ \A j \in DOMAIN g : j # i => f[j] = g[j]
  BY <1>1, RowOverlaidIs
<1>3. \A x \in DOMAIN f : f[x] \in ItemRecords
  BY <1>0, <1>2 DEF Tabled
<1>4. ItemTable(f)
  BY <1>2, <1>3 DEF IsTable, ItemTable
<1>5. t = Rewritten(s, f, c0, d0)
  BY <1>c, <1>d, <1>0, <1>1 DEF PutThing, Rewritten, Tabled
<1>7. PartTable(c0) /\ DocTable(d0)
  BY <1>c, <1>d, TabledHas
<1>6. /\ Tabled(t) /\ t.composites = c0 /\ t.docs = d0
      /\ t.items = f /\ t.next = s.next /\ (Done(t) <=> Done(s))
  BY <1>4, <1>5, <1>7, RewrittenIs
<1> QED BY <1>c, <1>d, <1>0, <1>2, <1>6

\* Ids that are given out.
Advanced(s, n) == [s EXCEPT !.next = @ + n]

\* Giving out ids changes no table.
LEMMA AdvancedIs ==
  ASSUME NEW s, Tabled(s), NEW n \in Nat, NEW t, t = Advanced(s, n)
  PROVE  /\ Tabled(t) /\ (Done(t) <=> Done(s)) /\ t.next = s.next + n
         /\ t.docs = s.docs /\ t.composites = s.composites
         /\ t.items = s.items
<1>1. t = [items |-> s.items, composites |-> s.composites, docs |-> s.docs,
           next |-> s.next + n, ok |-> s.ok]
  BY DEF Tabled, Advanced
<1>2. s.next + n \in Nat \ {0}
  BY DEF Tabled
<1> QED BY <1>1, <1>2 DEF Tabled, Done

\* The handler of a document stores it if it was set, and nothing else.
LEMMA StoreExternalIs ==
  ASSUME NEW s, Tabled(s), NEW attr \in InMemories,
         NEW t, t = StoreExternal(s, attr)
  PROVE  /\ Tabled(t) /\ (Done(t) <=> Done(s)) /\ t.next = s.next
         /\ t.items = s.items /\ t.composites = s.composites
         /\ \A d : d \in DOMAIN t.docs <=>
              d \in DOMAIN s.docs \/ (attr.dirty /\ d = attr.id)
         /\ attr.dirty => t.docs[attr.id] = attr.value
<1>1. attr.value \in Contents /\ attr.dirty \in BOOLEAN
  BY DEF InMemories
<1>2. CASE attr.dirty
  <2>i. PICK i : i = attr.id
    OBVIOUS
  <2>v. PICK v : v = attr.value
    OBVIOUS
  <2>1. t = PutExternal(s, i, v) /\ v \in Contents
    BY <1>1, <1>2, <2>i, <2>v DEF StoreExternal
  <2>2. /\ Tabled(t) /\ (Done(t) <=> Done(s)) /\ t.next = s.next
        /\ t.items = s.items /\ t.composites = s.composites
        /\ \A d : d \in DOMAIN t.docs <=> d \in DOMAIN s.docs \/ d = i
        /\ t.docs[i] = v
    BY <2>1, PutExternalIs
  <2> QED BY <2>2, <2>i, <2>v, <1>2
<1>3. CASE ~attr.dirty
  BY <1>3 DEF StoreExternal
<1> QED BY <1>2, <1>3

\* Composites that are deleted permanently, with their documents.
Removed(s, ids) == RemoveComposites(s, ids, TRUE)

DocsOfParts(s, ids) == {s.composites[c].doc : c \in ids}

\* Removing composites takes them and their documents and nothing else.
LEMMA RemovedIs ==
  ASSUME NEW s, Tabled(s), NEW ids, ids \subseteq DOMAIN s.composites,
         NEW t, t = Removed(s, ids)
  PROVE  /\ Tabled(t) /\ (Done(t) <=> Done(s)) /\ t.next = s.next /\ t.items = s.items
         /\ \A c : c \in DOMAIN t.composites <=>
              c \in DOMAIN s.composites /\ c \notin ids
         /\ \A c \in DOMAIN t.composites : t.composites[c] = s.composites[c]
         /\ \A d : d \in DOMAIN t.docs <=>
              d \in DOMAIN s.docs /\ \A c \in ids : s.composites[c].doc # d
         /\ \A d \in DOMAIN t.docs : t.docs[d] = s.docs[d]
<1>n. PICK n : n = DocsOfParts(s, ids)
  OBVIOUS
<1>0. PICK u : u = DeleteExternals(s, n)
  OBVIOUS
<1>1. /\ Tabled(u) /\ (Done(u) <=> Done(s)) /\ u.next = s.next
      /\ u.items = s.items /\ u.composites = s.composites
      /\ \A d : d \in DOMAIN u.docs <=> d \in DOMAIN s.docs /\ d \notin n
      /\ \A d \in DOMAIN u.docs : u.docs[d] = s.docs[d]
  BY <1>0, DeleteExternalsIs
<1>g. PICK g : g = s.composites
  OBVIOUS
<1>2. PICK f : f = Without(g, ids)
  OBVIOUS
<1>3. /\ IsTable(f)
      /\ \A c : c \in DOMAIN f <=> c \in DOMAIN g /\ c \notin ids
      /\ \A c \in DOMAIN f : f[c] = g[c]
  BY <1>2, WithoutIs
<1>i. PICK i0 : i0 = u.items
  OBVIOUS
<1>d. PICK d0 : d0 = u.docs
  OBVIOUS
<1>4. t = Rewritten(u, i0, f, d0)
  <2>1. t = [u EXCEPT !.composites = f]
    BY <1>n, <1>0, <1>1, <1>g, <1>2
       DEF Removed, RemoveComposites, RemoveExternals, DocsOfParts
  <2>2. Tabled(u)
    BY <1>1
  <2> QED BY <2>1, <2>2, <1>i, <1>d DEF Rewritten, Tabled
<1>5. \A c \in DOMAIN f : f[c] \in PartRecords
  BY <1>g, <1>3 DEF Tabled
<1>6. PartTable(f)
  BY <1>3, <1>5 DEF IsTable, PartTable
<1>7. Tabled(u) /\ ItemTable(i0) /\ DocTable(d0)
  BY <1>1, <1>i, <1>d, TabledHas
<1>8. /\ Tabled(t) /\ t.items = i0 /\ t.composites = f /\ t.docs = d0
      /\ t.next = u.next /\ (Done(t) <=> Done(u))
  BY <1>4, <1>6, <1>7, RewrittenIs
<1>9. (Done(t) <=> Done(s)) /\ t.next = s.next /\ t.items = s.items
  BY <1>1, <1>8, <1>i
<1>10. /\ \A c : c \in DOMAIN t.composites <=>
            c \in DOMAIN s.composites /\ c \notin ids
       /\ \A c \in DOMAIN t.composites : t.composites[c] = s.composites[c]
  BY <1>3, <1>g, <1>8
<1>11. \A d : d \in n <=> \E c \in ids : s.composites[c].doc = d
  BY <1>n DEF DocsOfParts
<1>12. /\ \A d : d \in DOMAIN t.docs <=>
            d \in DOMAIN s.docs /\ \A c \in ids : s.composites[c].doc # d
       /\ \A d \in DOMAIN t.docs : t.docs[d] = s.docs[d]
  BY <1>1, <1>8, <1>d, <1>11
<1> QED BY <1>8, <1>9, <1>10, <1>12

\* Marking composites changes whether they are deleted and nothing else.
LEMMA MarkedIs ==
  ASSUME NEW s, Tabled(s), NEW ids, NEW b \in BOOLEAN,
         NEW t, t = MarkComposites(s, ids, b)
  PROVE  /\ Tabled(t) /\ (Done(t) <=> Done(s)) /\ t.next = s.next /\ t.items = s.items
         /\ t.docs = s.docs
         /\ \A c : c \in DOMAIN t.composites <=> c \in DOMAIN s.composites
         /\ \A c \in DOMAIN s.composites :
              /\ t.composites[c].pid = s.composites[c].pid
              /\ t.composites[c].doc = s.composites[c].doc
              /\ t.composites[c].deleted =
                   IF c \in ids THEN b ELSE s.composites[c].deleted
<1>g. PICK g : g = s.composites
  OBVIOUS
<1>i. PICK i0 : i0 = s.items
  OBVIOUS
<1>d. PICK d0 : d0 = s.docs
  OBVIOUS
<1>1. PICK f : f = [c \in DOMAIN g |->
                      IF c \in ids THEN [g[c] EXCEPT !.deleted = b] ELSE g[c]]
  OBVIOUS
<1>2. g \in [DOMAIN g -> PartRecords]
  BY <1>g DEF Tabled
<1>3. ASSUME NEW c \in DOMAIN g
      PROVE  /\ f[c] \in PartRecords
             /\ f[c].pid = g[c].pid /\ f[c].doc = g[c].doc
             /\ f[c].deleted = IF c \in ids THEN b ELSE g[c].deleted
  BY <1>1, <1>2 DEF PartRecords
<1>4. DOMAIN f = DOMAIN g /\ PartTable(f)
  BY <1>1, <1>3 DEF PartTable
<1>5. t = Rewritten(s, i0, f, d0)
  BY <1>g, <1>i, <1>d, <1>1 DEF MarkComposites, Rewritten, Tabled
<1>6. ItemTable(i0) /\ DocTable(d0)
  BY <1>i, <1>d, TabledHas
<1>7. /\ Tabled(t) /\ t.items = i0 /\ t.composites = f /\ t.docs = d0
      /\ t.next = s.next /\ (Done(t) <=> Done(s))
  BY <1>4, <1>5, <1>6, RewrittenIs
<1> QED BY <1>3, <1>4, <1>g, <1>i, <1>d, <1>7

\* The document was set in one of the composites in memory.
IsDirty(objects, d) ==
  \E c \in DOMAIN objects : objects[c].doc.dirty /\ objects[c].doc.id = d

DirtyIds(objects) == {a.id : a \in SetDocuments(objects)}

StoredPart(i, object) ==
  [pid |-> i, doc |-> object.doc.id, deleted |-> object.deleted]

ObjectTable(f) == f \in [DOMAIN f -> PartsInMemory]

\* The documents of composites to be stored are those that were set.
LEMMA SetIds ==
  ASSUME NEW objects, ObjectTable(objects)
  PROVE  /\ \A d : d \in DirtyIds(objects) <=> IsDirty(objects, d)
         /\ \A a \in SetDocuments(objects) : a.value \in Contents
<1>0. objects \in [DOMAIN objects -> PartsInMemory]
  BY DEF ObjectTable
<1>1. \A c \in DOMAIN objects : objects[c].doc \in InMemories
  BY <1>0 DEF PartsInMemory
<1>2. \A c \in DOMAIN objects : objects[c].doc.value \in Contents
  BY <1>1 DEF InMemories
<1>3. \A a \in SetDocuments(objects) : a.value \in Contents
  BY <1>2 DEF SetDocuments
<1>4. \A d : d \in DirtyIds(objects) <=> IsDirty(objects, d)
  BY DEF SetDocuments, DirtyIds, IsDirty
<1> QED BY <1>3, <1>4

\* Composites that are written, with the documents that were set.
LEMMA PutCompositesIs ==
  ASSUME NEW s, Tabled(s), NEW i \in Nat, NEW objects, ObjectTable(objects),
         \A c \in DOMAIN objects :
           c \in DOMAIN s.composites => s.composites[c].pid = i,
         NEW t, t = PutComposites(s, i, objects)
  PROVE  /\ Tabled(t) /\ (Done(t) <=> Done(s)) /\ t.next = s.next /\ t.items = s.items
         /\ \A c : c \in DOMAIN t.composites <=>
              c \in DOMAIN s.composites \/ c \in DOMAIN objects
         /\ \A c \in DOMAIN objects :
              t.composites[c] = StoredPart(i, objects[c])
         /\ \A c \in DOMAIN s.composites :
              c \notin DOMAIN objects => t.composites[c] = s.composites[c]
         /\ \A d : d \in DOMAIN t.docs <=>
              d \in DOMAIN s.docs \/ IsDirty(objects, d)
         /\ \A d \in DOMAIN s.docs :
              ~IsDirty(objects, d) => t.docs[d] = s.docs[d]
<1>o. PICK o : o = [c \in DOMAIN objects |->
                      [objects[c] EXCEPT !.pid = i, !.doc = @.id]]
  OBVIOUS
<1>2. ASSUME NEW c \in DOMAIN objects
      PROVE  o[c] = StoredPart(i, objects[c]) /\ o[c] \in PartRecords
  <2>1. PICK x : x = objects[c]
    OBVIOUS
  <2>2. x \in PartsInMemory
    BY <2>1 DEF ObjectTable
  <2>3. o[c] = [x EXCEPT !.pid = i, !.doc = @.id]
    BY <1>o, <2>1
  <2>4. o[c] = [pid |-> i, doc |-> x.doc.id, deleted |-> x.deleted]
    BY <2>2, <2>3 DEF PartsInMemory
  <2>5. x.doc.id \in Nat /\ x.deleted \in BOOLEAN
    BY <2>2 DEF PartsInMemory, InMemories
  <2> QED BY <2>1, <2>4, <2>5 DEF StoredPart, PartRecords
<1>n. PICK n : n = [d \in DirtyIds(objects) |->
                      (CHOOSE a \in SetDocuments(objects) : a.id = d).value]
  OBVIOUS
<1>3. ASSUME NEW d \in DirtyIds(objects)
      PROVE  n[d] \in Contents
  <2>1. \E a \in SetDocuments(objects) : a.id = d
    BY DEF DirtyIds
  <2> QED BY <1>n, <2>1, SetIds
<1>g. PICK g : g = s.composites
  OBVIOUS
<1>h. PICK h : h = s.docs
  OBVIOUS
<1>i. PICK i0 : i0 = s.items
  OBVIOUS
<1>f. PICK f : f = Overlaid(o, g)
  OBVIOUS
<1>e. PICK e : e = Overlaid(n, h)
  OBVIOUS
<1>4. /\ IsTable(f)
      /\ \A c : c \in DOMAIN f <=> c \in DOMAIN g \/ c \in DOMAIN o
      /\ \A c \in DOMAIN o : f[c] = o[c]
      /\ \A c \in DOMAIN g : c \notin DOMAIN o => f[c] = g[c]
  BY <1>f, OverlaidIs
<1>5. /\ IsTable(e)
      /\ \A d : d \in DOMAIN e <=> d \in DOMAIN h \/ d \in DOMAIN n
      /\ \A d \in DOMAIN n : e[d] = n[d]
      /\ \A d \in DOMAIN h : d \notin DOMAIN n => e[d] = h[d]
  BY <1>e, OverlaidIs
<1>6. /\ DOMAIN o = DOMAIN objects /\ DOMAIN n = DirtyIds(objects)
      /\ \A d : d \in DirtyIds(objects) <=> IsDirty(objects, d)
  BY <1>o, <1>n, SetIds
<1>7. \A c \in DOMAIN f : f[c] \in PartRecords
  BY <1>4, <1>2, <1>6, <1>g DEF Tabled
<1>8. PartTable(f)
  BY <1>4, <1>7 DEF IsTable, PartTable
<1>9. \A d \in DOMAIN e : e[d] \in Contents
  BY <1>5, <1>3, <1>6, <1>h DEF Tabled
<1>10. DocTable(e)
  BY <1>5, <1>9 DEF IsTable, DocTable
<1>11. t = Rewritten(s, i0, f, e)
  <2>1. ~ \E c \in DOMAIN objects \cap DOMAIN s.composites :
            s.composites[c].pid # i
    OBVIOUS
  <2>2. t = [s EXCEPT !.docs = e, !.composites = f]
    BY <2>1, <1>o, <1>n, <1>g, <1>h, <1>f, <1>e DEF PutComposites, DirtyIds
  <2> QED BY <2>2, <1>i DEF Rewritten, Tabled
<1>12. ItemTable(i0)
  BY <1>i, TabledHas
<1>14. /\ Tabled(t) /\ t.items = i0 /\ t.composites = f /\ t.docs = e
       /\ t.next = s.next /\ (Done(t) <=> Done(s))
  BY <1>8, <1>10, <1>11, <1>12, RewrittenIs
<1>15. /\ \A c : c \in DOMAIN t.composites <=>
            c \in DOMAIN s.composites \/ c \in DOMAIN objects
       /\ \A c \in DOMAIN objects :
            t.composites[c] = StoredPart(i, objects[c])
       /\ \A c \in DOMAIN s.composites :
            c \notin DOMAIN objects => t.composites[c] = s.composites[c]
  BY <1>2, <1>4, <1>6, <1>14, <1>g
<1>16. /\ \A d : d \in DOMAIN t.docs <=>
            d \in DOMAIN s.docs \/ IsDirty(objects, d)
       /\ \A d \in DOMAIN s.docs :
            ~IsDirty(objects, d) => t.docs[d] = s.docs[d]
  BY <1>5, <1>6, <1>14, <1>h
<1>17. (Done(t) <=> Done(s)) /\ t.next = s.next /\ t.items = s.items /\ Tabled(t)
  BY <1>14, <1>i
<1> QED BY <1>15, <1>16, <1>17

\* Composites are stored only if they are new or of the item itself.
LEMMA PutCompositesMay ==
  ASSUME NEW s, Tabled(s), NEW i, NEW objects, Done(PutComposites(s, i, objects))
  PROVE  /\ \A c \in DOMAIN objects :
              c \in DOMAIN s.composites => s.composites[c].pid = i
<1> SUFFICES ASSUME \E c \in DOMAIN objects \cap DOMAIN s.composites :
                      s.composites[c].pid # i
             PROVE  FALSE
  OBVIOUS
<1>1. PutComposites(s, i, objects) = Failed(s)
  BY DEF PutComposites
<1> QED BY <1>1, FailedIs

\* Storing composites leaves tables.
LEMMA PutCompositesTabled ==
  ASSUME NEW s, Tabled(s), NEW i \in Nat, NEW objects, ObjectTable(objects)
  PROVE  Tabled(PutComposites(s, i, objects))
<1>t. PICK t : t = PutComposites(s, i, objects)
  OBVIOUS
<1>1. CASE \A c \in DOMAIN objects :
             c \in DOMAIN s.composites => s.composites[c].pid = i
  BY <1>1, <1>t, PutCompositesIs
<1>2. CASE \E c \in DOMAIN objects \cap DOMAIN s.composites :
             s.composites[c].pid # i
  <2>1. t = Failed(s)
    BY <1>2, <1>t DEF PutComposites
  <2> QED BY <2>1, <1>t, FailedIs
<1> QED BY <1>1, <1>2

\* Removing composites leaves tables, and raises unless all are there.
LEMMA RemovedTabled ==
  ASSUME NEW s, Tabled(s), NEW ids
  PROVE  /\ Tabled(Removed(s, ids))
         /\ Done(Removed(s, ids)) => ids \subseteq DOMAIN s.composites
<1>t. PICK t : t = Removed(s, ids)
  OBVIOUS
<1>1. CASE ids \subseteq DOMAIN s.composites
  BY <1>1, <1>t, RemovedIs
<1>2. CASE ~(ids \subseteq DOMAIN s.composites)
  <2>1. t = Failed(s)
    BY <1>2, <1>t DEF Removed, RemoveComposites
  <2> QED BY <2>1, <1>t, FailedIs
<1> QED BY <1>1, <1>2

\* Storing a list of composites leaves tables.
LEMMA StoreGivenTabled ==
  ASSUME NEW s, Tabled(s), NEW i \in Nat, NEW list, ObjectTable(list.objects),
         NEW old
  PROVE  Tabled(StoreGiven(s, i, list, old))
<1>t. PICK t : t = StoreGiven(s, i, list, old)
  OBVIOUS
<1>1. CASE list.ids \subseteq DOMAIN s.composites
  <2>d. PICK d : d = old \ GivenIds(list)
    OBVIOUS
  <2>f. PICK f : f = list.objects
    OBVIOUS
  <2>u. PICK u : u = Removed(s, d)
    OBVIOUS
  <2>1. t = PutComposites(u, i, f)
    BY <1>1, <1>t, <2>d, <2>f, <2>u DEF StoreGiven, Removed
  <2>2. Tabled(u) /\ ObjectTable(f)
    BY <2>u, <2>f, RemovedTabled
  <2> QED BY <2>1, <2>2, <1>t, PutCompositesTabled
<1>2. CASE ~(list.ids \subseteq DOMAIN s.composites)
  <2>1. t = Failed(s)
    BY <1>2, <1>t DEF StoreGiven
  <2> QED BY <2>1, <1>t, FailedIs
<1> QED BY <1>1, <1>2

\* What storing the list of a composition does to the tables.
ListStored(s, t, i, ids, f, dropped) ==
  /\ Done(s) /\ Tabled(t) /\ t.next = s.next /\ t.items = s.items
  /\ \A c \in ids : c \in DOMAIN s.composites
  /\ \A c \in dropped : c \in DOMAIN s.composites
  /\ \A c \in DOMAIN f :
       c \in DOMAIN s.composites => s.composites[c].pid = i
  /\ \A c : c \in DOMAIN t.composites <=>
       (c \in DOMAIN s.composites /\ c \notin dropped)
       \/ c \in DOMAIN f
  /\ \A c \in DOMAIN f : t.composites[c] = StoredPart(i, f[c])
  /\ \A c \in DOMAIN t.composites :
       c \notin DOMAIN f => t.composites[c] = s.composites[c]
  /\ \A d : d \in DOMAIN t.docs <=>
       \/ d \in DOMAIN s.docs
          /\ \A c \in dropped : s.composites[c].doc # d
       \/ IsDirty(f, d)
  /\ \A d \in DOMAIN t.docs :
       ~IsDirty(f, d) => t.docs[d] = s.docs[d]

\* The list of a composition is stored: what it drops is removed.
LEMMA StoreGivenIs ==
  ASSUME NEW s, Tabled(s), NEW i \in Nat, NEW list, NEW f, f = list.objects,
         ObjectTable(f), NEW old, NEW t, t = StoreGiven(s, i, list, old), Done(t),
         NEW dropped, dropped = old \ GivenIds(list)
  PROVE  ListStored(s, t, i, list.ids, f, dropped)
<1>1. list.ids \subseteq DOMAIN s.composites
  <2> SUFFICES ASSUME ~(list.ids \subseteq DOMAIN s.composites)
               PROVE  FALSE
    OBVIOUS
  <2>1. t = Failed(s)
    BY DEF StoreGiven
  <2> QED BY <2>1, FailedIs
<1>u. PICK u : u = Removed(s, dropped)
  OBVIOUS
<1>2. t = PutComposites(u, i, f)
  BY <1>1, <1>u DEF StoreGiven, Removed
<1>3. dropped \subseteq DOMAIN s.composites
  <2> SUFFICES ASSUME ~(dropped \subseteq DOMAIN s.composites)
               PROVE  FALSE
    OBVIOUS
  <2>1. u = Failed(s)
    BY <1>u DEF Removed, RemoveComposites
  <2>2. Tabled(u) /\ ~Done(u)
    BY <2>1, FailedIs
  <2>3. \A c \in DOMAIN f : c \in DOMAIN u.composites => u.composites[c].pid = i
    BY <2>2, <1>2, PutCompositesMay
  <2>4. (Done(t) <=> Done(u))
    BY <2>2, <2>3, <1>2, PutCompositesIs
  <2> QED BY <2>2, <2>4
<1>4. /\ Tabled(u) /\ (Done(u) <=> Done(s)) /\ u.next = s.next /\ u.items = s.items
      /\ \A c : c \in DOMAIN u.composites <=>
           c \in DOMAIN s.composites /\ c \notin dropped
      /\ \A c \in DOMAIN u.composites : u.composites[c] = s.composites[c]
      /\ \A d : d \in DOMAIN u.docs <=>
           d \in DOMAIN s.docs /\ \A c \in dropped : s.composites[c].doc # d
      /\ \A d \in DOMAIN u.docs : u.docs[d] = s.docs[d]
  BY <1>u, <1>3, RemovedIs
<1>5. \A c \in DOMAIN f : c \in DOMAIN u.composites => u.composites[c].pid = i
  <2>1. Tabled(u)
    BY <1>4
  <2> QED BY <2>1, <1>2, PutCompositesMay
<1>6. /\ Tabled(t) /\ Done(u) /\ t.next = u.next /\ t.items = u.items
      /\ \A c : c \in DOMAIN t.composites <=>
           c \in DOMAIN u.composites \/ c \in DOMAIN f
      /\ \A c \in DOMAIN f : t.composites[c] = StoredPart(i, f[c])
      /\ \A c \in DOMAIN u.composites :
           c \notin DOMAIN f => t.composites[c] = u.composites[c]
      /\ \A d : d \in DOMAIN t.docs <=> d \in DOMAIN u.docs \/ IsDirty(f, d)
      /\ \A d \in DOMAIN u.docs : ~IsDirty(f, d) => t.docs[d] = u.docs[d]
  <2>1. Tabled(u)
    BY <1>4
  <2>5. Tabled(t)
    BY <2>1, <1>2, <1>5, PutCompositesIs
  <2>6. Done(u)
    <3> SUFFICES ASSUME ~Done(u)
                 PROVE  FALSE
      OBVIOUS
    <3>1. (Done(t) <=> Done(u))
      BY <2>1, <1>2, <1>5, PutCompositesIs
    <3> QED BY <3>1
  <2>7. t.next = u.next
    BY <2>1, <1>2, <1>5, PutCompositesIs
  <2>8. t.items = u.items
    BY <2>1, <1>2, <1>5, PutCompositesIs
  <2>3. /\ \A c : c \in DOMAIN t.composites <=>
             c \in DOMAIN u.composites \/ c \in DOMAIN f
        /\ \A c \in DOMAIN f : t.composites[c] = StoredPart(i, f[c])
        /\ \A c \in DOMAIN u.composites :
             c \notin DOMAIN f => t.composites[c] = u.composites[c]
    BY <2>1, <1>2, <1>5, PutCompositesIs
  <2>4. /\ \A d : d \in DOMAIN t.docs <=> d \in DOMAIN u.docs \/ IsDirty(f, d)
        /\ \A d \in DOMAIN u.docs : ~IsDirty(f, d) => t.docs[d] = u.docs[d]
    BY <2>1, <1>2, <1>5, PutCompositesIs
  <2> QED BY <2>5, <2>6, <2>7, <2>8, <2>3, <2>4
<1>7. \A c \in DOMAIN f : c \notin dropped
  BY DEF GivenIds
<1>8. \A c \in DOMAIN f : c \in DOMAIN s.composites => s.composites[c].pid = i
  BY <1>4, <1>5, <1>7
<1>9. /\ \A c : c \in DOMAIN t.composites <=>
           (c \in DOMAIN s.composites /\ c \notin dropped) \/ c \in DOMAIN f
      /\ \A c \in DOMAIN t.composites :
           c \notin DOMAIN f => t.composites[c] = s.composites[c]
  BY <1>4, <1>6
<1>10. /\ \A d : d \in DOMAIN t.docs <=>
            \/ d \in DOMAIN s.docs
               /\ \A c \in dropped : s.composites[c].doc # d
            \/ IsDirty(f, d)
       /\ \A d \in DOMAIN t.docs : ~IsDirty(f, d) => t.docs[d] = s.docs[d]
  BY <1>4, <1>6
<1>11. Done(s) /\ Tabled(t) /\ t.next = s.next /\ t.items = s.items
  BY <1>4, <1>6
<1> QED BY <1>1, <1>3, <1>6, <1>8, <1>9, <1>10, <1>11
     DEF ListStored

\* Item i is written as x, with the composites f and those of ids; those that
\* it had and has no more are gone, and the document of an attribute that it
\* has no more.
Writes(s, r, i, own, f, ids, x) ==
  /\ Tabled(r) /\ r.next >= s.next
  /\ \A c \in ids : c \in own /\ c \in DOMAIN s.composites
  /\ \A c : c \in x.parts <=> c \in ids \/ c \in DOMAIN f
  /\ \A c \in own : c \notin x.parts => c \in DOMAIN s.composites
  /\ \A c \in DOMAIN f : c \in DOMAIN s.composites => s.composites[c].pid = i
  /\ \A j : j \in DOMAIN r.items <=> j \in DOMAIN s.items \/ j = i
  /\ r.items[i] = x
  /\ \A j \in DOMAIN s.items : j # i => r.items[j] = s.items[j]
  /\ \A c : c \in DOMAIN r.composites <=>
       \/ c \in DOMAIN s.composites /\ ~(c \in own /\ c \notin x.parts)
       \/ c \in DOMAIN f
  /\ \A c \in DOMAIN f : r.composites[c] = StoredPart(i, f[c])
  /\ \A c \in DOMAIN r.composites :
       c \notin DOMAIN f => r.composites[c] = s.composites[c]
  /\ \A d : d \in DOMAIN r.docs <=>
       \/ /\ d \in DOMAIN s.docs
          /\ \A c \in own : c \notin x.parts => s.composites[c].doc # d
          /\ ~(/\ i \in DOMAIN s.items /\ HasDoc(s.items[i]) /\ ~HasDoc(x)
               /\ d = s.items[i].doc)
       \/ HasDoc(x) /\ d = x.doc
       \/ IsDirty(f, d)

\* The item as it is written: its document is its own.
WrittenItem(s, r, i, f, x) ==
  /\ x \in ItemRecords /\ x.attrs = props /\ ~x.deleted /\ x.own = {}
  /\ "parts" \notin props => x.parts = {}
  /\ x.doc < r.next
  /\ HasDoc(x) <=> x.doc # NoId
  /\ HasDoc(x) =>
       /\ \A j \in DOMAIN s.items :
            j # i /\ HasDoc(s.items[j]) => s.items[j].doc # x.doc
       /\ \A c \in DOMAIN s.composites : s.composites[c].doc # x.doc
       /\ \A c \in DOMAIN f : f[c].doc.id # x.doc
       /\ i \in DOMAIN s.items /\ HasDoc(s.items[i]) => x.doc = s.items[i].doc

\* An item that is written with its document and its list of composites leaves
\* documents and composites together.
LEMMA WritesTogether ==
  ASSUME NEW s, NEW left, NEW common, Together(s, common, left),
         NEW i \in 1 .. s.next - 1, i \notin DOMAIN s.composites, NEW own,
         i \in DOMAIN s.items => own = s.items[i].parts /\ ~s.items[i].deleted,
         i \notin DOMAIN s.items => own = {},
         NEW f, PartsGiven(s, i, own, f), NEW ids, NEW x, NEW r,
         Writes(s, r, i, own, f, ids, x), WrittenItem(s, r, i, f, x)
  PROVE  Together(r, common, left)
<1>s. Tabled(s) /\ s.next \in Nat /\ r.next \in Nat /\ r.next >= s.next
  BY DEF Together, Tabled, Writes
<1>t. /\ ItemTable(s.items) /\ PartTable(s.composites) /\ DocTable(s.docs)
      /\ ItemTable(r.items) /\ PartTable(r.composites) /\ DocTable(r.docs)
      /\ Tabled(r)
  BY <1>s, TabledHas DEF Writes
<1>i. /\ \A j : j \in DOMAIN r.items <=> j \in DOMAIN s.items \/ j = i
      /\ r.items[i] = x
      /\ \A j \in DOMAIN s.items : j # i => r.items[j] = s.items[j]
  BY DEF Writes
<1>c. /\ \A c : c \in DOMAIN r.composites <=>
           \/ c \in DOMAIN s.composites /\ ~(c \in own /\ c \notin x.parts)
           \/ c \in DOMAIN f
      /\ \A c \in DOMAIN f :
           /\ r.composites[c].pid = i /\ r.composites[c].doc = f[c].doc.id
           /\ r.composites[c].deleted = f[c].deleted
      /\ \A c \in DOMAIN r.composites :
           c \notin DOMAIN f => r.composites[c] = s.composites[c]
  <2>1. /\ \A c : c \in DOMAIN r.composites <=>
             \/ c \in DOMAIN s.composites /\ ~(c \in own /\ c \notin x.parts)
             \/ c \in DOMAIN f
        /\ \A c \in DOMAIN f : r.composites[c] = StoredPart(i, f[c])
        /\ \A c \in DOMAIN r.composites :
             c \notin DOMAIN f => r.composites[c] = s.composites[c]
    BY DEF Writes
  <2>2. ASSUME NEW c \in DOMAIN f
        PROVE  /\ r.composites[c].pid = i /\ r.composites[c].doc = f[c].doc.id
               /\ r.composites[c].deleted = f[c].deleted
    <3>1. PICK p : p = r.composites[c]
      OBVIOUS
    <3>2. p = StoredPart(i, f[c])
      BY <2>1, <3>1
    <3>3. p.pid = i /\ p.doc = f[c].doc.id /\ p.deleted = f[c].deleted
      BY <3>2 DEF StoredPart
    <3> QED BY <3>1, <3>3
  <2> QED BY <2>1, <2>2
<1>d. \A d : d \in DOMAIN r.docs <=>
        \/ /\ d \in DOMAIN s.docs
           /\ \A c \in own : c \notin x.parts => s.composites[c].doc # d
           /\ ~(/\ i \in DOMAIN s.items /\ HasDoc(s.items[i]) /\ ~HasDoc(x)
                /\ d = s.items[i].doc)
        \/ HasDoc(x) /\ d = x.doc
        \/ IsDirty(f, d)
  BY DEF Writes
<1>f. /\ \A c \in DOMAIN f :
           IF c \in DOMAIN s.composites
           THEN /\ c \in own
                /\ f[c].doc.id = s.composites[c].doc
                /\ f[c].deleted = s.composites[c].deleted
                /\ s.composites[c].pid = i
           ELSE /\ c \in 1 .. s.next - 1 /\ c \notin DOMAIN s.items /\ c # i
                /\ Unclaimed(s, f[c].doc.id)
                /\ f[c].doc.dirty /\ ~f[c].deleted
      /\ \A c, e \in DOMAIN f : f[c].doc.id = f[e].doc.id => c = e
  BY DEF PartsGiven, Writes
<1>o. \A j \in DOMAIN s.items : j # i => \A c \in DOMAIN f :
        HasDoc(s.items[j]) => f[c].doc.id # s.items[j].doc
  BY <1>f DEF Together, DocsApart, Unclaimed
<1>p. \A c \in DOMAIN f, e \in DOMAIN s.composites :
        f[c].doc.id = s.composites[e].doc => c = e
  BY <1>f DEF Together, DocsApart, Unclaimed
<1>w. /\ x \in ItemRecords /\ x.attrs = props /\ ~x.deleted /\ x.own = {}
      /\ "parts" \notin props => x.parts = {}
      /\ x.doc < r.next
  BY DEF WrittenItem
<1>x. HasDoc(x) =>
        /\ \A j \in DOMAIN s.items :
             j # i /\ HasDoc(s.items[j]) => s.items[j].doc # x.doc
        /\ \A c \in DOMAIN s.composites : s.composites[c].doc # x.doc
        /\ \A c \in DOMAIN f : f[c].doc.id # x.doc
        /\ i \in DOMAIN s.items /\ HasDoc(s.items[i]) => x.doc = s.items[i].doc
  BY DEF WrittenItem
<1>1. AllGivenOut(r)
  <2>1. ASSUME NEW j \in DOMAIN r.items
        PROVE  j \in 1 .. r.next - 1 /\ r.items[j].doc < r.next
    <3>1. CASE j = i
      BY <3>1, <1>s, <1>i, <1>w
    <3>2. CASE j # i
      <4>1. j \in 1 .. s.next - 1 /\ s.items[j].doc < s.next
        BY <2>1, <3>2, <1>i DEF Together, AllGivenOut
      <4>2. s.items[j].doc \in Nat /\ r.items[j] = s.items[j]
        BY <2>1, <3>2, <1>i, <1>t DEF ItemTable, ItemRecords
      <4> QED BY <4>1, <4>2, <1>s
    <3> QED BY <3>1, <3>2
  <2>2. ASSUME NEW c \in DOMAIN r.composites
        PROVE  c \in 1 .. r.next - 1 /\ r.composites[c].doc < r.next
    <3>0. r.composites[c].doc \in Nat
      BY <2>2, <1>t DEF PartTable, PartRecords
    <3>1. CASE c \in DOMAIN s.composites
      <4>1. c \in 1 .. s.next - 1 /\ s.composites[c].doc < s.next
        BY <3>1 DEF Together, AllGivenOut
      <4>2. r.composites[c].doc = s.composites[c].doc
        BY <2>2, <3>1, <1>c, <1>f
      <4> QED BY <4>1, <4>2, <3>0, <1>s
    <3>2. CASE c \notin DOMAIN s.composites
      <4>1. c \in DOMAIN f
        BY <2>2, <3>2, <1>c
      <4>2. /\ c \in 1 .. s.next - 1 /\ f[c].doc.id \in 1 .. s.next - 1
            /\ r.composites[c].doc = f[c].doc.id
        BY <4>1, <3>2, <1>c, <1>f DEF Unclaimed
      <4> QED BY <4>2, <1>s
    <3> QED BY <3>1, <3>2
  <2>3. ASSUME NEW d \in DOMAIN r.docs
        PROVE  d \in 1 .. r.next - 1
    <3>1. CASE d \in DOMAIN s.docs
      <4>1. d \in 1 .. s.next - 1
        BY <3>1 DEF Together, AllGivenOut
      <4> QED BY <4>1, <1>s
    <3>2. CASE HasDoc(x) /\ d = x.doc
      <4>1. x.doc \in Nat /\ x.doc # 0 /\ x.doc < r.next
        BY <3>2, <1>w DEF WrittenItem, NoId, ItemRecords
      <4> QED BY <4>1, <3>2, <1>s
    <3>3. CASE IsDirty(f, d) /\ d \notin DOMAIN s.docs
      <4>1. PICK c \in DOMAIN f : f[c].doc.id = d
        BY <3>3 DEF IsDirty
      <4>2. c \in DOMAIN s.composites => d \in DOMAIN s.docs
        BY <4>1, <1>f DEF Together, DocsThere
      <4>3. d \in 1 .. s.next - 1
        BY <4>1, <4>2, <3>3, <1>f DEF Unclaimed
      <4> QED BY <4>3, <1>s
    <3> QED BY <2>3, <3>1, <3>2, <3>3, <1>d
  <2>4. DOMAIN r.items \cap DOMAIN r.composites = {}
    BY <1>i, <1>c, <1>f DEF Together, AllGivenOut
  <2>5. \A j \in DOMAIN r.items : HasDoc(r.items[j]) <=> r.items[j].doc # NoId
    BY <1>i DEF Together, AllGivenOut, WrittenItem
  <2> QED BY <2>1, <2>2, <2>3, <2>4, <2>5 DEF AllGivenOut
<1>2. DocsApart(r)
  <2>1. ASSUME NEW j \in DOMAIN r.items, NEW k \in DOMAIN r.items,
               HasDoc(r.items[j]), HasDoc(r.items[k]),
               r.items[j].doc = r.items[k].doc
        PROVE  j = k
    <3>1. CASE j # i /\ k # i
      BY <2>1, <3>1, <1>i DEF Together, DocsApart
    <3>2. CASE j = i \/ k = i
      BY <2>1, <3>2, <1>i, <1>x
    <3> QED BY <3>1, <3>2
  <2>2. ASSUME NEW c \in DOMAIN r.composites, NEW e \in DOMAIN r.composites,
               r.composites[c].doc = r.composites[e].doc
        PROVE  c = e
    <3>1. CASE c \in DOMAIN f /\ e \in DOMAIN f
      BY <2>2, <3>1, <1>c, <1>f
    <3>2. CASE c \in DOMAIN f /\ e \notin DOMAIN f
      BY <2>2, <3>2, <1>c, <1>p
    <3>3. CASE c \notin DOMAIN f /\ e \in DOMAIN f
      BY <2>2, <3>3, <1>c, <1>p
    <3>4. CASE c \notin DOMAIN f /\ e \notin DOMAIN f
      BY <2>2, <3>4, <1>c DEF Together, DocsApart
    <3> QED BY <3>1, <3>2, <3>3, <3>4
  <2>3. ASSUME NEW j \in DOMAIN r.items, NEW c \in DOMAIN r.composites,
               HasDoc(r.items[j])
        PROVE  r.items[j].doc # r.composites[c].doc
    <3>1. CASE j = i
      <4>1. CASE c \in DOMAIN f
        BY <2>3, <3>1, <4>1, <1>i, <1>c, <1>x
      <4>2. CASE c \notin DOMAIN f
        BY <2>3, <3>1, <4>2, <1>i, <1>c, <1>x
      <4> QED BY <4>1, <4>2
    <3>2. CASE j # i
      <4>0. j \in DOMAIN s.items /\ r.items[j] = s.items[j]
        BY <2>3, <3>2, <1>i
      <4>1. CASE c \in DOMAIN f
        BY <2>3, <3>2, <4>0, <4>1, <1>c, <1>o
      <4>2. CASE c \notin DOMAIN f
        BY <2>3, <4>0, <4>2, <1>c DEF Together, DocsApart
      <4> QED BY <4>1, <4>2
    <3> QED BY <3>1, <3>2
  <2> QED BY <2>1, <2>2, <2>3 DEF DocsApart
<1>3. DocsBelong(r, left)
  <2> SUFFICES ASSUME NEW d \in DOMAIN r.docs, d \notin left
               PROVE  \/ \E j \in DOMAIN r.items :
                           HasDoc(r.items[j]) /\ r.items[j].doc = d
                      \/ \E c \in DOMAIN r.composites : r.composites[c].doc = d
    BY DEF DocsBelong
  <2>1. CASE HasDoc(x) /\ d = x.doc
    BY <2>1, <1>i
  <2>2. CASE IsDirty(f, d)
    <3>1. PICK c \in DOMAIN f : f[c].doc.id = d
      BY <2>2 DEF IsDirty
    <3> QED BY <3>1, <1>c
  <2>3. CASE ~(HasDoc(x) /\ d = x.doc) /\ ~IsDirty(f, d)
    <3>1. /\ d \in DOMAIN s.docs
          /\ \A c \in own : c \notin x.parts => s.composites[c].doc # d
          /\ ~(/\ i \in DOMAIN s.items /\ HasDoc(s.items[i]) /\ ~HasDoc(x)
               /\ d = s.items[i].doc)
      BY <2>3, <1>d
    <3>2. \/ \E j \in DOMAIN s.items : HasDoc(s.items[j]) /\ s.items[j].doc = d
          \/ \E c \in DOMAIN s.composites : s.composites[c].doc = d
      BY <3>1 DEF Together, DocsBelong
    <3>3. CASE \E j \in DOMAIN s.items : HasDoc(s.items[j]) /\ s.items[j].doc = d
      <4>1. PICK j \in DOMAIN s.items : HasDoc(s.items[j]) /\ s.items[j].doc = d
        BY <3>3
      <4>2. j # i
        BY <4>1, <3>1, <2>3, <1>x
      <4> QED BY <4>1, <4>2, <1>i
    <3>4. CASE \E c \in DOMAIN s.composites : s.composites[c].doc = d
      <4>1. PICK c \in DOMAIN s.composites : s.composites[c].doc = d
        BY <3>4
      <4>2. c \in DOMAIN r.composites
        BY <4>1, <3>1, <1>c
      <4>3. r.composites[c].doc = d
        BY <4>1, <4>2, <1>c, <1>f
      <4> QED BY <4>2, <4>3
    <3> QED BY <3>2, <3>3, <3>4
  <2> QED BY <2>1, <2>2, <2>3
<1>4. DocsThere(r)
  <2>1. ASSUME NEW j \in DOMAIN r.items, HasDoc(r.items[j])
        PROVE  (r.items[j].doc \in DOMAIN r.docs) # (r.items[j].own # {})
    <3>1. CASE j = i
      BY <2>1, <3>1, <1>i, <1>d, <1>w
    <3>2. CASE j # i
      <4>0. j \in DOMAIN s.items /\ r.items[j] = s.items[j]
        BY <2>1, <3>2, <1>i
      <4>d. PICK d : d = s.items[j].doc
        OBVIOUS
      <4>1. (d \in DOMAIN s.docs) # (s.items[j].own # {})
        BY <2>1, <4>0, <4>d DEF Together, DocsThere
      <4>2. ~IsDirty(f, d)
        BY <2>1, <3>2, <4>0, <4>d, <1>o DEF IsDirty
      <4>3. ~(HasDoc(x) /\ d = x.doc)
        BY <2>1, <3>2, <4>0, <4>d, <1>x
      <4>4. \A c \in own : c \notin x.parts => s.composites[c].doc # d
        BY <2>1, <4>0, <4>d DEF Together, DocsApart, Writes
      <4>5. ~(i \in DOMAIN s.items /\ HasDoc(s.items[i]) /\ d = s.items[i].doc)
        BY <2>1, <3>2, <4>0, <4>d DEF Together, DocsApart
      <4>6. d \in DOMAIN r.docs <=> d \in DOMAIN s.docs
        BY <4>2, <4>3, <4>4, <4>5, <1>d
      <4> QED BY <4>0, <4>1, <4>6, <4>d
    <3> QED BY <3>1, <3>2
  <2>2. ASSUME NEW c \in DOMAIN r.composites
        PROVE  r.composites[c].doc \in DOMAIN r.docs
    <3>d. PICK d : d = r.composites[c].doc
      OBVIOUS
    <3>1. CASE c \notin DOMAIN s.composites
      <4>1. c \in DOMAIN f /\ f[c].doc.dirty /\ d = f[c].doc.id
        BY <2>2, <3>1, <3>d, <1>c, <1>f
      <4>2. IsDirty(f, d)
        BY <4>1 DEF IsDirty
      <4> QED BY <4>2, <3>d, <1>d
    <3>2. CASE c \in DOMAIN s.composites
      <4>1. d = s.composites[c].doc
        BY <2>2, <3>2, <3>d, <1>c, <1>f
      <4>2. d \in DOMAIN s.docs
        BY <4>1, <3>2 DEF Together, DocsThere
      <4>3. \A e \in own : e \notin x.parts => s.composites[e].doc # d
        <5>1. \A e \in own : e \notin x.parts => e \in DOMAIN s.composites
          BY DEF Writes
        <5>2. ~(c \in own /\ c \notin x.parts)
          BY <2>2, <1>c DEF Writes
        <5> QED BY <5>1, <5>2, <4>1, <3>2 DEF Together, DocsApart
      <4>4. ~(i \in DOMAIN s.items /\ HasDoc(s.items[i]) /\ d = s.items[i].doc)
        BY <4>1, <3>2 DEF Together, DocsApart
      <4> QED BY <4>2, <4>3, <4>4, <3>d, <1>d
    <3> QED BY <3>1, <3>2
  <2> QED BY <2>1, <2>2 DEF DocsThere
<1>5. PartsThere(r, common)
  <2> SUFFICES ASSUME NEW j \in DOMAIN r.items, NEW c \in r.items[j].parts,
                      c \notin common
               PROVE  /\ c \in DOMAIN r.composites
                      /\ r.composites[c].pid = j
                      /\ schemas = 0 =>
                           r.composites[c].deleted = r.items[j].deleted
    BY DEF PartsThere
  <2>0. \A k \in DOMAIN s.items : \A e \in s.items[k].parts :
          e \notin common =>
            /\ e \in DOMAIN s.composites /\ s.composites[e].pid = k
            /\ schemas = 0 => s.composites[e].deleted = s.items[k].deleted
    BY DEF Together, PartsThere
  <2>1. CASE j # i
    <3>1. j \in DOMAIN s.items /\ r.items[j] = s.items[j]
      BY <2>1, <1>i
    <3>2. /\ c \in DOMAIN s.composites /\ s.composites[c].pid = j
          /\ schemas = 0 => s.composites[c].deleted = s.items[j].deleted
      BY <3>1, <2>0
    <3>3. c \notin own
      BY <3>2, <2>0, <2>1
    <3>4. c \in DOMAIN r.composites /\ c \notin DOMAIN f
      BY <3>2, <3>3, <1>c, <1>f
    <3> QED BY <3>1, <3>2, <3>4, <1>c
  <2>2. CASE j = i
    <3>1. r.items[j] = x /\ (c \in ids \/ c \in DOMAIN f)
      BY <2>2, <1>i DEF Writes
    <3>2. c \in DOMAIN r.composites
      BY <3>1, <2>2, <1>i, <1>c DEF Writes
    <3>3. CASE c \in DOMAIN f
      <4>1. /\ r.composites[c].pid = i
            /\ r.composites[c].deleted = f[c].deleted
        BY <3>3, <1>c
      <4>2. schemas = 0 => ~f[c].deleted
        <5>1. CASE c \in DOMAIN s.composites
          <6>1. c \in own /\ f[c].deleted = s.composites[c].deleted
            BY <3>3, <5>1, <1>f
          <6>2. i \in DOMAIN s.items /\ own = s.items[i].parts /\ ~s.items[i].deleted
            BY <6>1
          <6>3. schemas = 0 => s.composites[c].deleted = s.items[i].deleted
            BY <6>1, <6>2, <2>0
          <6> QED BY <6>1, <6>2, <6>3
        <5>2. CASE c \notin DOMAIN s.composites
          BY <3>3, <5>2, <1>f
        <5> QED BY <5>1, <5>2
      <4>3. r.composites[c].deleted \in BOOLEAN /\ x.deleted \in BOOLEAN
        BY <3>2, <1>t, <1>w DEF PartTable, PartRecords, ItemRecords
      <4> QED BY <4>1, <4>2, <4>3, <3>1, <3>2, <2>2, <1>w
    <3>4. CASE c \notin DOMAIN f
      <4>1. c \in own /\ r.composites[c] = s.composites[c]
        BY <3>1, <3>2, <3>4, <1>c DEF Writes
      <4>2. i \in DOMAIN s.items /\ own = s.items[i].parts /\ ~s.items[i].deleted
        BY <4>1
      <4>3. /\ s.composites[c].pid = i
            /\ schemas = 0 => s.composites[c].deleted = s.items[i].deleted
        BY <4>1, <4>2, <2>0
      <4>4. s.items[i].deleted \in BOOLEAN /\ x.deleted \in BOOLEAN
        BY <4>2, <1>t, <1>w DEF ItemTable, ItemRecords
      <4> QED BY <4>1, <4>2, <4>3, <4>4, <3>1, <3>2, <2>2, <1>w
    <3> QED BY <3>3, <3>4
  <2> QED BY <2>1, <2>2
<1>6. PartsBelong(r, common, left)
  <2> SUFFICES ASSUME NEW c \in DOMAIN r.composites, c \notin left,
                      c \notin common
               PROVE  \E j \in DOMAIN r.items : c \in r.items[j].parts
    BY DEF PartsBelong
  <2>1. CASE c \in x.parts
    BY <2>1, <1>i
  <2>2. CASE c \notin x.parts
    <3>1. c \in DOMAIN s.composites /\ c \notin own
      BY <2>2, <1>c DEF Writes
    <3>2. PICK j \in DOMAIN s.items : c \in s.items[j].parts
      BY <3>1 DEF Together, PartsBelong
    <3>3. j # i
      BY <3>1, <3>2
    <3> QED BY <3>2, <3>3, <1>i
  <2> QED BY <2>1, <2>2
<1>7. Schemed(r)
  <2> SUFFICES ASSUME NEW j \in DOMAIN r.items
               PROVE  /\ "parts" \notin r.items[j].attrs => r.items[j].parts = {}
                      /\ schemas = 0 => r.items[j].attrs = props
    BY DEF Schemed
  <2>1. CASE j = i
    BY <2>1, <1>i, <1>w
  <2>2. CASE j # i
    BY <2>2, <1>i DEF Together, Schemed
  <2> QED BY <2>1, <2>2
<1> QED BY <1>1, <1>2, <1>3, <1>4, <1>5, <1>6, <1>7, <1>t DEF Together

NoObjects == [c \in {} |-> c]

\* An empty list of composites is of any item.
LEMMA NoObjectsAre ==
  ASSUME NEW s, NEW i, NEW own
  PROVE  /\ \A c : c \notin DOMAIN NoObjects
         /\ ObjectTable(NoObjects) /\ PartsGiven(s, i, own, NoObjects)
         /\ \A d : ~IsDirty(NoObjects, d)
<1>1. DOMAIN NoObjects = {}
  BY DEF NoObjects
<1>2. NoObjects \in [DOMAIN NoObjects -> PartsInMemory]
  BY DEF NoObjects
<1> QED BY <1>1, <1>2 DEF PartsGiven, ObjectTable, IsDirty

\* What the schema and the document of the item that is written as x did to
\* the tables before its list is stored.
Staged(s, u, i, own, gone, x) ==
  /\ Tabled(u) /\ u.next >= s.next /\ u.items = s.items
  /\ \A c \in gone : c \in DOMAIN s.composites /\ c \in own
  /\ \A c : c \in DOMAIN u.composites <=>
       c \in DOMAIN s.composites /\ c \notin gone
  /\ \A c \in DOMAIN u.composites : u.composites[c] = s.composites[c]
  /\ \A d : d \in DOMAIN u.docs <=>
       \/ /\ d \in DOMAIN s.docs
          /\ \A c \in gone : s.composites[c].doc # d
          /\ ~(/\ i \in DOMAIN s.items /\ HasDoc(s.items[i]) /\ ~HasDoc(x)
               /\ d = s.items[i].doc)
       \/ HasDoc(x) /\ d = x.doc

\* Written over tables that are staged, its document is as it was there.
WritesOver(s, u, r, i, own, f, ids, x) ==
  /\ Writes(s, r, i, own, f, ids, x)
  /\ r.next = u.next
  /\ HasDoc(x) => r.docs[x.doc] = u.docs[x.doc]

\* The document of the item is not that of a composite.
DocIsOwn(s, f, x) ==
  HasDoc(x) => /\ \A c \in DOMAIN s.composites : s.composites[c].doc # x.doc
               /\ ~IsDirty(f, x.doc)

\* The list of the item was stored, or it has no list any more.
ListIs(u, g, i, own, gone, f, ids, x) ==
  /\ \A c : c \in x.parts <=> c \in ids \/ c \in DOMAIN f
  /\ \/ /\ ListStored(u, g, i, ids, f, own \ x.parts)
        /\ \A c \in gone : FALSE
        /\ \A c \in ids : c \in own
     \/ /\ g = u /\ \A c : c \notin ids /\ c \notin DOMAIN f
        /\ \A d : ~IsDirty(f, d)
        /\ \A c \in own : c \in gone

\* Writing the item over tables that are staged.
LEMMA PutWrites ==
  ASSUME NEW s, NEW u, NEW g, Tabled(g), NEW i, NEW own, NEW gone, NEW ids,
         NEW f, NEW x \in ItemRecords, Staged(s, u, i, own, gone, x),
         DocIsOwn(s, f, x), ListIs(u, g, i, own, gone, f, ids, x),
         NEW r, r = PutThing(g, i, x)
  PROVE  WritesOver(s, u, r, i, own, f, ids, x)
<1>p. /\ \A c : c \in x.parts <=> c \in ids \/ c \in DOMAIN f
      /\ \/ /\ ListStored(u, g, i, ids, f, own \ x.parts)
            /\ \A c \in gone : FALSE
            /\ \A c \in ids : c \in own
         \/ /\ g = u /\ \A c : c \notin ids /\ c \notin DOMAIN f
            /\ \A d : ~IsDirty(f, d)
            /\ \A c \in own : c \in gone
  BY DEF ListIs
<1>o. HasDoc(x) => /\ \A c \in DOMAIN s.composites : s.composites[c].doc # x.doc
                   /\ ~IsDirty(f, x.doc)
  BY DEF DocIsOwn
<1>r. /\ Tabled(r) /\ r.next = g.next
      /\ r.docs = g.docs /\ r.composites = g.composites
      /\ \A j : j \in DOMAIN r.items <=> j \in DOMAIN g.items \/ j = i
      /\ r.items[i] = x
      /\ \A j \in DOMAIN g.items : j # i => r.items[j] = g.items[j]
  BY PutThingIs
<1>u. /\ u.next >= s.next /\ u.items = s.items
      /\ \A c \in gone : c \in DOMAIN s.composites /\ c \in own
      /\ \A c : c \in DOMAIN u.composites <=>
           c \in DOMAIN s.composites /\ c \notin gone
      /\ \A c \in DOMAIN u.composites : u.composites[c] = s.composites[c]
      /\ \A d : d \in DOMAIN u.docs <=>
           \/ /\ d \in DOMAIN s.docs
              /\ \A c \in gone : s.composites[c].doc # d
              /\ ~(/\ i \in DOMAIN s.items /\ HasDoc(s.items[i]) /\ ~HasDoc(x)
                   /\ d = s.items[i].doc)
           \/ HasDoc(x) /\ d = x.doc
  BY DEF Staged
<1>1. CASE /\ ListStored(u, g, i, ids, f, own \ x.parts)
           /\ \A c \in gone : FALSE
           /\ \A c \in ids : c \in own
  <2>p. PICK p : p = own \ x.parts
    OBVIOUS
  <2>q. \A c : c \in p <=> c \in own /\ c \notin x.parts
    BY <2>p
  <2>g. /\ g.next = u.next /\ g.items = u.items
        /\ \A c \in ids : c \in DOMAIN u.composites
        /\ \A c \in p : c \in DOMAIN u.composites
        /\ \A c \in DOMAIN f :
             c \in DOMAIN u.composites => u.composites[c].pid = i
        /\ \A c : c \in DOMAIN g.composites <=>
             (c \in DOMAIN u.composites /\ c \notin p) \/ c \in DOMAIN f
        /\ \A c \in DOMAIN f : g.composites[c] = StoredPart(i, f[c])
        /\ \A c \in DOMAIN g.composites :
             c \notin DOMAIN f => g.composites[c] = u.composites[c]
        /\ \A d : d \in DOMAIN g.docs <=>
             \/ d \in DOMAIN u.docs
                /\ \A c \in p : u.composites[c].doc # d
             \/ IsDirty(f, d)
        /\ \A d \in DOMAIN g.docs : ~IsDirty(f, d) => g.docs[d] = u.docs[d]
    BY <1>1, <2>p DEF ListStored
  <2>0. \A c : c \notin gone
    BY <1>1
  <2>1. \A c : c \in DOMAIN u.composites <=> c \in DOMAIN s.composites
    BY <2>0, <1>u
  <2>2. \A c \in DOMAIN s.composites : u.composites[c] = s.composites[c]
    BY <2>1, <1>u
  <2>3. HasDoc(x) => x.doc \in DOMAIN g.docs
    BY <1>o, <2>g, <2>1, <2>2, <1>u
  <2>4. \A d : d \in DOMAIN r.docs <=>
          \/ /\ d \in DOMAIN s.docs
             /\ \A c \in own : c \notin x.parts => s.composites[c].doc # d
             /\ ~(/\ i \in DOMAIN s.items /\ HasDoc(s.items[i]) /\ ~HasDoc(x)
                  /\ d = s.items[i].doc)
          \/ HasDoc(x) /\ d = x.doc
          \/ IsDirty(f, d)
    <3> TAKE d
    <3>1. (\A c \in p : u.composites[c].doc # d) <=>
            \A c \in own : c \notin x.parts => s.composites[c].doc # d
      BY <2>q, <2>g, <2>1, <2>2
    <3>2. d \in DOMAIN r.docs <=> d \in DOMAIN g.docs
      BY <1>r
    <3> QED BY <3>1, <3>2, <2>g, <2>3, <2>0, <1>u
  <2>5. HasDoc(x) => r.docs[x.doc] = u.docs[x.doc]
    BY <2>3, <2>g, <1>r, <1>o
  <2>6. r.next = u.next
    BY <2>g, <1>r
  <2>7. /\ \A c \in ids : c \in own /\ c \in DOMAIN s.composites
        /\ \A c \in own : c \notin x.parts => c \in DOMAIN s.composites
        /\ \A c \in DOMAIN f : c \in DOMAIN s.composites => s.composites[c].pid = i
    BY <1>1, <2>g, <2>q, <2>1, <2>2
  <2>8. /\ \A j : j \in DOMAIN r.items <=> j \in DOMAIN s.items \/ j = i
        /\ \A j \in DOMAIN s.items : j # i => r.items[j] = s.items[j]
    BY <1>r, <1>u, <2>g
  <2>9. /\ \A c : c \in DOMAIN r.composites <=>
             \/ c \in DOMAIN s.composites /\ ~(c \in own /\ c \notin x.parts)
             \/ c \in DOMAIN f
        /\ \A c \in DOMAIN f : r.composites[c] = StoredPart(i, f[c])
        /\ \A c \in DOMAIN r.composites :
             c \notin DOMAIN f => r.composites[c] = s.composites[c]
    BY <1>r, <2>g, <2>q, <2>1, <2>2
  <2> QED BY <1>r, <1>u, <1>p, <2>4, <2>5, <2>6, <2>7, <2>8, <2>9
          DEF Writes, WritesOver
<1>2. CASE /\ g = u /\ \A c : c \notin ids /\ c \notin DOMAIN f
           /\ \A d : ~IsDirty(f, d)
           /\ \A c \in own : c \in gone
  <2>1. \A c : c \notin x.parts
    BY <1>2, <1>p
  <2>2. \A c : c \in own <=> c \in gone
    BY <1>2, <1>u
  <2>3. \A d : d \in DOMAIN r.docs <=>
          \/ /\ d \in DOMAIN s.docs
             /\ \A c \in own : c \notin x.parts => s.composites[c].doc # d
             /\ ~(/\ i \in DOMAIN s.items /\ HasDoc(s.items[i]) /\ ~HasDoc(x)
                  /\ d = s.items[i].doc)
          \/ HasDoc(x) /\ d = x.doc
          \/ IsDirty(f, d)
    BY <1>2, <1>r, <1>u, <2>1, <2>2
  <2>4. /\ \A c : c \in DOMAIN r.composites <=>
             \/ c \in DOMAIN s.composites /\ ~(c \in own /\ c \notin x.parts)
             \/ c \in DOMAIN f
        /\ \A c \in DOMAIN r.composites :
             c \notin DOMAIN f => r.composites[c] = s.composites[c]
    BY <1>2, <1>r, <1>u, <2>1, <2>2
  <2>5. /\ \A j : j \in DOMAIN r.items <=> j \in DOMAIN s.items \/ j = i
        /\ \A j \in DOMAIN s.items : j # i => r.items[j] = s.items[j]
        /\ r.next = u.next
        /\ HasDoc(x) => r.docs[x.doc] = u.docs[x.doc]
    BY <1>2, <1>r, <1>u
  <2>6. \A c \in own : c \in DOMAIN s.composites
    BY <1>u, <2>2
  <2> QED BY <1>2, <1>r, <1>u, <2>3, <2>4, <2>5, <2>6, <1>p
          DEF Writes, WritesOver
<1> QED BY <1>1, <1>2, <1>p

IsThing(x, attrs, doc, parts) ==
  /\ x \in ItemRecords /\ x.attrs = attrs /\ x.doc = doc
  /\ x.own = {} /\ x.parts = parts /\ ~x.deleted

\* The fields of a new composition or item.
LEMMA ThingIs ==
  ASSUME NEW attrs, \A a \in attrs : a \in Attributes, NEW doc \in Nat,
         NEW parts, \A c \in parts : c \in Nat,
         NEW x, x = Thing(attrs, doc, parts)
  PROVE  IsThing(x, attrs, doc, parts)
<1>1. attrs \in SUBSET Attributes /\ parts \in SUBSET Nat
  OBVIOUS
<1>2. x = [attrs |-> attrs, doc |-> doc, own |-> {}, parts |-> parts,
           deleted |-> FALSE]
  BY DEF Thing
<1>3. {} \in SUBSET Contents /\ FALSE \in BOOLEAN
  OBVIOUS
<1> QED BY <1>1, <1>2, <1>3 DEF ItemRecords, IsThing

\* The item has the document that the call was given.
DocKept(r, i, doc) ==
  /\ i \in DOMAIN r.items
  /\ "doc" \in props /\ doc.dirty =>
       /\ r.items[i].doc \in DOMAIN r.docs
       /\ r.docs[r.items[i].doc] = doc.value

\* Creating an item writes it with the composites that it was given.
LEMMA CreateWrites ==
  ASSUME NEW s, NEW left, NEW common, Together(s, common, left),
         \A a \in props : a \in Attributes,
         NEW i \in 1 .. s.next - 1, i \notin DOMAIN s.items,
         i \notin DOMAIN s.composites,
         NEW doc \in InMemories, doc.dirty, Unclaimed(s, doc.id),
         NEW objects, PartsGiven(s, i, {}, objects),
         \A c \in DOMAIN objects : objects[c].doc.id # doc.id,
         NEW r, r = CreateThing(s, i, doc, objects), Done(r)
  PROVE  Together(r, common, left) /\ r.next = s.next /\ DocKept(r, i, doc)
<1>s. Tabled(s) /\ s.next \in Nat /\ i \in Nat
  BY DEF Together, Tabled
<1>t. PICK t : t = IF "doc" \in props THEN StoreExternal(s, doc) ELSE s
  OBVIOUS
<1>d. PICK d : d = doc.id
  OBVIOUS
<1>1. /\ Tabled(t) /\ t.next = s.next
      /\ t.items = s.items /\ t.composites = s.composites
      /\ \A e : e \in DOMAIN t.docs <=>
           e \in DOMAIN s.docs \/ ("doc" \in props /\ e = d)
      /\ "doc" \in props => t.docs[d] = doc.value
  <2>1. CASE "doc" \in props
    <3>1. t = StoreExternal(s, doc)
      BY <2>1, <1>t
    <3>2. /\ Tabled(t) /\ t.next = s.next
          /\ t.items = s.items /\ t.composites = s.composites
          /\ \A e : e \in DOMAIN t.docs <=>
               e \in DOMAIN s.docs \/ (doc.dirty /\ e = doc.id)
          /\ doc.dirty => t.docs[doc.id] = doc.value
      BY <3>1, <1>s, StoreExternalIs
    <3> QED BY <3>2, <2>1, <1>d
  <2>2. CASE "doc" \notin props
    BY <2>2, <1>t, <1>s
  <2> QED BY <2>1, <2>2
<1>f. PICK f : f = IF "parts" \in props THEN objects ELSE <<>>
  OBVIOUS
<1>e. ObjectTable(f) /\ PartsGiven(s, i, {}, f)
  <2>1. CASE "parts" \in props
    BY <2>1, <1>f DEF PartsGiven, ObjectTable
  <2>2. CASE "parts" \notin props
    <3>1. <<>> \in [DOMAIN <<>> -> PartsInMemory] /\ DOMAIN <<>> = {}
      OBVIOUS
    <3>2. f = <<>>
      BY <2>2, <1>f
    <3> QED BY <3>1, <3>2 DEF PartsGiven, ObjectTable
  <2> QED BY <2>1, <2>2
<1>m. /\ \A c \in DOMAIN f : f[c].doc.id # d
      /\ "parts" \notin props => \A c : c \notin DOMAIN f
      /\ \A c \in DOMAIN f : c \in Nat
  <2>1. CASE "parts" \in props
    <3>1. f = objects
      BY <2>1, <1>f
    <3>2. \A c \in DOMAIN f : c \in Nat
      BY <3>1, <1>s DEF PartsGiven, Together, AllGivenOut
    <3> QED BY <2>1, <3>1, <3>2, <1>d
  <2>2. CASE "parts" \notin props
    <3>1. DOMAIN <<>> = {}
      OBVIOUS
    <3> QED BY <2>2, <3>1, <1>f
  <2> QED BY <2>1, <2>2
<1>l. PICK list : list = Given({}, f)
  OBVIOUS
<1>2. list.ids = {} /\ list.objects = f /\ GivenIds(list) = DOMAIN f
  BY <1>l DEF Given, GivenIds
<1>g. PICK g : g = StoreGiven(t, i, list, {})
  OBVIOUS
<1>n. PICK n : n = IF "doc" \in props THEN d ELSE NoId
  OBVIOUS
<1>p. PICK p : p = DOMAIN f
  OBVIOUS
<1>x. PICK x : x = Thing(props, n, p)
  OBVIOUS
<1>o. d \in Nat /\ n \in Nat /\ \A c \in p : c \in Nat
  BY <1>d, <1>n, <1>p, <1>m DEF InMemories, NoId
<1>3. /\ x \in ItemRecords /\ x.attrs = props /\ x.doc = n
      /\ x.own = {} /\ x.parts = p /\ ~x.deleted
  <2>1. IsThing(x, props, n, p)
    BY <1>o, <1>x, ThingIs
  <2> QED BY <2>1 DEF IsThing
<1>4. r = PutThing(g, i, x)
  <2>1. list = Given({}, IF "parts" \in props THEN objects ELSE <<>>)
    BY <1>l, <1>f
  <2> QED BY <1>t, <1>d, <1>n, <1>p, <2>1, <1>2, <1>g, <1>x DEF CreateThing
<1>5. Tabled(g)
  BY <1>1, <1>e, <1>2, <1>g, <1>s, StoreGivenTabled
<1>6. (Done(r) <=> Done(g)) /\ i \in DOMAIN r.items /\ r.items[i] = x
  BY <1>3, <1>4, <1>5, PutThingIs
<1>q. PICK q : q = {} \ x.parts
  OBVIOUS
<1>7. ListStored(t, g, i, list.ids, f, q)
  <2>1. q = {} \ GivenIds(list) /\ Done(g)
    BY <1>2, <1>3, <1>p, <1>q, <1>6
  <2> QED BY <2>1, <1>1, <1>e, <1>2, <1>g, <1>s, StoreGivenIs
<1>8. Staged(s, t, i, {}, {}, x)
  BY <1>1, <1>3, <1>n, <1>s DEF Staged, HasDoc
<1>9. /\ HasDoc(x) => x.doc = d
      /\ HasDoc(x) <=> "doc" \in props
  BY <1>3, <1>n DEF HasDoc
<1>10. DocIsOwn(s, f, x)
  BY <1>9, <1>d, <1>m DEF Unclaimed, IsDirty, DocIsOwn
<1>12. ListIs(t, g, i, {}, {}, f, list.ids, x)
  <2>1. \A c : c \in x.parts <=> c \in list.ids \/ c \in DOMAIN f
    BY <1>2, <1>3, <1>p
  <2>2. ListStored(t, g, i, list.ids, f, {} \ x.parts)
    BY <1>7, <1>q
  <2>3. \A c \in list.ids : c \in {}
    BY <1>2
  <2> QED BY <2>1, <2>2, <2>3 DEF ListIs
<1>13. /\ Writes(s, r, i, {}, f, list.ids, x)
       /\ r.next = t.next
       /\ HasDoc(x) => r.docs[x.doc] = t.docs[x.doc]
  <2>1. WritesOver(s, t, r, i, {}, f, list.ids, x)
    BY <1>3, <1>4, <1>5, <1>8, <1>10, <1>12, PutWrites
  <2> QED BY <2>1 DEF WritesOver
<1>14. WrittenItem(s, r, i, f, x)
  <2>1. "parts" \notin props => x.parts = {}
    BY <1>3, <1>m, <1>p
  <2>2. d # NoId /\ d < s.next
    BY <1>d, <1>s DEF Unclaimed, NoId
  <2>3. r.next = s.next
    BY <1>13, <1>1
  <2>4. 0 < s.next
    BY <1>s
  <2>5. x.doc < r.next
    BY <2>2, <2>3, <2>4, <1>3, <1>n DEF NoId
  <2>7. HasDoc(x) <=> x.doc # NoId
    BY <2>2, <1>3, <1>9, <1>n
  <2>6. \A j \in DOMAIN s.items : s.items[j].doc # d
    BY <1>d DEF Unclaimed
  <2> QED BY <2>1, <2>2, <2>5, <2>6, <2>7, <1>3, <1>9, <1>10, <1>m
          DEF WrittenItem, DocIsOwn
<1>15. Together(r, common, left)
  <2>1. /\ i \in DOMAIN s.items => {} = s.items[i].parts /\ ~s.items[i].deleted
        /\ i \notin DOMAIN s.items => {} = {}
    OBVIOUS
  <2> QED BY <2>1, <1>13, <1>14, <1>e, WritesTogether
<1>16. DocKept(r, i, doc)
  <2>1. d \in DOMAIN r.docs <=> IsDirty(f, d) \/ HasDoc(x) \/ d \in DOMAIN s.docs
    BY <1>13, <1>9 DEF Writes
  <2> QED BY <2>1, <1>13, <1>9, <1>6, <1>1, <1>d DEF DocKept
<1> QED BY <1>13, <1>15, <1>16, <1>1

\* Which composites and whether a document are new or gone with the schema.
PartsGone(o) == IF "parts" \in o.attrs \ props THEN o.parts ELSE {}
DocIsNew(o) == "doc" \in props \ o.attrs
DocIsGone(o) == "doc" \in o.attrs \ props

Added(s, t, o) ==
  /\ Tabled(t) /\ (Done(t) <=> Done(s))
  /\ t.next = IF DocIsNew(o) THEN s.next + 1 ELSE s.next
  /\ t.items = s.items /\ t.composites = s.composites
  /\ \A d : d \in DOMAIN t.docs <=>
       d \in DOMAIN s.docs \/ (DocIsNew(o) /\ d = s.next)

\* An attribute that a schema added is an empty document or an empty list.
LEMMA AddedIs ==
  ASSUME NEW s, Tabled(s), NoBytes \in Contents,
         NEW o, NEW t, t = SchemaAdded(s, o)
  PROVE  Added(s, t, o)
<1>1. CASE DocIsNew(o)
  <2>n. PICK n : n = s.next
    OBVIOUS
  <2>u. PICK u : u = PutExternal(s, n, NoBytes)
    OBVIOUS
  <2>0. s.next \in Nat
    BY DEF Tabled
  <2>1. s.next + 0 = s.next
    BY <2>0
  <2>2. t = Advanced(u, 1)
    BY <1>1, <2>1, <2>n, <2>u DEF SchemaAdded, DocIsNew, Fresh, Advanced
  <2>3. /\ Tabled(u) /\ (Done(u) <=> Done(s)) /\ u.next = s.next
        /\ u.items = s.items /\ u.composites = s.composites
        /\ \A d : d \in DOMAIN u.docs <=> d \in DOMAIN s.docs \/ d = n
    BY <2>u, PutExternalIs
  <2>4. /\ Tabled(t) /\ (Done(t) <=> Done(u)) /\ t.next = u.next + 1
        /\ t.docs = u.docs /\ t.composites = u.composites
        /\ t.items = u.items
    BY <2>2, <2>3, AdvancedIs
  <2> QED BY <1>1, <2>3, <2>4, <2>n DEF Added
<1>2. CASE ~DocIsNew(o)
  <2>1. t = s
    BY <1>2 DEF SchemaAdded, DocIsNew
  <2> QED BY <1>2, <2>1 DEF Added
<1> QED BY <1>1, <1>2

CaughtUp(s, t, o) ==
  /\ Tabled(t) /\ Done(s)
  /\ t.next = s.next
  /\ t.items = s.items
  /\ \A c \in PartsGone(o) : c \in DOMAIN s.composites
  /\ \A c : c \in DOMAIN t.composites <=>
       c \in DOMAIN s.composites /\ c \notin PartsGone(o)
  /\ \A c \in DOMAIN t.composites : t.composites[c] = s.composites[c]
  /\ \A d : d \in DOMAIN t.docs <=>
       /\ d \in DOMAIN s.docs /\ ~(DocIsGone(o) /\ d = o.doc)
       /\ \A c \in PartsGone(o) : s.composites[c].doc # d

\* An attribute that a schema removed is taken from the record, or raises.
LEMMA CaughtUpTabled ==
  ASSUME NEW s, Tabled(s), NEW o, NEW t, t = SchemaRemoved(s, o)
  PROVE  Tabled(t) /\ (Done(t) => CaughtUp(s, t, o))
<1>u. PICK u : u = IF DocIsGone(o) THEN DeleteExternals(s, {o.doc}) ELSE s
  OBVIOUS
<1>p. PICK p : p = o.parts
  OBVIOUS
<1>1. /\ Tabled(u) /\ (Done(u) <=> Done(s)) /\ u.next = s.next
      /\ u.items = s.items /\ u.composites = s.composites
      /\ \A d : d \in DOMAIN u.docs <=>
           d \in DOMAIN s.docs /\ ~(DocIsGone(o) /\ d = o.doc)
  <2>1. CASE DocIsGone(o)
    <3>k. PICK k : k = {o.doc}
      OBVIOUS
    <3>1. u = DeleteExternals(s, k)
      BY <2>1, <1>u, <3>k
    <3>2. /\ Tabled(u) /\ (Done(u) <=> Done(s)) /\ u.next = s.next
          /\ u.items = s.items /\ u.composites = s.composites
          /\ \A d : d \in DOMAIN u.docs <=> d \in DOMAIN s.docs /\ d \notin k
      BY <3>1, DeleteExternalsIs
    <3> QED BY <2>1, <3>2, <3>k
  <2>2. CASE ~DocIsGone(o)
    BY <2>2, <1>u
  <2> QED BY <2>1, <2>2
<1>2. CASE "parts" \in o.attrs \ props
  <2>1. t = Removed(u, p)
    BY <1>2, <1>u, <1>p
       DEF SchemaRemoved, RemoveExternals, DocIsGone, Removed
  <2>2. Tabled(t) /\ (Done(t) => p \subseteq DOMAIN u.composites)
    BY <2>1, <1>1, RemovedTabled
  <2>3. ASSUME Done(t)
        PROVE  CaughtUp(s, t, o)
    <3>0. p \subseteq DOMAIN u.composites /\ Tabled(u)
      BY <2>2, <2>3, <1>1
    <3>1. /\ (Done(t) <=> Done(u)) /\ t.next = u.next /\ t.items = u.items
          /\ \A c : c \in DOMAIN t.composites <=>
               c \in DOMAIN u.composites /\ c \notin p
          /\ \A c \in DOMAIN t.composites : t.composites[c] = u.composites[c]
          /\ \A d : d \in DOMAIN t.docs <=>
               d \in DOMAIN u.docs /\ \A c \in p : u.composites[c].doc # d
      BY <3>0, <2>1, RemovedIs
    <3>2. PartsGone(o) = p
      BY <1>2, <1>p DEF PartsGone
    <3> QED BY <3>0, <3>1, <3>2, <2>2, <2>3, <1>1 DEF CaughtUp
  <2> QED BY <2>2, <2>3
<1>3. CASE ~("parts" \in o.attrs \ props)
  <2>1. t = u
    BY <1>3, <1>u DEF SchemaRemoved, RemoveExternals, DocIsGone
  <2>2. \A c : c \notin PartsGone(o)
    BY <1>3 DEF PartsGone
  <2> QED BY <2>1, <2>2, <1>1 DEF CaughtUp
<1> QED BY <1>2, <1>3

\* The document of the item when its schema is up to date.
DocNow(s, o) == IF "doc" \notin props THEN NoId
                ELSE IF "doc" \in o.attrs THEN o.doc ELSE s.next

ValueNow(o, doc, d) ==
  IF doc.dirty \/ o.own = {} THEN [doc EXCEPT !.id = d]
  ELSE InMemory(d, CHOOSE v \in o.own : TRUE, TRUE)

IsValueNow(now, o, doc, d) ==
  /\ now \in InMemories /\ now.id = d
  /\ now.dirty <=> doc.dirty \/ o.own # {}
  /\ doc.dirty => now.value = doc.value

\* The value of the document of an item once its schema is up to date.
LEMMA ValueNowIs ==
  ASSUME NEW o \in ItemRecords, NEW doc \in InMemories, NEW d \in Nat,
         NEW now, now = ValueNow(o, doc, d)
  PROVE  IsValueNow(now, o, doc, d)
<1>1. CASE doc.dirty \/ o.own = {}
  <2>1. now = [doc EXCEPT !.id = d]
    BY <1>1 DEF ValueNow
  <2> QED BY <2>1, <1>1 DEF InMemories, IsValueNow
<1>2. CASE ~(doc.dirty \/ o.own = {})
  <2>1. PICK v : v = CHOOSE w \in o.own : TRUE
    OBVIOUS
  <2>2. v \in o.own
    BY <2>1, <1>2
  <2>3. v \in Contents
    BY <2>2 DEF ItemRecords
  <2>4. now = [id |-> d, value |-> v, dirty |-> TRUE]
    BY <2>1, <1>2 DEF ValueNow, InMemory
  <2>5. now \in InMemories
    BY <2>3, <2>4 DEF InMemories
  <2> QED BY <2>4, <2>5, <1>2 DEF IsValueNow
<1> QED BY <1>1, <1>2

UpdateIsStaged(s, u, t, i, o, doc, x) ==
  /\ Staged(s, u, i, o.parts, PartsGone(o), x)
  /\ u.next = t.next
  /\ HasDoc(x) /\ doc.dirty => u.docs[x.doc] = doc.value

\* The schema has been caught up with and the document stored.
LEMMA UpdateStaged ==
  ASSUME NEW s, NEW left, NEW common, Together(s, common, left),
         NEW i \in DOMAIN s.items, NEW o, o = s.items[i],
         NEW a, Added(s, a, o), NEW t, CaughtUp(a, t, o),
         NEW doc, NEW now, IsValueNow(now, o, doc, DocNow(s, o)),
         NEW u, u = IF "doc" \in props THEN StoreExternal(t, now) ELSE t,
         NEW x, x.attrs = props, x.doc = DocNow(s, o)
  PROVE  UpdateIsStaged(s, u, t, i, o, doc, x)
<1>s. /\ s.next \in Nat /\ Tabled(t)
  BY DEF Together, Tabled, CaughtUp
<1>a. /\ a.next = IF DocIsNew(o) THEN s.next + 1 ELSE s.next
      /\ a.items = s.items /\ a.composites = s.composites
      /\ \A d : d \in DOMAIN a.docs <=>
           d \in DOMAIN s.docs \/ (DocIsNew(o) /\ d = s.next)
  BY DEF Added
<1>t. /\ t.next = a.next /\ t.items = a.items
      /\ \A c \in PartsGone(o) : c \in DOMAIN a.composites
      /\ \A c : c \in DOMAIN t.composites <=>
           c \in DOMAIN a.composites /\ c \notin PartsGone(o)
      /\ \A c \in DOMAIN t.composites : t.composites[c] = a.composites[c]
      /\ \A d : d \in DOMAIN t.docs <=>
           /\ d \in DOMAIN a.docs /\ ~(DocIsGone(o) /\ d = o.doc)
           /\ \A c \in PartsGone(o) : a.composites[c].doc # d
  BY DEF CaughtUp
<1>n. /\ now \in InMemories /\ now.id = x.doc
      /\ now.dirty <=> doc.dirty \/ o.own # {}
      /\ doc.dirty => now.value = doc.value
  BY DEF IsValueNow
<1>x. /\ HasDoc(x) <=> "doc" \in props
      /\ HasDoc(x) => x.doc = IF HasDoc(o) THEN o.doc ELSE s.next
      /\ DocIsNew(o) <=> HasDoc(x) /\ ~HasDoc(o)
      /\ DocIsGone(o) <=> ~HasDoc(x) /\ HasDoc(o)
  BY DEF HasDoc, DocNow, DocIsNew, DocIsGone
<1>1. /\ Tabled(u) /\ (Done(u) <=> Done(t)) /\ u.next = t.next
      /\ u.items = t.items /\ u.composites = t.composites
      /\ \A d : d \in DOMAIN u.docs <=>
           d \in DOMAIN t.docs \/ (HasDoc(x) /\ now.dirty /\ d = x.doc)
      /\ HasDoc(x) /\ now.dirty => u.docs[x.doc] = now.value
  <2>1. CASE "doc" \in props
    <3>1. u = StoreExternal(t, now)
      BY <2>1
    <3>2. /\ Tabled(u) /\ (Done(u) <=> Done(t)) /\ u.next = t.next
          /\ u.items = t.items /\ u.composites = t.composites
          /\ \A d : d \in DOMAIN u.docs <=>
               d \in DOMAIN t.docs \/ (now.dirty /\ d = now.id)
          /\ now.dirty => u.docs[now.id] = now.value
      BY <3>1, <1>s, <1>n, StoreExternalIs
    <3> QED BY <2>1, <3>2, <1>n, <1>x
  <2>2. CASE "doc" \notin props
    BY <2>2, <1>s, <1>x
  <2> QED BY <2>1, <2>2
<1>2. HasDoc(x) /\ doc.dirty => u.docs[x.doc] = doc.value
  BY <1>1, <1>n
<1>3. HasDoc(x) => /\ \A c \in DOMAIN s.composites : s.composites[c].doc # x.doc
                   /\ ~HasDoc(o) => x.doc = s.next
                   /\ HasDoc(o) => x.doc = o.doc
                   /\ HasDoc(o) => x.doc \in DOMAIN s.docs \/ o.own # {}
  <2> SUFFICES ASSUME HasDoc(x)
               PROVE  /\ \A c \in DOMAIN s.composites : s.composites[c].doc # x.doc
                      /\ HasDoc(o) => x.doc \in DOMAIN s.docs \/ o.own # {}
    BY <1>x
  <2>1. CASE HasDoc(o)
    BY <2>1, <1>x DEF Together, DocsApart, DocsThere
  <2>2. CASE ~HasDoc(o)
    <3>1. x.doc = s.next
      BY <2>2, <1>x
    <3>2. \A c \in DOMAIN s.composites :
            s.composites[c].doc \in Nat /\ s.composites[c].doc < s.next
      BY DEF Together, AllGivenOut, Tabled, PartRecords
    <3> QED BY <2>2, <3>1, <3>2, <1>s
  <2> QED BY <2>1, <2>2
<1>4. HasDoc(x) => x.doc \in DOMAIN u.docs
  <2> SUFFICES ASSUME HasDoc(x), ~now.dirty
               PROVE  x.doc \in DOMAIN t.docs
    BY <1>1
  <2>1. x.doc \in DOMAIN a.docs
    BY <1>3, <1>n, <1>a, <1>x
  <2>2. \A c \in PartsGone(o) : a.composites[c].doc # x.doc
    BY <1>3, <1>t, <1>a
  <2> QED BY <2>1, <2>2, <1>t, <1>x
<1>5. \A d : d \in DOMAIN u.docs <=>
        \/ /\ d \in DOMAIN s.docs
           /\ \A c \in PartsGone(o) : s.composites[c].doc # d
           /\ ~(/\ i \in DOMAIN s.items /\ HasDoc(s.items[i]) /\ ~HasDoc(x)
                /\ d = s.items[i].doc)
        \/ HasDoc(x) /\ d = x.doc
  <2> TAKE d
  <2>1. CASE HasDoc(x) /\ d = x.doc
    BY <2>1, <1>4
  <2>2. CASE ~(HasDoc(x) /\ d = x.doc)
    <3>1. d \in DOMAIN u.docs <=> d \in DOMAIN t.docs
      BY <2>2, <1>1
    <3>2. ~(DocIsNew(o) /\ d = s.next)
      BY <2>2, <1>x
    <3>3. (DocIsGone(o) /\ d = o.doc) <=>
            (/\ i \in DOMAIN s.items /\ HasDoc(s.items[i]) /\ ~HasDoc(x)
             /\ d = s.items[i].doc)
      BY <1>x
    <3> QED BY <2>2, <3>1, <3>2, <3>3, <1>a, <1>t
  <2> QED BY <2>1, <2>2
<1>6. u.next >= s.next
  BY <1>s, <1>a, <1>t, <1>1
<1>7. /\ u.items = s.items
      /\ \A c \in PartsGone(o) : c \in DOMAIN s.composites /\ c \in o.parts
      /\ \A c : c \in DOMAIN u.composites <=>
           c \in DOMAIN s.composites /\ c \notin PartsGone(o)
      /\ \A c \in DOMAIN u.composites : u.composites[c] = s.composites[c]
  BY <1>a, <1>t, <1>1 DEF PartsGone
<1> QED BY <1>1, <1>2, <1>5, <1>6, <1>7 DEF Staged, UpdateIsStaged

\* The record of an item once its schema is up to date.
LEMMA UpdateSchemaIs ==
  ASSUME NEW s, s.next \in Nat, NEW o \in ItemRecords,
         NEW x, x = UpdateSchema(s, o)
  PROVE  /\ x = [attrs |-> props, doc |-> DocNow(s, o), own |-> o.own,
                 parts |-> x.parts, deleted |-> o.deleted]
         /\ x.parts = IF "parts" \in props /\ "parts" \in o.attrs
                      THEN o.parts ELSE {}
<1>1. o = [attrs |-> o.attrs, doc |-> o.doc, own |-> o.own,
           parts |-> o.parts, deleted |-> o.deleted]
  BY DEF ItemRecords
<1>2. Fresh(s, 0) = s.next
  BY DEF Fresh
<1>p. PICK p : p = IF "parts" \in props \cap o.attrs THEN o.parts ELSE {}
  OBVIOUS
<1>d. PICK d : d = DocNow(s, o)
  OBVIOUS
<1>3. d = IF "doc" \notin props THEN NoId
          ELSE IF "doc" \in o.attrs THEN o.doc ELSE Fresh(s, 0)
  BY <1>2, <1>d DEF DocNow
<1>4. x = [o EXCEPT !.attrs = props, !.doc = d, !.parts = p]
  BY <1>1, <1>3, <1>p DEF UpdateSchema
<1>5. x = [attrs |-> props, doc |-> d, own |-> o.own, parts |-> p,
           deleted |-> o.deleted]
  BY <1>1, <1>4
<1> QED BY <1>5, <1>d, <1>p

UpdatedThing(s, o, list) ==
  [UpdateSchema(s, o)
     EXCEPT !.own = {},
            !.parts = IF "parts" \in props THEN GivenIds(list) ELSE {}]

\* The record of an item that an update stores.
LEMMA UpdatedThingIs ==
  ASSUME NEW s, s.next \in Nat, NEW o \in ItemRecords, NEW list,
         \A a \in props : a \in Attributes, GivenIds(list) \subseteq Nat,
         NEW x, x = UpdatedThing(s, o, list)
  PROVE  /\ x \in ItemRecords /\ x.attrs = props /\ x.doc = DocNow(s, o)
         /\ x.own = {} /\ x.deleted = o.deleted
         /\ x.parts = IF "parts" \in props THEN GivenIds(list) ELSE {}
<1>1. x = [attrs |-> props, doc |-> DocNow(s, o), own |-> {},
           parts |-> IF "parts" \in props THEN GivenIds(list) ELSE {},
           deleted |-> o.deleted]
  <2>1. PICK u : u = UpdateSchema(s, o)
    OBVIOUS
  <2>2. u = [attrs |-> props, doc |-> DocNow(s, o), own |-> o.own,
             parts |-> u.parts, deleted |-> o.deleted]
    BY <2>1, UpdateSchemaIs
  <2>p. PICK p : p = IF "parts" \in props THEN GivenIds(list) ELSE {}
    OBVIOUS
  <2>3. x = [u EXCEPT !.own = {}, !.parts = p]
    BY <2>1, <2>p DEF UpdatedThing
  <2>4. x = [attrs |-> props, doc |-> DocNow(s, o), own |-> {},
             parts |-> p, deleted |-> o.deleted]
    <3>1. PICK a, d, w, q, b :
            /\ u = [attrs |-> a, doc |-> d, own |-> w, parts |-> q, deleted |-> b]
            /\ a = props /\ d = DocNow(s, o) /\ b = o.deleted
      BY <2>2
    <3>2. x = [attrs |-> a, doc |-> d, own |-> {}, parts |-> p, deleted |-> b]
      BY <3>1, <2>3
    <3> QED BY <3>1, <3>2
  <2> QED BY <2>4, <2>p
<1>2. DocNow(s, o) \in Nat
  BY DEF DocNow, ItemRecords, NoId
<1>3. props \in SUBSET Attributes /\ o.deleted \in BOOLEAN /\ {} \in SUBSET Contents
  BY DEF ItemRecords
<1>4. (IF "parts" \in props THEN GivenIds(list) ELSE {}) \in SUBSET Nat
  OBVIOUS
<1> QED BY <1>1, <1>2, <1>3, <1>4 DEF ItemRecords

\* An update writes the item with its schema brought up to date, the document
\* and the composites that it was given.
LEMMA UpdateWrites ==
  ASSUME NEW s, NEW left, NEW common, Together(s, common, left),
         \A a \in props : a \in Attributes, NoBytes \in Contents,
         NEW i \in DOMAIN s.items, ~s.items[i].deleted,
         NEW doc \in InMemories, NEW list,
         list.ids \subseteq s.items[i].parts,
         PartsGiven(s, i, s.items[i].parts, list.objects),
         NEW r, r = UpdateThing(s, i, doc, list), Done(r)
  PROVE  /\ Together(r, common, left)
         /\ r.next <= s.next + 1
         /\ doc.dirty => DocKept(r, i, doc)
<1>o. PICK o : o = s.items[i]
  OBVIOUS
<1>f. PICK f : f = list.objects
  OBVIOUS
<1>s. /\ Tabled(s) /\ s.next \in Nat /\ i \in Nat /\ i \in 1 .. s.next - 1
      /\ o \in ItemRecords /\ i \notin DOMAIN s.composites
  BY <1>o DEF Together, Tabled, AllGivenOut
<1>l. /\ ObjectTable(f) /\ PartsGiven(s, i, o.parts, f)
      /\ list.ids \subseteq Nat /\ \A c \in DOMAIN f : c \in Nat
  <2>1. ObjectTable(f) /\ PartsGiven(s, i, o.parts, f)
    BY <1>o, <1>f DEF PartsGiven, ObjectTable
  <2>2. \A c \in DOMAIN f : c \in Nat
    BY <2>1 DEF PartsGiven, Together, AllGivenOut
  <2>3. list.ids \subseteq Nat
    BY <1>o, <1>s DEF ItemRecords
  <2> QED BY <2>1, <2>2, <2>3
<1>m. GivenIds(list) \subseteq Nat
  BY <1>l, <1>f DEF GivenIds
<1>a. PICK a : a = SchemaAdded(s, o)
  OBVIOUS
<1>t. PICK t : t = SchemaRemoved(a, o)
  OBVIOUS
<1>d. PICK d : d = DocNow(s, o)
  OBVIOUS
<1>n. PICK now : now = ValueNow(o, doc, d)
  OBVIOUS
<1>u. PICK u : u = IF "doc" \in props THEN StoreExternal(t, now) ELSE t
  OBVIOUS
<1>k. PICK old : old = UpdateSchema(s, o).parts
  OBVIOUS
<1>g. PICK g : g = IF "parts" \in props THEN StoreGiven(u, i, list, old) ELSE u
  OBVIOUS
<1>x. PICK x : x = UpdatedThing(s, o, list)
  OBVIOUS
<1>1. /\ x \in ItemRecords /\ x.attrs = props /\ x.doc = d
      /\ x.own = {} /\ x.deleted = o.deleted
      /\ x.parts = IF "parts" \in props THEN GivenIds(list) ELSE {}
  BY <1>s, <1>m, <1>d, <1>x, UpdatedThingIs
<1>2. r = PutThing(g, i, x)
  <2>w. PICK w : w = UpdateSchema(s, o)
    OBVIOUS
  <2>1. w.doc = d
    <3>1. w = [attrs |-> props, doc |-> DocNow(s, o), own |-> o.own,
               parts |-> w.parts, deleted |-> o.deleted]
      BY <2>w, <1>s, UpdateSchemaIs
    <3> QED BY <3>1, <1>d
  <2>2. now = IF doc.dirty \/ o.own = {} THEN [doc EXCEPT !.id = w.doc]
              ELSE InMemory(w.doc, CHOOSE v \in o.own : TRUE, TRUE)
    BY <2>1, <1>n DEF ValueNow
  <2>3. w.own = o.own
    <3>1. w = [attrs |-> props, doc |-> DocNow(s, o), own |-> o.own,
               parts |-> w.parts, deleted |-> o.deleted]
      BY <2>w, <1>s, UpdateSchemaIs
    <3> QED BY <3>1
  <2>4. now = IF doc.dirty \/ w.own = {} THEN [doc EXCEPT !.id = w.doc]
              ELSE InMemory(w.doc, CHOOSE v \in w.own : TRUE, TRUE)
    BY <2>2, <2>3
  <2>5. x = [w EXCEPT !.own = {},
                      !.parts = IF "parts" \in props THEN GivenIds(list)
                                ELSE {}]
    BY <2>w, <1>x DEF UpdatedThing
  <2>6. g = IF "parts" \in props THEN StoreGiven(u, i, list, w.parts) ELSE u
    BY <2>w, <1>k, <1>g
  <2>7. r = PutThing(IF "parts" \in props THEN StoreGiven(u, i, list, w.parts)
                     ELSE u, i,
                     [w EXCEPT !.own = {},
                               !.parts = IF "parts" \in props
                                         THEN GivenIds(list) ELSE {}])
    BY <2>w, <2>4, <1>o, <1>a, <1>t, <1>u, Zenon DEF UpdateThing
  <2> QED BY <2>5, <2>6, <2>7, Zenon
<1>3. Added(s, a, o)
  BY <1>s, <1>a, AddedIs
<1>4. Tabled(a)
  BY <1>3 DEF Added
<1>5. Tabled(t) /\ (Done(t) => CaughtUp(a, t, o))
  BY <1>4, <1>t, CaughtUpTabled
<1>6. IsValueNow(now, o, doc, d)
  <2>1. d \in Nat
    BY <1>s, <1>d DEF DocNow, ItemRecords, NoId
  <2> QED BY <2>1, <1>s, <1>n, ValueNowIs
<1>7. Tabled(u) /\ (Done(u) <=> Done(t))
  <2>1. CASE "doc" \in props
    <3>1. u = StoreExternal(t, now) /\ now \in InMemories
      BY <2>1, <1>u, <1>6 DEF IsValueNow
    <3> QED BY <3>1, <1>5, StoreExternalIs
  <2>2. CASE "doc" \notin props
    BY <2>2, <1>u, <1>5
  <2> QED BY <2>1, <2>2
<1>8. Tabled(g)
  <2>1. CASE "parts" \in props
    BY <2>1, <1>g, <1>7, <1>s, <1>l, <1>f, StoreGivenTabled
  <2>2. CASE "parts" \notin props
    BY <2>2, <1>g, <1>7
  <2> QED BY <2>1, <2>2
<1>9. Done(g) /\ i \in DOMAIN r.items /\ r.items[i] = x
  BY <1>1, <1>2, <1>8, PutThingIs
<1>10. "parts" \in props =>
         Done(u) /\ ListStored(u, g, i, list.ids, f, old \ GivenIds(list))
  <2> SUFFICES ASSUME "parts" \in props
               PROVE  Done(u) /\ ListStored(u, g, i, list.ids, f,
                                            old \ GivenIds(list))
    OBVIOUS
  <2>q. PICK q : q = old \ GivenIds(list)
    OBVIOUS
  <2>1. g = StoreGiven(u, i, list, old)
    BY <1>g
  <2>2. ListStored(u, g, i, list.ids, f, q)
    BY <2>1, <2>q, <1>7, <1>s, <1>l, <1>f, <1>9, StoreGivenIs
  <2>3. Done(u)
    BY <2>2 DEF ListStored
  <2> QED BY <2>2, <2>3, <2>q
<1>11. Done(t) /\ CaughtUp(a, t, o)
  <2>1. Done(u)
    BY <1>9, <1>10, <1>g
  <2> QED BY <2>1, <1>5, <1>7
<1>12. /\ Staged(s, u, i, o.parts, PartsGone(o), x)
       /\ u.next = t.next
       /\ HasDoc(x) /\ doc.dirty => u.docs[x.doc] = doc.value
  <2>1. x.doc = DocNow(s, o) /\ IsValueNow(now, o, doc, DocNow(s, o))
    BY <1>1, <1>6, <1>d
  <2>2. UpdateIsStaged(s, u, t, i, o, doc, x)
    BY <2>1, <1>1, <1>3, <1>11, <1>o, <1>u, UpdateStaged
  <2> QED BY <2>2 DEF UpdateIsStaged
<1>13. HasDoc(x) <=> "doc" \in props
  BY <1>1 DEF HasDoc
<1>14. HasDoc(x) => x.doc = IF HasDoc(o) THEN o.doc ELSE s.next
  BY <1>1, <1>13, <1>d DEF DocNow, HasDoc
<1>15. HasDoc(x) =>
         /\ \A j \in DOMAIN s.items :
              j # i /\ HasDoc(s.items[j]) => s.items[j].doc # x.doc
         /\ \A c \in DOMAIN s.composites : s.composites[c].doc # x.doc
         /\ \A c \in DOMAIN f : f[c].doc.id # x.doc
  <2>f. \A c \in DOMAIN f :
          \/ c \in DOMAIN s.composites /\ f[c].doc.id = s.composites[c].doc
          \/ Unclaimed(s, f[c].doc.id)
    BY <1>l DEF PartsGiven
  <2>1. CASE HasDoc(x) /\ HasDoc(o)
    <3>1. x.doc = o.doc
      BY <2>1, <1>14
    <3>2. /\ \A j \in DOMAIN s.items :
               j # i /\ HasDoc(s.items[j]) => s.items[j].doc # o.doc
          /\ \A c \in DOMAIN s.composites : s.composites[c].doc # o.doc
      BY <2>1, <1>o DEF Together, DocsApart
    <3>3. \A c \in DOMAIN f : f[c].doc.id # o.doc
      BY <3>2, <2>f, <1>o DEF Unclaimed
    <3> QED BY <3>1, <3>2, <3>3
  <2>2. CASE HasDoc(x) /\ ~HasDoc(o)
    <3>1. x.doc = s.next
      BY <2>2, <1>14
    <3>2. /\ \A j \in DOMAIN s.items :
               s.items[j].doc \in Nat /\ s.items[j].doc < s.next
          /\ \A c \in DOMAIN s.composites :
               s.composites[c].doc \in Nat /\ s.composites[c].doc < s.next
      BY DEF Together, AllGivenOut, Tabled, PartRecords, ItemRecords
    <3>3. \A c \in DOMAIN f : f[c].doc.id # s.next
      BY <3>2, <2>f, <1>s DEF Unclaimed
    <3> QED BY <3>1, <3>2, <3>3, <1>s
  <2> QED BY <2>1, <2>2
<1>16. DocIsOwn(s, f, x)
  BY <1>15 DEF DocIsOwn, IsDirty
<1>p. PICK ids : ids = IF "parts" \in props THEN list.ids ELSE {}
  OBVIOUS
<1>e. PICK e : e = IF "parts" \in props THEN f ELSE NoObjects
  OBVIOUS
<1>17. /\ DocIsOwn(s, e, x) /\ PartsGiven(s, i, o.parts, e)
       /\ HasDoc(x) => \A c \in DOMAIN e : e[c].doc.id # x.doc
  <2>1. CASE "parts" \in props
    BY <2>1, <1>e, <1>16, <1>15, <1>l
  <2>2. CASE "parts" \notin props
    <3>0. e = NoObjects
      BY <2>2, <1>e
    <3>1. /\ \A c : c \notin DOMAIN e
          /\ PartsGiven(s, i, o.parts, e) /\ \A c : ~IsDirty(e, c)
      BY <3>0, NoObjectsAre
    <3> QED BY <3>1, <1>15 DEF DocIsOwn
  <2> QED BY <2>1, <2>2
<1>18. ListIs(u, g, i, o.parts, PartsGone(o), e, ids, x)
  <2>1. CASE "parts" \in props
    <3>1. /\ x.parts = GivenIds(list) /\ ids = list.ids /\ e = f
          /\ \A c : c \notin PartsGone(o)
      BY <2>1, <1>1, <1>p, <1>e DEF PartsGone
    <3>2. \A c : c \in x.parts <=> c \in ids \/ c \in DOMAIN e
      BY <3>1, <1>f DEF GivenIds
    <3>3. old = o.parts
      <4>1. old = IF "parts" \in o.attrs THEN o.parts ELSE {}
        <5>1. PICK w : w = UpdateSchema(s, o)
          OBVIOUS
        <5>2. w.parts = IF "parts" \in props /\ "parts" \in o.attrs
                        THEN o.parts ELSE {}
          BY <5>1, <1>s, UpdateSchemaIs
        <5> QED BY <5>1, <5>2, <2>1, <1>k
      <4>2. "parts" \notin o.attrs => o.parts = {}
        BY <1>o DEF Together, Schemed
      <4> QED BY <4>1, <4>2
    <3>4. ListStored(u, g, i, ids, e, o.parts \ x.parts)
      BY <2>1, <3>1, <3>3, <1>10
    <3>5. \A c \in ids : c \in o.parts
      BY <3>1, <1>o
    <3> QED BY <3>1, <3>2, <3>4, <3>5 DEF ListIs
  <2>2. CASE "parts" \notin props
    <3>1. x.parts = {} /\ ids = {} /\ e = NoObjects /\ g = u
      BY <2>2, <1>1, <1>p, <1>e, <1>g
    <3>2. (\A c : c \notin DOMAIN e) /\ \A c : ~IsDirty(e, c)
      BY <3>1, NoObjectsAre
    <3>3. \A c \in o.parts : c \in PartsGone(o)
      <4>2. "parts" \notin o.attrs => o.parts = {}
        BY <1>o DEF Together, Schemed
      <4> QED BY <2>2, <4>2 DEF PartsGone
    <3> QED BY <3>1, <3>2, <3>3 DEF ListIs
  <2> QED BY <2>1, <2>2
<1>19. WritesOver(s, u, r, i, o.parts, e, ids, x)
  BY <1>1, <1>2, <1>8, <1>12, <1>17, <1>18, PutWrites
<1>20. Writes(s, r, i, o.parts, e, ids, x)
  BY <1>19 DEF WritesOver
<1>21. /\ r.next = (IF DocIsNew(o) THEN s.next + 1 ELSE s.next)
       /\ HasDoc(x) => r.docs[x.doc] = u.docs[x.doc]
  BY <1>19, <1>12, <1>11, <1>3 DEF WritesOver, CaughtUp, Added
<1>22. WrittenItem(s, r, i, e, x)
  <2>1. "parts" \notin props => x.parts = {}
    BY <1>1
  <2>2. 0 < s.next
    BY <1>s
  <2>3. HasDoc(x) => x.doc # NoId /\ x.doc < r.next
    <3>1. CASE HasDoc(x) /\ ~HasDoc(o)
      <4>1. DocIsNew(o)
        BY <3>1, <1>13 DEF DocIsNew, HasDoc
      <4> QED BY <3>1, <4>1, <1>14, <1>21, <1>s, <2>2 DEF NoId
    <3>2. CASE HasDoc(x) /\ HasDoc(o)
      <4>1. x.doc = o.doc /\ o.doc < s.next /\ o.doc \in Nat
        BY <3>2, <1>14, <1>o, <1>s DEF Together, AllGivenOut, ItemRecords
      <4>2. o.doc # NoId
        BY <3>2, <1>o DEF Together, AllGivenOut
      <4> QED BY <4>1, <4>2, <1>21, <1>s
    <3> QED BY <3>1, <3>2
  <2>6. ~HasDoc(x) => x.doc = NoId
    BY <1>13, <1>1, <1>d DEF DocNow
  <2>4. ~HasDoc(x) => x.doc < r.next
    BY <1>13, <1>1, <1>d, <1>21, <1>s, <2>2 DEF DocNow, NoId
  <2>5. HasDoc(x) /\ HasDoc(s.items[i]) => x.doc = s.items[i].doc
    BY <1>14, <1>o
  <2> QED BY <2>1, <2>3, <2>4, <2>5, <2>6, <1>1, <1>15, <1>17, <1>o DEF
             WrittenItem
<1>23. Together(r, common, left)
  BY <1>20, <1>22, <1>17, <1>o, <1>s, WritesTogether
<1>24. doc.dirty => DocKept(r, i, doc)
  <2>1. HasDoc(x) => x.doc \in DOMAIN r.docs
    BY <1>20 DEF Writes
  <2> QED BY <2>1, <1>9, <1>12, <1>13, <1>21 DEF DocKept
<1>25. r.next <= s.next + 1
  BY <1>21, <1>s
<1> QED BY <1>23, <1>24, <1>25

\* Item i is written as x, with the composites that it has, or shares, and a
\* document of its own; the composites of others are as they were.
Rewrites(s, r, i, x, more) ==
  /\ Tabled(r) /\ r.next >= s.next
  /\ i \in 1 .. r.next - 1 /\ i \notin DOMAIN s.composites
  /\ \A j : j \in DOMAIN r.items <=> j \in DOMAIN s.items \/ j = i
  /\ r.items[i] = x
  /\ \A j \in DOMAIN s.items : j # i => r.items[j] = s.items[j]
  /\ \A c : c \in DOMAIN r.composites <=> c \in DOMAIN s.composites
  /\ \A c \in DOMAIN s.composites :
       /\ r.composites[c].pid = s.composites[c].pid
       /\ r.composites[c].doc = s.composites[c].doc
       /\ c \notin x.parts => r.composites[c] = s.composites[c]
  /\ \A d : d \in DOMAIN r.docs <=>
       d \in DOMAIN s.docs \/ (HasDoc(x) /\ d = x.doc /\ x.own = {})
  /\ \A c \in x.parts : c \notin more =>
       /\ c \in DOMAIN s.composites /\ s.composites[c].pid = i
       /\ schemas = 0 => r.composites[c].deleted = x.deleted

RewrittenItem(s, r, i, x) ==
  /\ x.doc < r.next
  /\ "parts" \notin x.attrs => x.parts = {}
  /\ schemas = 0 => x.attrs = props
  /\ HasDoc(x) <=> x.doc # NoId
  /\ HasDoc(x) =>
       /\ \A j \in DOMAIN s.items :
            j # i /\ HasDoc(s.items[j]) => s.items[j].doc # x.doc
       /\ \A c \in DOMAIN s.composites : s.composites[c].doc # x.doc
       /\ x.own # {} => x.doc \notin DOMAIN s.docs
  /\ i \in DOMAIN s.items =>
       /\ s.items[i].parts = x.parts
       /\ HasDoc(s.items[i]) => HasDoc(x) /\ x.doc = s.items[i].doc

\* An item whose record alone is written, by a copy or a mark, leaves documents
\* and composites together.
LEMMA RewritesTogether ==
  ASSUME NEW s, NEW left, NEW common, Together(s, common, left),
         NEW more, \A c \in common : c \in more,
         NEW i, NEW x, NEW r, Rewrites(s, r, i, x, more),
         i \in DOMAIN s.items \/ \A c \in x.parts : c \in more,
         RewrittenItem(s, r, i, x)
  PROVE  Together(r, more, left)
<1>s. /\ s.next \in Nat /\ r.next \in Nat /\ r.next >= s.next /\ Tabled(r)
      /\ ItemTable(s.items) /\ PartTable(s.composites)
      /\ ItemTable(r.items) /\ PartTable(r.composites)
  <2>1. Tabled(s) /\ Tabled(r) /\ r.next >= s.next
    BY DEF Together, Rewrites
  <2> QED BY <2>1, TabledHas
<1>i. /\ i \in 1 .. r.next - 1 /\ i \notin DOMAIN s.composites
      /\ \A j : j \in DOMAIN r.items <=> j \in DOMAIN s.items \/ j = i
      /\ r.items[i] = x
      /\ \A j \in DOMAIN s.items : j # i => r.items[j] = s.items[j]
  BY DEF Rewrites
<1>c. /\ \A c : c \in DOMAIN r.composites <=> c \in DOMAIN s.composites
      /\ \A c \in DOMAIN s.composites :
           /\ r.composites[c].pid = s.composites[c].pid
           /\ r.composites[c].doc = s.composites[c].doc
           /\ c \notin x.parts => r.composites[c] = s.composites[c]
  BY DEF Rewrites
<1>d. \A d : d \in DOMAIN r.docs <=>
        d \in DOMAIN s.docs \/ (HasDoc(x) /\ d = x.doc /\ x.own = {})
  BY DEF Rewrites
<1>p. \A c \in x.parts : c \notin more =>
        /\ c \in DOMAIN s.composites /\ s.composites[c].pid = i
        /\ schemas = 0 => r.composites[c].deleted = x.deleted
  BY DEF Rewrites
<1>x. HasDoc(x) =>
        /\ \A j \in DOMAIN s.items :
             j # i /\ HasDoc(s.items[j]) => s.items[j].doc # x.doc
        /\ \A c \in DOMAIN s.composites : s.composites[c].doc # x.doc
        /\ x.own # {} => x.doc \notin DOMAIN s.docs
  BY DEF RewrittenItem
<1>w. /\ x.doc < r.next
      /\ "parts" \notin x.attrs => x.parts = {}
      /\ schemas = 0 => x.attrs = props
      /\ x \in ItemRecords
      /\ HasDoc(x) <=> x.doc # NoId
  BY <1>s, <1>i DEF RewrittenItem, ItemTable
<1>o. i \in DOMAIN s.items =>
        /\ s.items[i].parts = x.parts
        /\ HasDoc(s.items[i]) => HasDoc(x) /\ x.doc = s.items[i].doc
  BY DEF RewrittenItem
<1>1. AllGivenOut(r)
  <2>1. ASSUME NEW j \in DOMAIN r.items
        PROVE  /\ j \in 1 .. r.next - 1 /\ r.items[j].doc < r.next
               /\ HasDoc(r.items[j]) <=> r.items[j].doc # NoId
    <3>1. CASE j = i
      BY <3>1, <1>i, <1>w, <1>x
    <3>2. CASE j # i
      <4>1. /\ j \in 1 .. s.next - 1 /\ s.items[j].doc < s.next
            /\ HasDoc(s.items[j]) <=> s.items[j].doc # NoId
        BY <2>1, <3>2, <1>i DEF Together, AllGivenOut
      <4>2. s.items[j].doc \in Nat /\ r.items[j] = s.items[j]
        BY <2>1, <3>2, <1>i, <1>s DEF ItemTable, ItemRecords
      <4> QED BY <4>1, <4>2, <1>s
    <3> QED BY <3>1, <3>2
  <2>2. ASSUME NEW c \in DOMAIN r.composites
        PROVE  c \in 1 .. r.next - 1 /\ r.composites[c].doc < r.next
    <3>1. /\ c \in 1 .. s.next - 1 /\ s.composites[c].doc < s.next
          /\ r.composites[c].doc = s.composites[c].doc
      BY <2>2, <1>c DEF Together, AllGivenOut
    <3>2. s.composites[c].doc \in Nat
      BY <2>2, <1>c, <1>s DEF PartTable, PartRecords
    <3> QED BY <3>1, <3>2, <1>s
  <2>3. ASSUME NEW d \in DOMAIN r.docs
        PROVE  d \in 1 .. r.next - 1
    <3>1. CASE d \in DOMAIN s.docs
      <4>1. d \in 1 .. s.next - 1
        BY <3>1 DEF Together, AllGivenOut
      <4> QED BY <4>1, <1>s
    <3>2. CASE HasDoc(x) /\ d = x.doc
      <4>1. x.doc \in Nat /\ x.doc # 0 /\ x.doc < r.next
        BY <3>2, <1>w, <1>x DEF NoId, ItemRecords
      <4> QED BY <4>1, <3>2, <1>s
    <3> QED BY <2>3, <3>1, <3>2, <1>d
  <2>4. DOMAIN r.items \cap DOMAIN r.composites = {}
    BY <1>i, <1>c DEF Together, AllGivenOut
  <2> QED BY <2>1, <2>2, <2>3, <2>4 DEF AllGivenOut
<1>2. DocsApart(r)
  <2>1. ASSUME NEW j \in DOMAIN r.items, NEW k \in DOMAIN r.items,
               HasDoc(r.items[j]), HasDoc(r.items[k]),
               r.items[j].doc = r.items[k].doc
        PROVE  j = k
    <3>1. CASE j # i /\ k # i
      BY <2>1, <3>1, <1>i DEF Together, DocsApart
    <3>2. CASE j = i \/ k = i
      BY <2>1, <3>2, <1>i, <1>x
    <3> QED BY <3>1, <3>2
  <2>2. ASSUME NEW c \in DOMAIN r.composites, NEW e \in DOMAIN r.composites,
               r.composites[c].doc = r.composites[e].doc
        PROVE  c = e
    BY <2>2, <1>c DEF Together, DocsApart
  <2>3. ASSUME NEW j \in DOMAIN r.items, NEW c \in DOMAIN r.composites,
               HasDoc(r.items[j])
        PROVE  r.items[j].doc # r.composites[c].doc
    <3>1. CASE j = i
      BY <2>3, <3>1, <1>i, <1>c, <1>x
    <3>2. CASE j # i
      BY <2>3, <3>2, <1>i, <1>c DEF Together, DocsApart
    <3> QED BY <3>1, <3>2
  <2> QED BY <2>1, <2>2, <2>3 DEF DocsApart
<1>3. DocsBelong(r, left)
  <2> SUFFICES ASSUME NEW d \in DOMAIN r.docs, d \notin left
               PROVE  \/ \E j \in DOMAIN r.items :
                           HasDoc(r.items[j]) /\ r.items[j].doc = d
                      \/ \E c \in DOMAIN r.composites : r.composites[c].doc = d
    BY DEF DocsBelong
  <2>1. CASE HasDoc(x) /\ d = x.doc
    BY <2>1, <1>i
  <2>2. CASE ~(HasDoc(x) /\ d = x.doc)
    <3>1. d \in DOMAIN s.docs
      BY <2>2, <1>d
    <3>2. \/ \E j \in DOMAIN s.items : HasDoc(s.items[j]) /\ s.items[j].doc = d
          \/ \E c \in DOMAIN s.composites : s.composites[c].doc = d
      BY <3>1 DEF Together, DocsBelong
    <3>3. CASE \E j \in DOMAIN s.items : HasDoc(s.items[j]) /\ s.items[j].doc = d
      <4>1. PICK j \in DOMAIN s.items : HasDoc(s.items[j]) /\ s.items[j].doc = d
        BY <3>3
      <4>2. j # i
        BY <4>1, <2>2, <1>o
      <4> QED BY <4>1, <4>2, <1>i
    <3>4. CASE \E c \in DOMAIN s.composites : s.composites[c].doc = d
      BY <3>4, <1>c
    <3> QED BY <3>2, <3>3, <3>4
  <2> QED BY <2>1, <2>2
<1>4. DocsThere(r)
  <2>1. ASSUME NEW j \in DOMAIN r.items, HasDoc(r.items[j])
        PROVE  (r.items[j].doc \in DOMAIN r.docs) # (r.items[j].own # {})
    <3>1. CASE j = i
      BY <2>1, <3>1, <1>i, <1>d, <1>x
    <3>2. CASE j # i
      <4>0. j \in DOMAIN s.items /\ r.items[j] = s.items[j]
        BY <2>1, <3>2, <1>i
      <4>d. PICK d : d = s.items[j].doc
        OBVIOUS
      <4>1. (d \in DOMAIN s.docs) # (s.items[j].own # {})
        BY <2>1, <4>0, <4>d DEF Together, DocsThere
      <4>3. ~(HasDoc(x) /\ d = x.doc)
        BY <2>1, <3>2, <4>0, <4>d, <1>x
      <4>6. d \in DOMAIN r.docs <=> d \in DOMAIN s.docs
        BY <4>3, <1>d
      <4> QED BY <4>0, <4>1, <4>6, <4>d
    <3> QED BY <3>1, <3>2
  <2>2. ASSUME NEW c \in DOMAIN r.composites
        PROVE  r.composites[c].doc \in DOMAIN r.docs
    <3>1. s.composites[c].doc \in DOMAIN s.docs
      BY <2>2, <1>c DEF Together, DocsThere
    <3> QED BY <2>2, <3>1, <1>c, <1>d
  <2> QED BY <2>1, <2>2 DEF DocsThere
<1>5. PartsThere(r, more)
  <2> SUFFICES ASSUME NEW j \in DOMAIN r.items, NEW c \in r.items[j].parts,
                      c \notin more
               PROVE  /\ c \in DOMAIN r.composites
                      /\ r.composites[c].pid = j
                      /\ schemas = 0 =>
                           r.composites[c].deleted = r.items[j].deleted
    BY DEF PartsThere
  <2>0. \A k \in DOMAIN s.items : \A e \in s.items[k].parts :
          e \notin common =>
            /\ e \in DOMAIN s.composites /\ s.composites[e].pid = k
            /\ schemas = 0 => s.composites[e].deleted = s.items[k].deleted
    BY DEF Together, PartsThere
  <2>1. CASE j # i
    <3>1. j \in DOMAIN s.items /\ r.items[j] = s.items[j] /\ c \notin common
      BY <2>1, <1>i
    <3>2. /\ c \in DOMAIN s.composites /\ s.composites[c].pid = j
          /\ schemas = 0 => s.composites[c].deleted = s.items[j].deleted
      BY <3>1, <2>0
    <3>3. c \notin x.parts
      BY <3>2, <2>1, <1>p
    <3> QED BY <3>1, <3>2, <3>3, <1>c
  <2>2. CASE j = i
    BY <2>2, <1>i, <1>p, <1>c
  <2> QED BY <2>1, <2>2
<1>6. PartsBelong(r, more, left)
  <2> SUFFICES ASSUME NEW c \in DOMAIN r.composites, c \notin left,
                      c \notin more
               PROVE  \E j \in DOMAIN r.items : c \in r.items[j].parts
    BY DEF PartsBelong
  <2>1. c \in DOMAIN s.composites /\ c \notin common
    BY <1>c
  <2>2. PICK j \in DOMAIN s.items : c \in s.items[j].parts
    BY <2>1 DEF Together, PartsBelong
  <2>3. CASE j = i
    BY <2>2, <2>3, <1>i, <1>o
  <2>4. CASE j # i
    BY <2>2, <2>4, <1>i
  <2> QED BY <2>3, <2>4
<1>7. Schemed(r)
  <2> SUFFICES ASSUME NEW j \in DOMAIN r.items
               PROVE  /\ "parts" \notin r.items[j].attrs => r.items[j].parts = {}
                      /\ schemas = 0 => r.items[j].attrs = props
    BY DEF Schemed
  <2>1. CASE j = i
    BY <2>1, <1>i, <1>w
  <2>2. CASE j # i
    BY <2>2, <1>i DEF Together, Schemed
  <2> QED BY <2>1, <2>2
<1> QED BY <1>1, <1>2, <1>3, <1>4, <1>5, <1>6, <1>7, <1>s DEF Together

\* The value of the document of an item that is copied.
ValueOf(s, o) ==
  IF o.own # {} THEN o.own
  ELSE {s.docs[d] : d \in {o.doc} \cap DOMAIN s.docs} \ {NoBytes}

\* The document of an item is one value or none.
LEMMA ValueOfIs ==
  ASSUME NEW s, Tabled(s), NEW o \in ItemRecords
  PROVE  ValueOf(s, o) \in SUBSET Contents
BY DEF ValueOf, Tabled, ItemRecords

CloneOf(o, id, value) ==
  [o EXCEPT !.attrs = @ \cup props,
            !.doc = IF "doc" \in o.attrs \/ "doc" \in props THEN id ELSE NoId,
            !.own = IF "doc" \in o.attrs /\ ~("doc" \in props) THEN value ELSE {}]

\* The record of a copy: its own document, and the composites of the original.
LEMMA CloneOfIs ==
  ASSUME NEW o \in ItemRecords, NEW id \in Nat, NEW value \in SUBSET Contents,
         \A a \in props : a \in Attributes,
         NEW x, x = CloneOf(o, id, value)
  PROVE  /\ x \in ItemRecords
         /\ \A a : a \in x.attrs <=> a \in o.attrs \/ a \in props
         /\ x.doc = IF HasDoc(x) THEN id ELSE NoId
         /\ x.own = IF HasDoc(o) /\ "doc" \notin props THEN value ELSE {}
         /\ x.parts = o.parts /\ x.deleted = o.deleted
<1>d. PICK d : d = IF "doc" \in o.attrs \/ "doc" \in props THEN id ELSE NoId
  OBVIOUS
<1>v. PICK v : v = IF "doc" \in o.attrs /\ ~("doc" \in props) THEN value ELSE {}
  OBVIOUS
<1>a. PICK a : a = o.attrs \cup props
  OBVIOUS
<1>1. x = [o EXCEPT !.attrs = a, !.doc = d, !.own = v]
  BY <1>d, <1>v, <1>a DEF CloneOf, ItemRecords
<1>2. x = [attrs |-> a, doc |-> d, own |-> v, parts |-> o.parts,
           deleted |-> o.deleted]
  BY <1>1 DEF ItemRecords
<1>3. /\ a \in SUBSET Attributes /\ d \in Nat /\ v \in SUBSET Contents
      /\ o.parts \in SUBSET Nat /\ o.deleted \in BOOLEAN
  <2>1. o.attrs \in SUBSET Attributes /\ o.parts \in SUBSET Nat
        /\ o.deleted \in BOOLEAN
    BY DEF ItemRecords
  <2>2. d \in Nat
    BY <1>d DEF NoId
  <2>3. v \in SUBSET Contents
    BY <1>v
  <2> QED BY <2>1, <2>2, <2>3, <1>a
<1>4. /\ x.attrs = a /\ x.doc = d /\ x.own = v /\ x.parts = o.parts
      /\ x.deleted = o.deleted
  BY <1>2
<1>5. x \in ItemRecords
  BY <1>2, <1>3 DEF ItemRecords
<1>6. \A b : b \in x.attrs <=> b \in o.attrs \/ b \in props
  BY <1>4, <1>a
<1>7. x.doc = IF HasDoc(x) THEN id ELSE NoId
  BY <1>4, <1>6, <1>d DEF HasDoc
<1>8. x.own = IF HasDoc(o) /\ "doc" \notin props THEN value ELSE {}
  BY <1>4, <1>v DEF HasDoc
<1> QED BY <1>4, <1>5, <1>6, <1>7, <1>8

\* The copy of an item has a document of its own, and shares the composites.
LEMMA CopyWrites ==
  ASSUME NEW s, NEW left, NEW common, Together(s, common, left),
         \A a \in props : a \in Attributes, NoBytes \in Contents,
         NEW i \in DOMAIN s.items, ~s.items[i].deleted,
         NEW r, r = CopyThing(s, i), Done(r),
         NEW more, more = common \cup s.items[i].parts
  PROVE  Together(r, more, left) /\ r.next = s.next + 2
<1>o. PICK o : o = s.items[i]
  OBVIOUS
<1>s. /\ Tabled(s) /\ s.next \in Nat /\ 0 < s.next
      /\ o \in ItemRecords
      /\ i \in DOMAIN s.items
  BY <1>o DEF Together, Tabled
<1>v. PICK v : v = ValueOf(s, o)
  OBVIOUS
<1>n. PICK n : n = s.next + 1
  OBVIOUS
<1>k. PICK k : k = s.next
  OBVIOUS
<1>f. Fresh(s, 1) = n /\ Fresh(s, 0) = k /\ Duplicated(s, o.doc) = n
  BY <1>n, <1>k, <1>s DEF Fresh, Duplicated
<1>w. PICK w : w = IF "doc" \in o.attrs THEN CHOOSE b \in v : TRUE ELSE NoBytes
  OBVIOUS
<1>t. PICK t : t = IF "doc" \in props THEN PutExternal(s, n, w) ELSE s
  OBVIOUS
<1>x. PICK x : x = CloneOf(o, n, v)
  OBVIOUS
<1>g. PICK g : g = PutThing(t, k, x)
  OBVIOUS
<1>1. r = IF \/ "doc" \in o.attrs /\ v = {}
             \/ "parts" \in props /\ ~(o.parts \subseteq DOMAIN s.composites)
          THEN Failed(s) ELSE Advanced(g, 2)
  <2>1. n = IF "doc" \in o.attrs THEN Duplicated(s, o.doc) ELSE Fresh(s, 1)
    BY <1>f
  <2> QED BY <2>1, <1>f, <1>o, <1>v, <1>w, <1>t, <1>x, <1>g, Zenon
          DEF CopyThing, ValueOf, CloneOf, Advanced
<1>2. ~("doc" \in o.attrs /\ v = {}) /\ r = Advanced(g, 2)
  <2> SUFFICES ASSUME r = Failed(s)
               PROVE  FALSE
    BY <1>1
  <2> QED BY <1>s, FailedIs
<1>3. v \in SUBSET Contents /\ n \in Nat
  BY <1>v, <1>n, <1>s, ValueOfIs
<1>4. /\ x \in ItemRecords
      /\ \A a : a \in x.attrs <=> a \in o.attrs \/ a \in props
      /\ x.doc = IF HasDoc(x) THEN n ELSE NoId
      /\ x.own = IF HasDoc(o) /\ "doc" \notin props THEN v ELSE {}
      /\ x.parts = o.parts /\ x.deleted = o.deleted
  BY <1>s, <1>3, <1>x, CloneOfIs
<1>5. w \in Contents
  <2>1. CASE "doc" \in o.attrs
    BY <2>1, <1>2, <1>3, <1>w
  <2>2. CASE "doc" \notin o.attrs
    BY <2>2, <1>w
  <2> QED BY <2>1, <2>2
<1>6. /\ Tabled(t) /\ t.next = s.next
      /\ t.items = s.items /\ t.composites = s.composites
      /\ \A d : d \in DOMAIN t.docs <=>
           d \in DOMAIN s.docs \/ ("doc" \in props /\ d = n)
  <2>1. CASE "doc" \in props
    <3>1. t = PutExternal(s, n, w)
      BY <2>1, <1>t
    <3>2. /\ Tabled(t) /\ t.next = s.next
          /\ t.items = s.items /\ t.composites = s.composites
          /\ \A d : d \in DOMAIN t.docs <=> d \in DOMAIN s.docs \/ d = n
      BY <3>1, <1>s, <1>5, PutExternalIs
    <3> QED BY <2>1, <3>2
  <2>2. CASE "doc" \notin props
    BY <2>2, <1>t, <1>s
  <2> QED BY <2>1, <2>2
<1>7. /\ Tabled(g) /\ g.next = t.next
      /\ g.docs = t.docs /\ g.composites = t.composites
      /\ \A j : j \in DOMAIN g.items <=> j \in DOMAIN t.items \/ j = k
      /\ g.items[k] = x
      /\ \A j \in DOMAIN t.items : j # k => g.items[j] = t.items[j]
  BY <1>4, <1>6, <1>g, PutThingIs
<1>8. /\ Tabled(r) /\ r.next = g.next + 2
      /\ r.docs = g.docs /\ r.composites = g.composites
      /\ r.items = g.items
  BY <1>2, <1>7, AdvancedIs
<1>9. r.next = s.next + 2
  BY <1>6, <1>7, <1>8
<1>10. k \notin DOMAIN s.items /\ k \notin DOMAIN s.composites
  BY <1>k, <1>s DEF Together, AllGivenOut
<1>11. HasDoc(x) <=> HasDoc(o) \/ "doc" \in props
  BY <1>4 DEF HasDoc
<1>12. \A d : d \in DOMAIN r.docs <=>
         d \in DOMAIN s.docs \/ (HasDoc(x) /\ d = x.doc /\ x.own = {})
  <2>1. (HasDoc(x) /\ x.own = {}) <=> "doc" \in props
    BY <1>11, <1>4, <1>2 DEF HasDoc
  <2>2. HasDoc(x) => x.doc = n
    BY <1>4
  <2> QED BY <2>1, <2>2, <1>6, <1>7, <1>8
<1>13. Rewrites(s, r, k, x, more)
  <2>1. k \in 1 .. r.next - 1 /\ r.next >= s.next
    BY <1>k, <1>s, <1>9
  <2>2. \A c \in x.parts : c \in more
    BY <1>4, <1>o
  <2>3. /\ \A j : j \in DOMAIN r.items <=> j \in DOMAIN s.items \/ j = k
        /\ r.items[k] = x
        /\ \A j \in DOMAIN s.items : j # k => r.items[j] = s.items[j]
        /\ r.composites = s.composites
    BY <1>6, <1>7, <1>8
  <2> QED BY <2>1, <2>2, <2>3, <1>8, <1>10, <1>12 DEF Rewrites
<1>14. RewrittenItem(s, r, k, x)
  <2>1. x.doc < r.next
    BY <1>4, <1>n, <1>9, <1>s DEF NoId
  <2>2. "parts" \notin x.attrs => x.parts = {}
    BY <1>4, <1>o DEF Together, Schemed
  <2>3. schemas = 0 => x.attrs = props
    <3>1. schemas = 0 => o.attrs = props
      BY <1>o DEF Together, Schemed
    <3>2. o.attrs = props => x.attrs = props
      <4>1. x.attrs \in SUBSET Attributes
        BY <1>4 DEF ItemRecords
      <4> QED BY <4>1, <1>4
    <3> QED BY <3>1, <3>2
  <2>5. HasDoc(x) <=> x.doc # NoId
    BY <1>4, <1>n, <1>s DEF NoId
  <2>4. HasDoc(x) =>
          /\ \A j \in DOMAIN s.items :
               j # k /\ HasDoc(s.items[j]) => s.items[j].doc # x.doc
          /\ \A c \in DOMAIN s.composites : s.composites[c].doc # x.doc
          /\ x.own # {} => x.doc \notin DOMAIN s.docs
    <3>1. HasDoc(x) => x.doc = n
      BY <1>4
    <3>3. \A j \in DOMAIN s.items : s.items[j].doc # n
      BY <1>n, <1>s DEF Together, AllGivenOut, Tabled, ItemRecords
    <3>4. \A c \in DOMAIN s.composites : s.composites[c].doc # n
      BY <1>n, <1>s DEF Together, AllGivenOut, Tabled, PartRecords
    <3>5. n \notin DOMAIN s.docs
      BY <1>n, <1>s DEF Together, AllGivenOut
    <3> QED BY <3>1, <3>3, <3>4, <3>5
  <2> QED BY <2>1, <2>2, <2>3, <2>4, <2>5, <1>10 DEF RewrittenItem
<1>15. Together(r, more, left)
  <2>1. (\A c \in common : c \in more) /\ \A c \in x.parts : c \in more
    BY <1>4, <1>o
  <2> QED BY <2>1, <1>13, <1>14, RewritesTogether
<1> QED BY <1>9, <1>15

\* The composites of the item are marked, if its class has the composition.
Marked(s, o, b) ==
  IF "parts" \notin props THEN s
  ELSE IF ~(o.parts \subseteq DOMAIN s.composites) THEN Failed(s)
  ELSE MarkComposites(s, o.parts, b)

\* Both handlers of the composites mark the parts of an item.
LEMMA HandlersMark ==
  ASSUME NEW s, NEW o
  PROVE  /\ HandleDelete(s, o, FALSE) = Marked(s, o, TRUE)
         /\ (IF "parts" \in props THEN RestoreComposites(s, o.parts) ELSE s)
              = Marked(s, o, FALSE)
BY DEF HandleDelete, RemoveExternals, RemoveComposites, RestoreComposites,
   Marked

MarksParts(s, h, o, b) ==
  /\ Tabled(h) /\ Done(s)
  /\ h.next = s.next /\ h.items = s.items /\ h.docs = s.docs
  /\ "parts" \in props => o.parts \subseteq DOMAIN s.composites
  /\ \A c : c \in DOMAIN h.composites <=> c \in DOMAIN s.composites
  /\ \A c \in DOMAIN s.composites :
       /\ h.composites[c].pid = s.composites[c].pid
       /\ h.composites[c].doc = s.composites[c].doc
       /\ c \notin o.parts => h.composites[c] = s.composites[c]
       /\ "parts" \in props /\ c \in o.parts => h.composites[c].deleted = b

\* Marking the parts of an item raises unless all of them are there.
LEMMA MarksPartsIs ==
  ASSUME NEW s, Tabled(s), NEW o, NEW b \in BOOLEAN, NEW h, h = Marked(s, o, b)
  PROVE  /\ Tabled(h) /\ (Done(h) => MarksParts(s, h, o, b))
         /\ Done(s) /\ o.parts \subseteq DOMAIN s.composites => Done(h)
<1>1. CASE "parts" \notin props
  BY <1>1 DEF Marked, MarksParts
<1>2. CASE "parts" \in props /\ ~(o.parts \subseteq DOMAIN s.composites)
  <2>1. h = Failed(s)
    BY <1>2 DEF Marked
  <2> QED BY <2>1, <1>2, FailedIs
<1>3. CASE "parts" \in props /\ o.parts \subseteq DOMAIN s.composites
  <2>p. PICK p : p = o.parts
    OBVIOUS
  <2>1. h = MarkComposites(s, p, b)
    BY <1>3, <2>p DEF Marked
  <2>2. /\ Tabled(h) /\ (Done(h) <=> Done(s)) /\ h.next = s.next
        /\ h.items = s.items /\ h.docs = s.docs
        /\ \A c : c \in DOMAIN h.composites <=> c \in DOMAIN s.composites
        /\ \A c \in DOMAIN s.composites :
             /\ h.composites[c].pid = s.composites[c].pid
             /\ h.composites[c].doc = s.composites[c].doc
             /\ h.composites[c].deleted =
                  IF c \in p THEN b ELSE s.composites[c].deleted
    BY <2>1, MarkedIs
  <2>3. ASSUME NEW c \in DOMAIN s.composites, c \notin p
        PROVE  h.composites[c] = s.composites[c]
    <3>1. h.composites[c] \in PartRecords /\ s.composites[c] \in PartRecords
      BY <2>2 DEF Tabled
    <3>2. /\ h.composites[c].pid = s.composites[c].pid
          /\ h.composites[c].doc = s.composites[c].doc
          /\ h.composites[c].deleted = s.composites[c].deleted
      BY <2>2, <2>3
    <3> QED BY <3>1, <3>2 DEF PartRecords
  <2> QED BY <2>2, <2>3, <2>p, <1>3 DEF MarksParts
<1> QED BY <1>1, <1>2, <1>3

VirtualOf(o, n, b) ==
  [o EXCEPT !.attrs = @ \cup props,
            !.doc = IF DocIsNew(o) THEN n ELSE @,
            !.own = IF DocIsNew(o) THEN {NoBytes} ELSE @,
            !.deleted = b]

IsVirtualOf(x, o, n, b) ==
  /\ x \in ItemRecords
  /\ \A a : a \in x.attrs <=> a \in o.attrs \/ a \in props
  /\ x.doc = IF DocIsNew(o) THEN n ELSE o.doc
  /\ x.own = IF DocIsNew(o) THEN {NoBytes} ELSE o.own
  /\ x.parts = o.parts /\ x.deleted = b

\* The record of an item whose attributes are read for the first time since
\* its schema changed.
LEMMA VirtualOfIs ==
  ASSUME NEW o \in ItemRecords, NEW n \in Nat, NEW b \in BOOLEAN,
         \A a \in props : a \in Attributes, NoBytes \in Contents,
         NEW x, x = VirtualOf(o, n, b)
  PROVE  IsVirtualOf(x, o, n, b)
<1>d. PICK d : d = IF DocIsNew(o) THEN n ELSE o.doc
  OBVIOUS
<1>v. PICK v : v = IF DocIsNew(o) THEN {NoBytes} ELSE o.own
  OBVIOUS
<1>a. PICK a : a = o.attrs \cup props
  OBVIOUS
<1>1. x = [o EXCEPT !.attrs = a, !.doc = d, !.own = v, !.deleted = b]
  BY <1>d, <1>v, <1>a DEF VirtualOf, ItemRecords
<1>2. x = [attrs |-> a, doc |-> d, own |-> v, parts |-> o.parts, deleted |-> b]
  BY <1>1 DEF ItemRecords
<1>3. /\ a \in SUBSET Attributes /\ d \in Nat /\ v \in SUBSET Contents
      /\ o.parts \in SUBSET Nat
  <2>1. /\ o.attrs \in SUBSET Attributes /\ o.parts \in SUBSET Nat
        /\ o.doc \in Nat /\ o.own \in SUBSET Contents
    BY DEF ItemRecords
  <2>2. d \in Nat /\ v \in SUBSET Contents
    BY <2>1, <1>d, <1>v
  <2> QED BY <2>1, <2>2, <1>a
<1>4. /\ x.attrs = a /\ x.doc = d /\ x.own = v /\ x.parts = o.parts
      /\ x.deleted = b
  BY <1>2
<1>5. x \in ItemRecords
  BY <1>2, <1>3 DEF ItemRecords
<1>6. \A c : c \in x.attrs <=> c \in o.attrs \/ c \in props
  BY <1>4, <1>a
<1> QED BY <1>4, <1>5, <1>6, <1>d, <1>v DEF IsVirtualOf

\* What WithVirtual writes over the tables h.
VirtualWritten(h, r, i, o, x) ==
  /\ Tabled(r) /\ (Done(r) <=> Done(h))
  /\ r.next = IF DocIsNew(o) THEN h.next + 1 ELSE h.next
  /\ r.docs = h.docs /\ r.composites = h.composites
  /\ \A j : j \in DOMAIN r.items <=> j \in DOMAIN h.items \/ j = i
  /\ r.items[i] = x
  /\ \A j \in DOMAIN h.items : j # i => r.items[j] = h.items[j]

\* Reading such attributes stores nothing but that record.
LEMMA WithVirtualIs ==
  ASSUME NEW h, Tabled(h), NEW i, NEW o, o = h.items[i], NEW b,
         NEW x \in ItemRecords, x = VirtualOf(o, h.next, b),
         NEW r, r = WithVirtual(h, i, b)
  PROVE  VirtualWritten(h, r, i, o, x)
<1>g. PICK g : g = PutThing(h, i, x)
  OBVIOUS
<1>n. PICK n : n = IF DocIsNew(o) THEN 1 ELSE 0
  OBVIOUS
<1>1. /\ Tabled(g) /\ (Done(g) <=> Done(h)) /\ g.next = h.next
      /\ g.docs = h.docs /\ g.composites = h.composites
      /\ \A j : j \in DOMAIN g.items <=> j \in DOMAIN h.items \/ j = i
      /\ g.items[i] = x
      /\ \A j \in DOMAIN h.items : j # i => g.items[j] = h.items[j]
  BY <1>g, PutThingIs
<1>0. h.next \in Nat /\ g.next \in Nat /\ n \in Nat
  BY <1>1, <1>n DEF Tabled
<1>2. Fresh(h, 0) = h.next
  BY <1>0 DEF Fresh
<1>3. r = [g EXCEPT !.next = IF DocIsNew(o) THEN @ + 1 ELSE @]
  BY <1>g, <1>2 DEF WithVirtual, VirtualOf, DocIsNew
<1>4. r = Advanced(g, n)
  BY <1>3, <1>n, <1>0, <1>1 DEF Advanced, Tabled
<1>5. /\ Tabled(r) /\ (Done(r) <=> Done(g)) /\ r.next = g.next + n
      /\ r.docs = g.docs /\ r.composites = g.composites
      /\ r.items = g.items
  BY <1>4, <1>0, <1>1, AdvancedIs
<1> QED BY <1>1, <1>5, <1>n, <1>0 DEF VirtualWritten

Remarked(s, i, b) == WithVirtual(Marked(s, s.items[i], b), i, b)

\* Recycling and restoring an item differ in the mark alone.
LEMMA MethodsMark ==
  ASSUME NEW s, NEW i
  PROVE  /\ RecycleThing(s, i) = Remarked(s, i, TRUE)
         /\ UndeleteThing(s, i) = Remarked(s, i, FALSE)
<1>1. PICK o : o = s.items[i]
  OBVIOUS
<1>2. /\ HandleDelete(s, o, FALSE) = Marked(s, o, TRUE)
      /\ (IF "parts" \in props THEN RestoreComposites(s, o.parts) ELSE s)
           = Marked(s, o, FALSE)
  BY HandlersMark
<1>3. RecycleThing(s, i) = WithVirtual(HandleDelete(s, o, FALSE), i, TRUE)
  BY <1>1, Zenon DEF RecycleThing
<1>4. UndeleteThing(s, i) =
        WithVirtual(IF "parts" \in props THEN RestoreComposites(s, o.parts)
                    ELSE s, i, FALSE)
  BY <1>1, Zenon DEF UndeleteThing
<1>5. /\ Remarked(s, i, TRUE) = WithVirtual(Marked(s, o, TRUE), i, TRUE)
      /\ Remarked(s, i, FALSE) = WithVirtual(Marked(s, o, FALSE), i, FALSE)
  BY <1>1, Zenon DEF Remarked
<1> QED BY <1>2, <1>3, <1>4, <1>5, Zenon

\* Recycling or restoring an item marks its composites, and leaves its
\* document.
LEMMA RemarkedWrites ==
  ASSUME NEW s, NEW left, NEW common, Together(s, common, left),
         \A a \in props : a \in Attributes, NoBytes \in Contents,
         NEW i \in DOMAIN s.items, NEW b \in BOOLEAN,
         NEW r, r = Remarked(s, i, b)
  PROVE  /\ Done(r) => Together(r, common, left) /\ r.next <= s.next + 1
         /\ Done(s) /\ s.items[i].parts \subseteq DOMAIN s.composites => Done(r)
<1>o. PICK o : o = s.items[i]
  OBVIOUS
<1>s. /\ Tabled(s) /\ s.next \in Nat /\ 0 < s.next /\ i \in 1 .. s.next - 1
      /\ o \in ItemRecords /\ i \notin DOMAIN s.composites
  BY <1>o DEF Together, Tabled, AllGivenOut
<1>h. PICK h : h = Marked(s, o, b)
  OBVIOUS
<1>1. /\ Tabled(h) /\ (Done(h) => MarksParts(s, h, o, b))
      /\ Done(s) /\ o.parts \subseteq DOMAIN s.composites => Done(h)
  BY <1>s, <1>h, MarksPartsIs
<1>2. r = WithVirtual(h, i, b)
  BY <1>o, <1>h DEF Remarked
<1>3. h.items = s.items /\ h.next = s.next
  BY <1>h DEF Marked, Failed, MarkComposites, Tabled
<1>n. PICK n : n = h.next
  OBVIOUS
<1>x. PICK x : x = VirtualOf(o, n, b)
  OBVIOUS
<1>4. IsVirtualOf(x, o, n, b)
  BY <1>s, <1>n, <1>3, <1>x, VirtualOfIs
<1>5. /\ x \in ItemRecords
      /\ \A a : a \in x.attrs <=> a \in o.attrs \/ a \in props
      /\ x.doc = IF DocIsNew(o) THEN s.next ELSE o.doc
      /\ x.own = IF DocIsNew(o) THEN {NoBytes} ELSE o.own
      /\ x.parts = o.parts /\ x.deleted = b
  BY <1>4, <1>n, <1>3 DEF IsVirtualOf
<1>6. VirtualWritten(h, r, i, o, x)
  <2>1. o = h.items[i] /\ x = VirtualOf(o, h.next, b)
    BY <1>3, <1>o, <1>n, <1>x
  <2> QED BY <2>1, <1>1, <1>2, <1>5, WithVirtualIs
<1>7. /\ Tabled(r) /\ (Done(r) <=> Done(h))
      /\ r.next = IF DocIsNew(o) THEN s.next + 1 ELSE s.next
      /\ r.docs = h.docs /\ r.composites = h.composites
      /\ \A j : j \in DOMAIN r.items <=> j \in DOMAIN s.items \/ j = i
      /\ r.items[i] = x
      /\ \A j \in DOMAIN s.items : j # i => r.items[j] = s.items[j]
  BY <1>3, <1>6 DEF VirtualWritten
<1>8. ASSUME Done(r)
      PROVE  Together(r, common, left)
  <2>m. /\ h.docs = s.docs
        /\ \A c : c \in DOMAIN h.composites <=> c \in DOMAIN s.composites
        /\ \A c \in DOMAIN s.composites :
             /\ h.composites[c].pid = s.composites[c].pid
             /\ h.composites[c].doc = s.composites[c].doc
             /\ c \notin o.parts => h.composites[c] = s.composites[c]
             /\ "parts" \in props /\ c \in o.parts => h.composites[c].deleted = b
    BY <1>7, <1>8, <1>1 DEF MarksParts
  <2>d. /\ HasDoc(x) <=> HasDoc(o) \/ DocIsNew(o)
        /\ DocIsNew(o) => ~HasDoc(o)
    BY <1>5 DEF HasDoc, DocIsNew
  <2>t. HasDoc(o) => (o.doc \in DOMAIN s.docs) # (o.own # {})
    BY <1>o DEF Together, DocsThere
  <2>1. \A d : d \in DOMAIN r.docs <=>
          d \in DOMAIN s.docs \/ (HasDoc(x) /\ d = x.doc /\ x.own = {})
    <3>1. HasDoc(x) /\ x.own = {} => x.doc \in DOMAIN s.docs
      BY <2>d, <2>t, <1>5
    <3>2. r.docs = s.docs
      BY <1>7, <2>m
    <3> QED BY <3>1, <3>2
  <2>2. \A c \in x.parts : c \notin common =>
          /\ c \in DOMAIN s.composites /\ s.composites[c].pid = i
          /\ schemas = 0 => r.composites[c].deleted = x.deleted
    <3> SUFFICES ASSUME NEW c \in x.parts, c \notin common
                 PROVE  /\ c \in DOMAIN s.composites /\ s.composites[c].pid = i
                        /\ schemas = 0 => r.composites[c].deleted = x.deleted
      OBVIOUS
    <3>1. c \in o.parts
      BY <1>5
    <3>2. c \in DOMAIN s.composites /\ s.composites[c].pid = i
      BY <3>1, <1>o DEF Together, PartsThere
    <3>3. schemas = 0 => "parts" \in props
      BY <3>1, <1>o DEF Together, Schemed
    <3> QED BY <3>1, <3>2, <3>3, <2>m, <1>5, <1>7
  <2>3. Rewrites(s, r, i, x, common)
    <3>1. r.next >= s.next /\ i \in 1 .. r.next - 1
      BY <1>7, <1>s
    <3>2. /\ \A c : c \in DOMAIN r.composites <=> c \in DOMAIN s.composites
          /\ \A c \in DOMAIN s.composites :
               /\ r.composites[c].pid = s.composites[c].pid
               /\ r.composites[c].doc = s.composites[c].doc
               /\ c \notin x.parts => r.composites[c] = s.composites[c]
      BY <1>7, <1>5, <2>m
    <3> QED BY <3>1, <3>2, <2>1, <2>2, <1>s, <1>7 DEF Rewrites
  <2>4. RewrittenItem(s, r, i, x)
    <3>1. x.doc < r.next
      <4>1. o.doc < s.next /\ o.doc \in Nat
        BY <1>o, <1>s DEF Together, AllGivenOut, ItemRecords
      <4> QED BY <4>1, <1>5, <1>7, <1>s
    <3>2. "parts" \notin x.attrs => x.parts = {}
      BY <1>5, <1>o DEF Together, Schemed
    <3>3. schemas = 0 => x.attrs = props
      <4>1. schemas = 0 => o.attrs = props
        BY <1>o DEF Together, Schemed
      <4>2. o.attrs = props => x.attrs = props
        <5>1. x.attrs \in SUBSET Attributes
          BY <1>5 DEF ItemRecords
        <5> QED BY <5>1, <1>5
      <4> QED BY <4>1, <4>2
    <3>6. HasDoc(x) <=> x.doc # NoId
      <4>1. HasDoc(o) <=> o.doc # NoId
        BY <1>o DEF Together, AllGivenOut
      <4>2. s.next # NoId
        BY <1>s DEF NoId
      <4> QED BY <4>1, <4>2, <2>d, <1>5
    <3>4. HasDoc(x) =>
            /\ \A j \in DOMAIN s.items :
                 j # i /\ HasDoc(s.items[j]) => s.items[j].doc # x.doc
            /\ \A c \in DOMAIN s.composites : s.composites[c].doc # x.doc
            /\ x.own # {} => x.doc \notin DOMAIN s.docs
      <4>1. CASE DocIsNew(o)
        <5>1. x.doc = s.next
          BY <4>1, <1>5
        <5>3. \A j \in DOMAIN s.items : s.items[j].doc # s.next
          BY <1>s DEF Together, AllGivenOut, Tabled, ItemRecords
        <5>4. \A c \in DOMAIN s.composites : s.composites[c].doc # s.next
          BY <1>s DEF Together, AllGivenOut, Tabled, PartRecords
        <5>5. s.next \notin DOMAIN s.docs
          BY <1>s DEF Together, AllGivenOut
        <5> QED BY <5>1, <5>3, <5>4, <5>5
      <4>2. CASE ~DocIsNew(o) /\ HasDoc(x)
        <5>1. HasDoc(o) /\ x.doc = o.doc /\ x.own = o.own
          BY <4>2, <2>d, <1>5
        <5>2. /\ \A j \in DOMAIN s.items :
                   j # i /\ HasDoc(s.items[j]) => s.items[j].doc # o.doc
              /\ \A c \in DOMAIN s.composites : s.composites[c].doc # o.doc
          BY <5>1, <1>o DEF Together, AllGivenOut, DocsApart
        <5> QED BY <5>1, <5>2, <2>t
      <4> QED BY <4>1, <4>2
    <3>5. /\ s.items[i].parts = x.parts
          /\ HasDoc(s.items[i]) => HasDoc(x) /\ x.doc = s.items[i].doc
      BY <1>o, <1>5, <2>d
    <3> QED BY <3>1, <3>2, <3>3, <3>4, <3>5, <3>6 DEF RewrittenItem
  <2>5. \A c \in common : c \in common
    OBVIOUS
  <2> QED BY <2>3, <2>4, <2>5, RewritesTogether
<1>9. r.next <= s.next + 1
  BY <1>7, <1>s
<1> QED BY <1>1, <1>7, <1>8, <1>9, <1>o

\* What an item leaves behind when it is deleted.
LeftOf(s, o) ==
  (IF "doc" \in o.attrs \ props THEN {o.doc} ELSE {})
  \cup (IF "parts" \in o.attrs \ props
        THEN o.parts \cup {s.composites[c].doc :
                             c \in o.parts \cap DOMAIN s.composites}
        ELSE {})

\* What an item leaves behind when attributes of it have gone from its schema.
LEMMA LeftOfIs ==
  ASSUME NEW s, NEW o
  PROVE  /\ DocIsGone(o) => o.doc \in LeftOf(s, o)
         /\ "parts" \in o.attrs \ props =>
              \A c \in o.parts : c \in DOMAIN s.composites =>
                c \in LeftOf(s, o) /\ s.composites[c].doc \in LeftOf(s, o)
BY DEF LeftOf, DocIsGone

HandlersDelete(s, o) == HandleDelete(s, o, TRUE)
Dropped(t, i) == [t EXCEPT !.items = Without(@, {i})]

\* What the handlers delete: the document and the composites of the schema.
Deletes(s, t, o) ==
  /\ Tabled(t) /\ (Done(t) <=> Done(s)) /\ t.next = s.next /\ t.items = s.items
  /\ \A c : c \in DOMAIN t.composites <=>
       c \in DOMAIN s.composites /\ ~("parts" \in props /\ c \in o.parts)
  /\ \A c \in DOMAIN t.composites : t.composites[c] = s.composites[c]
  /\ \A d : d \in DOMAIN t.docs <=>
       /\ d \in DOMAIN s.docs /\ ~("doc" \in props /\ d = o.doc)
       /\ "parts" \in props => \A c \in o.parts : s.composites[c].doc # d

\* The handlers delete the document and the parts of an item, or raise.
LEMMA DeletesIs ==
  ASSUME NEW s, Tabled(s), NEW o, NEW t, t = HandlersDelete(s, o)
  PROVE  /\ Tabled(t) /\ (Done(t) => Deletes(s, t, o))
         /\ Done(s) /\ o.parts \subseteq DOMAIN s.composites => Done(t)
<1>u. PICK u : u = IF "doc" \in props THEN DeleteExternals(s, {o.doc}) ELSE s
  OBVIOUS
<1>p. PICK p : p = o.parts
  OBVIOUS
<1>1. /\ Tabled(u) /\ (Done(u) <=> Done(s)) /\ u.next = s.next
      /\ u.items = s.items /\ u.composites = s.composites
      /\ \A d : d \in DOMAIN u.docs <=>
           d \in DOMAIN s.docs /\ ~("doc" \in props /\ d = o.doc)
  <2>1. CASE "doc" \in props
    <3>k. PICK k : k = {o.doc}
      OBVIOUS
    <3>1. u = DeleteExternals(s, k)
      BY <2>1, <1>u, <3>k
    <3>2. /\ Tabled(u) /\ (Done(u) <=> Done(s)) /\ u.next = s.next
          /\ u.items = s.items /\ u.composites = s.composites
          /\ \A d : d \in DOMAIN u.docs <=> d \in DOMAIN s.docs /\ d \notin k
      BY <3>1, DeleteExternalsIs
    <3> QED BY <2>1, <3>2, <3>k
  <2>2. CASE "doc" \notin props
    BY <2>2, <1>u
  <2> QED BY <2>1, <2>2
<1>2. CASE "parts" \in props
  <2>1. t = Removed(u, p)
    BY <1>2, <1>u, <1>p DEF HandlersDelete, HandleDelete, RemoveExternals,
       Removed
  <2>2. Tabled(t) /\ (Done(t) => p \subseteq DOMAIN u.composites)
    BY <2>1, <1>1, RemovedTabled
  <2>3. ASSUME p \subseteq DOMAIN u.composites
        PROVE  Deletes(s, t, o)
    <3>0. Tabled(u)
      BY <1>1
    <3>1. /\ (Done(t) <=> Done(u)) /\ t.next = u.next /\ t.items = u.items
          /\ \A c : c \in DOMAIN t.composites <=>
               c \in DOMAIN u.composites /\ c \notin p
          /\ \A c \in DOMAIN t.composites : t.composites[c] = u.composites[c]
          /\ \A d : d \in DOMAIN t.docs <=>
               d \in DOMAIN u.docs /\ \A c \in p : u.composites[c].doc # d
      BY <3>0, <2>1, <2>3, RemovedIs
    <3> QED BY <3>1, <2>2, <1>1, <1>2, <1>p DEF Deletes
  <2>4. Done(s) /\ o.parts \subseteq DOMAIN s.composites => Done(t)
    BY <2>3, <1>1, <1>p DEF Deletes
  <2> QED BY <2>2, <2>3, <2>4
<1>3. CASE "parts" \notin props
  <2>1. t = u
    BY <1>3, <1>u DEF HandlersDelete, HandleDelete, RemoveExternals
  <2> QED BY <2>1, <1>1, <1>3 DEF Deletes
<1> QED BY <1>2, <1>3

\* The item is not there any more.
LEMMA DroppedIs ==
  ASSUME NEW t, Tabled(t), NEW i, NEW r, r = Dropped(t, i)
  PROVE  /\ Tabled(r) /\ (Done(r) <=> Done(t)) /\ r.next = t.next
         /\ r.docs = t.docs /\ r.composites = t.composites
         /\ \A j : j \in DOMAIN r.items <=> j \in DOMAIN t.items /\ j # i
         /\ \A j \in DOMAIN r.items : r.items[j] = t.items[j]
<1>c. PICK c0 : c0 = t.composites
  OBVIOUS
<1>d. PICK d0 : d0 = t.docs
  OBVIOUS
<1>g. PICK g : g = t.items
  OBVIOUS
<1>n. PICK n : n = {i}
  OBVIOUS
<1>f. PICK f : f = Without(g, n)
  OBVIOUS
<1>1. /\ IsTable(f)
      /\ \A j : j \in DOMAIN f <=> j \in DOMAIN g /\ j \notin n
      /\ \A j \in DOMAIN f : f[j] = g[j]
  BY <1>f, WithoutIs
<1>2. \A j \in DOMAIN f : f[j] \in ItemRecords
  BY <1>1, <1>g DEF Tabled
<1>3. ItemTable(f)
  BY <1>1, <1>2 DEF IsTable, ItemTable
<1>4. r = Rewritten(t, f, c0, d0)
  BY <1>c, <1>d, <1>g, <1>n, <1>f DEF Dropped, Rewritten, Tabled
<1>5. PartTable(c0) /\ DocTable(d0)
  BY <1>c, <1>d, TabledHas
<1>6. /\ Tabled(r) /\ r.items = f /\ r.composites = c0 /\ r.docs = d0
      /\ r.next = t.next /\ (Done(r) <=> Done(t))
  BY <1>3, <1>4, <1>5, RewrittenIs
<1> QED BY <1>1, <1>6, <1>c, <1>d, <1>g, <1>n

\* Deleting an item deletes its document and its composites, or leaves them
\* behind if its class has the attributes no more.
LEMMA DeleteWrites ==
  ASSUME NEW s, NEW left, NEW common, Together(s, common, left),
         NEW i \in DOMAIN s.items, NEW r, r = DeleteThing(s, i),
         NEW more, \A c \in left : c \in more,
         \A c \in LeftOf(s, s.items[i]) : c \in more
  PROVE  /\ Done(r) => Together(r, common, more) /\ r.next = s.next
         /\ Done(s) /\ s.items[i].parts \subseteq DOMAIN s.composites => Done(r)
<1>o. PICK o : o = s.items[i]
  OBVIOUS
<1>s. Tabled(s) /\ s.next \in Nat
  BY DEF Together, Tabled
<1>t. PICK t : t = HandlersDelete(s, o)
  OBVIOUS
<1>1. /\ Tabled(t) /\ (Done(t) => Deletes(s, t, o))
      /\ Done(s) /\ o.parts \subseteq DOMAIN s.composites => Done(t)
  BY <1>s, <1>t, DeletesIs
<1>2. r = Dropped(t, i)
  BY <1>o, <1>t DEF DeleteThing, HandlersDelete, Dropped
<1>3. /\ Tabled(r) /\ (Done(r) <=> Done(t)) /\ r.next = t.next
      /\ r.docs = t.docs /\ r.composites = t.composites
      /\ \A j : j \in DOMAIN r.items <=> j \in DOMAIN t.items /\ j # i
      /\ \A j \in DOMAIN r.items : r.items[j] = t.items[j]
  BY <1>1, <1>2, DroppedIs
<1>4. ASSUME Done(r)
      PROVE  Together(r, common, more) /\ r.next = s.next
  <2>i. /\ r.next = s.next
        /\ \A j : j \in DOMAIN r.items <=> j \in DOMAIN s.items /\ j # i
        /\ \A j \in DOMAIN r.items : r.items[j] = s.items[j]
    BY <1>1, <1>3, <1>4 DEF Deletes
  <2>c. /\ \A c : c \in DOMAIN r.composites <=>
             c \in DOMAIN s.composites /\ ~("parts" \in props /\ c \in o.parts)
        /\ \A c \in DOMAIN r.composites : r.composites[c] = s.composites[c]
    BY <1>1, <1>3, <1>4 DEF Deletes
  <2>d. \A d : d \in DOMAIN r.docs <=>
          /\ d \in DOMAIN s.docs /\ ~("doc" \in props /\ d = o.doc)
          /\ "parts" \in props => \A c \in o.parts : s.composites[c].doc # d
    BY <1>1, <1>3, <1>4 DEF Deletes
  <2>n. /\ HasDoc(o) <=> o.doc # NoId
        /\ NoId \notin DOMAIN s.docs
    BY <1>o DEF Together, AllGivenOut, NoId
  <2>p. "parts" \in props =>
          \A c \in o.parts : c \in DOMAIN s.composites
    <3>1. "parts" \in props =>
            Done(t)
      BY <1>3, <1>4, <1>t
    <3>u. PICK u : u = IF "doc" \in props THEN DeleteExternals(s, {o.doc}) ELSE s
      OBVIOUS
    <3>q. PICK q : q = o.parts
      OBVIOUS
    <3>2. u.composites = s.composites /\ Tabled(u)
      <4>k. PICK k : k = {o.doc}
        OBVIOUS
      <4>1. "doc" \in props => u = DeleteExternals(s, k)
        BY <3>u, <4>k
      <4>2. "doc" \in props => u.composites = s.composites /\ Tabled(u)
        BY <4>1, <1>s, DeleteExternalsIs
      <4> QED BY <4>2, <3>u, <1>s
    <3>3. "parts" \in props => t = Removed(u, q)
      BY <1>t, <3>u, <3>q DEF HandlersDelete, HandleDelete, RemoveExternals,
         Removed
    <3>4. "parts" \in props => q \subseteq DOMAIN u.composites
      BY <3>1, <3>2, <3>3, RemovedTabled
    <3> QED BY <3>2, <3>4, <3>q
  <2>1. AllGivenOut(r)
    BY <2>i, <2>c, <2>d DEF Together, AllGivenOut
  <2>2. DocsApart(r)
    BY <2>i, <2>c DEF Together, DocsApart
  <2>3. DocsBelong(r, more)
    <3> SUFFICES ASSUME NEW d \in DOMAIN r.docs, d \notin more
                 PROVE  \/ \E j \in DOMAIN r.items :
                             HasDoc(r.items[j]) /\ r.items[j].doc = d
                        \/ \E c \in DOMAIN r.composites : r.composites[c].doc = d
      BY DEF DocsBelong
    <3>0. /\ d \in DOMAIN s.docs /\ ~("doc" \in props /\ d = o.doc)
          /\ "parts" \in props => \A c \in o.parts : s.composites[c].doc # d
          /\ d \notin left /\ d \notin LeftOf(s, o)
      BY <2>d, <1>o
    <3>2. \/ \E j \in DOMAIN s.items : HasDoc(s.items[j]) /\ s.items[j].doc = d
          \/ \E c \in DOMAIN s.composites : s.composites[c].doc = d
      BY <3>0 DEF Together, DocsBelong
    <3>3. CASE \E j \in DOMAIN s.items : HasDoc(s.items[j]) /\ s.items[j].doc = d
      <4>1. PICK j \in DOMAIN s.items : HasDoc(s.items[j]) /\ s.items[j].doc = d
        BY <3>3
      <4>2. j # i
        <5>1. ~(HasDoc(o) /\ d = o.doc)
          BY <3>0, LeftOfIs DEF HasDoc, DocIsGone
        <5> QED BY <4>1, <5>1, <1>o
      <4> QED BY <4>1, <4>2, <2>i
    <3>4. CASE \E c \in DOMAIN s.composites : s.composites[c].doc = d
      <4>1. PICK c \in DOMAIN s.composites : s.composites[c].doc = d
        BY <3>4
      <4>2. c \in DOMAIN r.composites
        BY <4>1, <3>0, <2>c
      <4> QED BY <4>1, <4>2, <2>c
    <3> QED BY <3>2, <3>3, <3>4
  <2>4. DocsThere(r)
    <3>1. ASSUME NEW j \in DOMAIN r.items, HasDoc(r.items[j])
          PROVE  (r.items[j].doc \in DOMAIN r.docs) # (r.items[j].own # {})
      <4>0. j \in DOMAIN s.items /\ r.items[j] = s.items[j] /\ j # i
        BY <3>1, <2>i
      <4>d. PICK d : d = s.items[j].doc
        OBVIOUS
      <4>1. (d \in DOMAIN s.docs) # (s.items[j].own # {})
        BY <3>1, <4>0, <4>d DEF Together, DocsThere
      <4>2. d # o.doc
        <5>1. HasDoc(o) => d # o.doc
          BY <3>1, <4>0, <4>d, <1>o DEF Together, DocsApart
        <5>2. d # NoId
          BY <3>1, <4>0, <4>d DEF Together, AllGivenOut
        <5> QED BY <5>1, <5>2, <2>n
      <4>3. "parts" \in props => \A c \in o.parts : s.composites[c].doc # d
        BY <3>1, <4>0, <4>d, <2>p DEF Together, DocsApart
      <4>4. d \in DOMAIN r.docs <=> d \in DOMAIN s.docs
        BY <4>2, <4>3, <2>d
      <4> QED BY <4>0, <4>1, <4>4, <4>d
    <3>2. ASSUME NEW c \in DOMAIN r.composites
          PROVE  r.composites[c].doc \in DOMAIN r.docs
      <4>0. /\ c \in DOMAIN s.composites /\ ~("parts" \in props /\ c \in o.parts)
            /\ r.composites[c] = s.composites[c]
        BY <3>2, <2>c
      <4>d. PICK d : d = s.composites[c].doc
        OBVIOUS
      <4>1. d \in DOMAIN s.docs
        BY <4>0, <4>d DEF Together, DocsThere
      <4>2. d # o.doc
        <5>1. HasDoc(o) => d # o.doc
          BY <4>0, <4>d, <1>o DEF Together, DocsApart
        <5> QED BY <4>1, <5>1, <2>n
      <4>3. "parts" \in props => \A e \in o.parts : s.composites[e].doc # d
        BY <4>0, <4>d, <2>p DEF Together, DocsApart
      <4> QED BY <4>0, <4>1, <4>2, <4>3, <4>d, <2>d
    <3> QED BY <3>1, <3>2 DEF DocsThere
  <2>5. PartsThere(r, common)
    <3> SUFFICES ASSUME NEW j \in DOMAIN r.items, NEW c \in r.items[j].parts,
                        c \notin common
                 PROVE  /\ c \in DOMAIN r.composites
                        /\ r.composites[c].pid = j
                        /\ schemas = 0 =>
                             r.composites[c].deleted = r.items[j].deleted
      BY DEF PartsThere
    <3>1. j \in DOMAIN s.items /\ j # i /\ r.items[j] = s.items[j]
      BY <2>i
    <3>2. /\ c \in DOMAIN s.composites /\ s.composites[c].pid = j
          /\ schemas = 0 => s.composites[c].deleted = s.items[j].deleted
      BY <3>1 DEF Together, PartsThere
    <3>3. c \notin o.parts
      <4>1. c \in o.parts => s.composites[c].pid = i
        BY <1>o DEF Together, PartsThere
      <4> QED BY <4>1, <3>1, <3>2
    <3>4. c \in DOMAIN r.composites
      BY <3>2, <3>3, <2>c
    <3> QED BY <3>1, <3>2, <3>4, <2>c
  <2>6. PartsBelong(r, common, more)
    <3> SUFFICES ASSUME NEW c \in DOMAIN r.composites, c \notin more,
                        c \notin common
                 PROVE  \E j \in DOMAIN r.items : c \in r.items[j].parts
      BY DEF PartsBelong
    <3>1. /\ c \in DOMAIN s.composites /\ c \notin left /\ c \notin LeftOf(s, o)
          /\ ~("parts" \in props /\ c \in o.parts)
      BY <2>c, <1>o
    <3>2. PICK j \in DOMAIN s.items : c \in s.items[j].parts
      BY <3>1 DEF Together, PartsBelong
    <3>3. c \notin o.parts
      <4>1. "parts" \notin o.attrs => o.parts = {}
        BY <1>o DEF Together, Schemed
      <4> QED BY <4>1, <3>1, LeftOfIs
    <3> QED BY <3>2, <3>3, <2>i, <1>o
  <2>7. Schemed(r)
    BY <2>i DEF Together, Schemed
  <2> QED BY <2>1, <2>2, <2>3, <2>4, <2>5, <2>6, <2>7, <2>i, <1>3 DEF Together
<1> QED BY <1>1, <1>3, <1>4, <1>o

\* What holds of what was committed holds of the next state.
LEMMA TogetherKept ==
  ASSUME NEW r, NEW common, NEW left, Together(r, common, left),
         props' = props, schemas' = schemas,
         saved' = r, shared' = common, lost' = left
  PROVE  Together(saved, shared, lost)'
BY DEF Together, PartsThere, Schemed

\* AttInv holds in a store without items.
LEMMA InitTogether == AttachmentsInit => AttInv
<1> SUFFICES ASSUME AttachmentsInit
             PROVE  AttInv
  OBVIOUS
<1>1. /\ saved.items = <<>> /\ saved.composites = <<>> /\ saved.docs = <<>>
      /\ saved.next = 1 /\ saved.ok
      /\ props \in SUBSET Attributes /\ schemas = 0 /\ call = NoCall
  BY DEF AttachmentsInit
<1>2. DOMAIN <<>> = {} /\ \A S : <<>> \in [DOMAIN <<>> -> S]
  OBVIOUS
<1>3. Tabled(saved)
  <2>1. saved = [items |-> saved.items, composites |-> saved.composites,
                 docs |-> saved.docs, next |-> saved.next, ok |-> saved.ok]
    BY DEF AttachmentsInit
  <2>2. ItemTable(saved.items) /\ PartTable(saved.composites)
        /\ DocTable(saved.docs)
    BY <1>1, <1>2 DEF ItemTable, PartTable, DocTable
  <2>3. saved.ok \in BOOLEAN /\ saved.next \in Nat \ {0}
    BY <1>1
  <2> QED BY <2>1, <2>2, <2>3 DEF Tabled, ItemTable, PartTable, DocTable
<1>4. /\ \A i : i \notin DOMAIN saved.items
      /\ \A c : c \notin DOMAIN saved.composites
      /\ \A d : d \notin DOMAIN saved.docs
  BY <1>1, <1>2
<1>5. Together(saved, shared, lost)
  <2>1. AllGivenOut(saved)
    BY <1>4 DEF AllGivenOut
  <2>2. DocsApart(saved) /\ DocsBelong(saved, lost) /\ DocsThere(saved)
    BY <1>4 DEF DocsApart, DocsBelong, DocsThere
  <2>3. PartsThere(saved, shared) /\ PartsBelong(saved, shared, lost)
        /\ Schemed(saved)
    BY <1>4 DEF PartsThere, PartsBelong, Schemed
  <2> QED BY <1>3, <2>1, <2>2, <2>3 DEF Together
<1>6. saved.next <= MaxIds + 1
  BY <1>1, AttachmentsAssumption
<1> QED BY <1>1, <1>5, <1>6 DEF AttInv

\* What a call leaves when no other one runs.
AtRest ==
  /\ props \in SUBSET Attributes /\ schemas \in Nat
  /\ saved.ok /\ saved.next <= MaxIds + 1
  /\ Together(saved, shared, lost)

\* AttInv speaks of what is stored and, in a call, of what the call was given.
LEMMA AttInvParts == AttInv <=> AtRest /\ (call = NoCall \/ CallGiven)
BY DEF AttInv, AtRest

\* A new version of the schema changes nothing that is stored.
LEMMA ChangeSchemaKeeps ==
  ASSUME AttInv, ChangeSchema
  PROVE  AttInv'
<1>1. /\ props' \in SUBSET Attributes /\ schemas' = schemas + 1
      /\ saved' = saved /\ shared' = shared /\ lost' = lost
      /\ call' = call /\ call = NoCall /\ schemas \in Nat
  BY DEF ChangeSchema, AttInv
<1>2. schemas' \in Nat /\ schemas' # 0
  BY <1>1
<1>3. Together(saved, shared, lost)
  BY DEF AttInv
<1>4. Together(saved, shared, lost)'
  BY <1>1, <1>2, <1>3 DEF Together, PartsThere, Schemed
<1> QED BY <1>1, <1>2, <1>4 DEF AttInv

\* The result of a call that is not interrupted.
LEMMA ResultKeeps ==
  ASSUME AtRest, NEW r, CommitResult(r), NEW common, NEW left,
         Done(r) => /\ Together(r, common, left) /\ r.next <= MaxIds + 1
                    /\ shared' = common /\ lost' = left,
         ~Done(r) => shared' = shared /\ lost' = lost,
         props' = props, schemas' = schemas
  PROVE  AtRest'
<1>1. CASE Done(r)
  <2>1. saved' = r /\ r.ok
    BY <1>1 DEF CommitResult, Done
  <2>2. Together(saved, shared, lost)'
    BY <1>1, <2>1, TogetherKept
  <2> QED BY <1>1, <2>1, <2>2 DEF AtRest
<1>2. CASE ~Done(r)
  <2>1. saved' = saved
    BY <1>2 DEF CommitResult, Done
  <2>0. Together(saved, shared, lost)
    BY DEF AtRest
  <2>2. Together(saved, shared, lost)'
    BY <1>2, <2>0, <2>1, TogetherKept
  <2> QED BY <1>2, <2>1, <2>2 DEF AtRest
<1> QED BY <1>1, <1>2

\* A copy has a document of its own and shares the composites.
LEMMA CopyKeeps ==
  ASSUME AttInv, NEW i \in DOMAIN saved.items, CopyIt(i)
  PROVE  AttInv'
<1>0. /\ AtRest /\ Together(saved, shared, lost)
      /\ (\A a \in props : a \in Attributes) /\ NoBytes \in Contents
      /\ saved.next \in Nat /\ MaxIds \in Nat
  BY AttInvParts, AttachmentsAssumption DEF AtRest, Together, Tabled
<1>r. PICK r : r = CopyThing(saved, i)
  OBVIOUS
<1>m. PICK m : m = shared \cup saved.items[i].parts
  OBVIOUS
<1>1. /\ CommitResult(r) /\ props' = props /\ schemas' = schemas
      /\ call' = NoCall /\ lost' = lost /\ ~saved.items[i].deleted
      /\ saved.next + 2 <= MaxIds + 1
      /\ shared' = IF Done(r) THEN m ELSE shared
  BY <1>r, <1>m DEF CopyIt, Room, Done
<1>2. Done(r) => Together(r, m, lost) /\ r.next = saved.next + 2
  BY <1>0, <1>1, <1>r, <1>m, CopyWrites
<1>3. AtRest'
  <2>1. Done(r) => /\ Together(r, m, lost) /\ r.next <= MaxIds + 1
                   /\ shared' = m /\ lost' = lost
    BY <1>0, <1>1, <1>2
  <2>2. ~Done(r) => shared' = shared /\ lost' = lost
    BY <1>1
  <2> QED BY <2>1, <2>2, <1>0, <1>1, ResultKeeps
<1> QED BY <1>1, <1>3 DEF AttInv, AtRest

\* Marking an item and its parts keeps them together.
LEMMA RemarkedKeeps ==
  ASSUME AttInv, NEW i \in DOMAIN saved.items, NEW b \in BOOLEAN,
         NEW r, r = Remarked(saved, i, b), CommitResult(r), Room(1),
         UNCHANGED <<props, schemas, call, shared, lost>>, call = NoCall
  PROVE  AttInv'
<1>0. /\ AtRest /\ Together(saved, shared, lost)
      /\ (\A a \in props : a \in Attributes) /\ NoBytes \in Contents
      /\ saved.next \in Nat /\ MaxIds \in Nat
  BY AttInvParts, AttachmentsAssumption DEF AtRest, Together, Tabled
<1>1. /\ props' = props /\ schemas' = schemas /\ call' = NoCall
      /\ shared' = shared /\ lost' = lost
      /\ saved.next + 1 <= MaxIds + 1
  BY DEF Room
<1>2. Done(r) => Together(r, shared, lost) /\ r.next <= saved.next + 1
  BY <1>0, RemarkedWrites
<1>3. AtRest'
  <2>0. Done(r) => r.next \in Nat
    BY <1>2 DEF Together, Tabled
  <2>1. Done(r) => /\ Together(r, shared, lost) /\ r.next <= MaxIds + 1
                   /\ shared' = shared /\ lost' = lost
    BY <1>0, <1>1, <1>2, <2>0
  <2>2. ~Done(r) => shared' = shared /\ lost' = lost
    BY <1>1
  <2> QED BY <2>1, <2>2, <1>0, <1>1, ResultKeeps
<1> QED BY <1>1, <1>3 DEF AttInv, AtRest

\* Recycling and restoring an item keep its attributes together.
LEMMA RecycleKeeps ==
  ASSUME AttInv, NEW i \in DOMAIN saved.items, RecycleIt(i) \/ UndeleteIt(i)
  PROVE  AttInv'
<1>1. CASE RecycleIt(i)
  <2>b. PICK b \in BOOLEAN : b = TRUE
    OBVIOUS
  <2>r. PICK r : r = Remarked(saved, i, b)
    OBVIOUS
  <2>1. RecycleThing(saved, i) = r
    BY <2>b, <2>r, MethodsMark
  <2>2. /\ CommitResult(r) /\ Room(1) /\ call = NoCall
        /\ UNCHANGED <<props, schemas, call, shared, lost>>
    BY <1>1, <2>1 DEF RecycleIt
  <2> QED BY <2>r, <2>2, RemarkedKeeps
<1>2. CASE UndeleteIt(i)
  <2>b. PICK b \in BOOLEAN : b = FALSE
    OBVIOUS
  <2>r. PICK r : r = Remarked(saved, i, b)
    OBVIOUS
  <2>1. UndeleteThing(saved, i) = r
    BY <2>b, <2>r, MethodsMark
  <2>2. /\ CommitResult(r) /\ Room(1) /\ call = NoCall
        /\ UNCHANGED <<props, schemas, call, shared, lost>>
    BY <1>2, <2>1 DEF UndeleteIt
  <2> QED BY <2>r, <2>2, RemarkedKeeps
<1> QED BY <1>1, <1>2

\* Deleting an item takes what is its own and leaves the rest as it was.
LEMMA DeleteKeeps ==
  ASSUME AttInv, NEW i \in DOMAIN saved.items, DeleteIt(i)
  PROVE  AttInv'
<1>0. /\ AtRest /\ Together(saved, shared, lost)
  BY AttInvParts DEF AtRest
<1>r. PICK r : r = DeleteThing(saved, i)
  OBVIOUS
<1>m. PICK m : m = lost \cup LeftOf(saved, saved.items[i])
  OBVIOUS
<1>1. /\ CommitResult(r) /\ props' = props /\ schemas' = schemas
      /\ call' = NoCall /\ shared' = shared
      /\ lost' = IF Done(r) THEN m ELSE lost
  BY <1>r, <1>m DEF DeleteIt, Done, Left, LeftOf
<1>2. Done(r) => Together(r, shared, m) /\ r.next = saved.next
  <2>1. /\ \A c \in lost : c \in m
        /\ \A c \in LeftOf(saved, saved.items[i]) : c \in m
    BY <1>m
  <2> QED BY <2>1, <1>0, <1>r, DeleteWrites
<1>3. AtRest'
  <2>1. Done(r) => /\ Together(r, shared, m) /\ r.next <= MaxIds + 1
                   /\ shared' = shared /\ lost' = m
    BY <1>0, <1>1, <1>2 DEF AtRest
  <2>2. ~Done(r) => shared' = shared /\ lost' = lost
    BY <1>1
  <2> QED BY <2>1, <2>2, <1>0, <1>1, ResultKeeps
<1> QED BY <1>1, <1>3 DEF AttInv, AtRest

\* The attempt of the call is committed: what it was given is stored.
LEMMA AttemptKeeps ==
  ASSUME AttInv, CommitAttempt
  PROVE  /\ AttInv'
         /\ saved' # saved /\ call.set => DocKept(saved', call.item, call.doc)
<1>0. /\ AtRest /\ Together(saved, shared, lost)
      /\ (\A a \in props : a \in Attributes) /\ NoBytes \in Contents
      /\ saved.next \in Nat /\ MaxIds \in Nat /\ saved.next <= MaxIds + 1
  BY AttInvParts, AttachmentsAssumption DEF AtRest, Together, Tabled
<1>1. /\ call # NoCall /\ CommitResult(Attempt(call)) /\ call' = NoCall
      /\ props' = props /\ schemas' = schemas
      /\ shared' = shared /\ lost' = lost
  BY DEF CommitAttempt
<1>2. /\ CallRecorded
      /\ call.at = "create" => CreateGiven
      /\ call.at = "update" => UpdateGiven
  BY <1>1, AttInvParts DEF CallGiven
<1>i. PICK i : i = call.item
  OBVIOUS
<1>d. PICK doc : doc = call.doc
  OBVIOUS
<1>l. PICK list : list = call.list
  OBVIOUS
<1>o. PICK f : f = list.objects
  OBVIOUS
<1>r. PICK r : r = Attempt(call)
  OBVIOUS
<1>3. /\ doc \in InMemories /\ (doc.dirty <=> call.set)
      /\ call.at \in {"create", "update"}
  BY <1>2, <1>d DEF CallRecorded
<1>4. ASSUME Done(r)
      PROVE  /\ Together(r, shared, lost) /\ r.next <= MaxIds + 1
             /\ doc.dirty => DocKept(r, i, doc)
  <2>1. CASE call.at = "create"
    <3>1. /\ i \in 1 .. saved.next - 1
          /\ i \notin DOMAIN saved.items /\ i \notin DOMAIN saved.composites
          /\ doc.dirty /\ Unclaimed(saved, doc.id)
          /\ PartsGiven(saved, i, {}, f)
          /\ \A c \in DOMAIN f : f[c].doc.id # doc.id
      BY <2>1, <1>2, <1>3, <1>i, <1>d, <1>l, <1>o DEF CreateGiven
    <3>2. r = CreateThing(saved, i, doc, f)
      BY <2>1, <1>i, <1>d, <1>l, <1>o, <1>r DEF Attempt
    <3>3. Together(r, shared, lost) /\ r.next = saved.next /\ DocKept(r, i, doc)
      BY <3>1, <3>2, <1>0, <1>3, <1>4, CreateWrites
    <3> QED BY <3>3, <1>0
  <2>2. CASE call.at = "update"
    <3>1. /\ i \in DOMAIN saved.items /\ ~saved.items[i].deleted
          /\ list.ids \subseteq saved.items[i].parts
          /\ PartsGiven(saved, i, saved.items[i].parts, list.objects)
          /\ saved.next <= MaxIds
      BY <2>2, <1>2, <1>i, <1>l DEF UpdateGiven
    <3>2. r = UpdateThing(saved, i, doc, list)
      BY <2>2, <1>i, <1>d, <1>l, <1>r DEF Attempt
    <3>3. /\ Together(r, shared, lost)
          /\ r.next <= saved.next + 1
          /\ doc.dirty => DocKept(r, i, doc)
      BY <3>1, <3>2, <1>0, <1>3, <1>4, UpdateWrites
    <3>4. r.next \in Nat
      BY <3>3 DEF Together, Tabled
    <3> QED BY <3>1, <3>3, <3>4, <1>0
  <2> QED BY <2>1, <2>2, <1>3
<1>5. AtRest'
  <2>1. Done(r) => /\ Together(r, shared, lost) /\ r.next <= MaxIds + 1
                   /\ shared' = shared /\ lost' = lost
    BY <1>1, <1>4
  <2>2. (~Done(r) => shared' = shared /\ lost' = lost) /\ CommitResult(r)
    BY <1>1, <1>r
  <2> QED BY <2>1, <2>2, <1>0, <1>1, ResultKeeps
<1>6. saved' # saved /\ call.set => DocKept(saved', call.item, call.doc)
  <2>1. saved' # saved => Done(r) /\ saved' = r
    BY <1>1, <1>r DEF CommitResult, Done
  <2> QED BY <2>1, <1>3, <1>4, <1>i, <1>d
<1> QED BY <1>1, <1>5, <1>6 DEF AttInv, AtRest

\* A call that is attempted again gets what it got before.
LEMMA AbortKeeps ==
  ASSUME AttInv, AbortAttempt
  PROVE  AttInv'
<1>1. /\ call # NoCall /\ props' = props /\ schemas' = schemas
      /\ saved' = saved /\ shared' = shared /\ lost' = lost
      /\ \/ call' = NoCall
         \/ call' = [call EXCEPT !.tries = @ + 1]
  BY DEF AbortAttempt, Passed
<1>2. AtRest'
  <2>1. AtRest /\ Together(saved, shared, lost)
    BY AttInvParts DEF AtRest
  <2>2. Together(saved, shared, lost)'
    BY <1>1, <2>1, TogetherKept
  <2> QED BY <1>1, <2>1, <2>2 DEF AtRest
<1>3. CASE call' = NoCall
  BY <1>2, <1>3 DEF AttInv, AtRest
<1>4. CASE call' = [call EXCEPT !.tries = @ + 1]
  <2>0. CallGiven
    BY <1>1, AttInvParts
  <2>1. PICK a, i, b, v, d, l, n :
          call = [at |-> a, item |-> i, set |-> b, value |-> v, doc |-> d,
                  list |-> l, tries |-> n]
    BY <2>0 DEF CallGiven, CallRecorded
  <2>2. call' = [at |-> a, item |-> i, set |-> b, value |-> v, doc |-> d,
                 list |-> l, tries |-> n + 1]
    BY <1>4, <2>1
  <2>3. /\ call'.at = call.at /\ call'.item = call.item /\ call'.set = call.set
        /\ call'.value = call.value /\ call'.doc = call.doc
        /\ call'.list = call.list /\ call'.tries = n + 1 /\ call.tries = n
    BY <2>1, <2>2
  <2>4. CallRecorded'
    <3>1. l = Given(l.ids, l.objects)
      BY <2>0, <2>1 DEF CallGiven, CallRecorded, Given
    <3>2. call' = [at |-> call'.at, item |-> call'.item, set |-> call'.set,
                   value |-> call'.value, doc |-> call'.doc,
                   list |-> call'.list, tries |-> call'.tries]
      BY <2>2
    <3>3. call'.list = Given(call'.list.ids, call'.list.objects)
      BY <2>1, <2>3, <3>1
    <3>4. call'.tries \in Nat
      BY <2>0, <2>3 DEF CallGiven, CallRecorded
    <3> QED BY <2>0, <2>3, <3>2, <3>3, <3>4 DEF CallGiven, CallRecorded
  <2>5. call.at = "create" => CreateGiven'
    BY <2>0, <2>3, <1>1 DEF CallGiven, CreateGiven
  <2>6. call.at = "update" => UpdateGiven'
    BY <2>0, <2>3, <1>1 DEF CallGiven, UpdateGiven
  <2>7. CallGiven'
    BY <2>3, <2>4, <2>5, <2>6 DEF CallGiven
  <2> QED BY <1>2, <2>7 DEF AttInv, AtRest
<1> QED BY <1>1, <1>3, <1>4

\* Composites that are made for a call.
IsNew(objects, first, n, value) ==
  /\ objects \in [DOMAIN objects -> PartsInMemory]
  /\ \A c : c \in DOMAIN objects <=> n = 1 /\ c = first
  /\ \A c \in DOMAIN objects :
       /\ objects[c].doc.id = first + 1 /\ objects[c].doc.dirty
       /\ ~objects[c].deleted

\* Composites that a call creates have ids that nothing has.
LEMMA NewCompositesAre ==
  ASSUME NEW first \in Nat, NEW n \in 0 .. 1, NEW value \in Contents,
         NEW objects, objects = NewComposites(first, n, value)
  PROVE  IsNew(objects, first, n, value)
<1>1. \A c : c \in {first + 2 * k : k \in 0 .. n - 1} <=> n = 1 /\ c = first
  <2>1. CASE n = 0
    BY <2>1
  <2>2. CASE n = 1
    <3>1. \A k : k \in 0 .. n - 1 <=> k = 0
      BY <2>2
    <3>2. first + 2 * 0 = first
      OBVIOUS
    <3> QED BY <3>1, <3>2, <2>2
  <2> QED BY <2>1, <2>2
<1>2. \A c : c \in DOMAIN objects <=> n = 1 /\ c = first
  BY <1>1 DEF NewComposites
<1>3. ASSUME NEW c \in DOMAIN objects
      PROVE  objects[c] = [pid |-> 0, doc |-> [id |-> first + 1, value |-> value,
                                              dirty |-> TRUE],
                           deleted |-> FALSE]
  BY <1>2 DEF NewComposites, Composite, InMemory, NoId
<1>4. ASSUME NEW c \in DOMAIN objects
      PROVE  /\ objects[c] \in PartsInMemory
             /\ objects[c].doc.id = first + 1 /\ objects[c].doc.dirty
             /\ ~objects[c].deleted
  <2>d. PICK d : d = [id |-> first + 1, value |-> value, dirty |-> TRUE]
    OBVIOUS
  <2>1. d \in InMemories
    BY <2>d DEF InMemories
  <2>2. objects[c] = [pid |-> 0, doc |-> d, deleted |-> FALSE]
    BY <1>3, <2>d
  <2> QED BY <2>1, <2>2, <2>d DEF PartsInMemory
<1>5. objects = [c \in DOMAIN objects |-> objects[c]]
  BY DEF NewComposites
<1> QED BY <1>2, <1>4, <1>5 DEF IsNew

\* The tables are the same when ids are given out.
AdvancedOver(s, r, common, left, n) ==
  /\ Together(r, common, left) /\ r.next = s.next + n
  /\ r.items = s.items /\ r.composites = s.composites /\ r.docs = s.docs
  /\ (Done(r) <=> Done(s))

\* Ids that were given out and not used disturb nothing.
LEMMA AdvancedTogether ==
  ASSUME NEW s, NEW common, NEW left, Together(s, common, left), NEW n \in Nat,
         NEW r, r = Advanced(s, n)
  PROVE  AdvancedOver(s, r, common, left, n)
<1>1. Tabled(s) /\ s.next \in Nat
  BY DEF Together, Tabled
<1>2. /\ Tabled(r) /\ (Done(r) <=> Done(s)) /\ r.next = s.next + n
      /\ r.docs = s.docs /\ r.composites = s.composites
      /\ r.items = s.items
  BY <1>1, AdvancedIs
<1>3. AllGivenOut(r)
  <2>1. ASSUME NEW j \in DOMAIN r.items
        PROVE  j \in 1 .. r.next - 1 /\ r.items[j].doc < r.next
    <3>1. j \in 1 .. s.next - 1 /\ s.items[j].doc < s.next
      BY <2>1, <1>2 DEF Together, AllGivenOut
    <3>2. s.items[j].doc \in Nat
      BY <2>1, <1>1, <1>2 DEF Tabled, ItemRecords
    <3> QED BY <3>1, <3>2, <1>1, <1>2
  <2>2. ASSUME NEW c \in DOMAIN r.composites
        PROVE  c \in 1 .. r.next - 1 /\ r.composites[c].doc < r.next
    <3>1. c \in 1 .. s.next - 1 /\ s.composites[c].doc < s.next
      BY <2>2, <1>2 DEF Together, AllGivenOut
    <3>2. s.composites[c].doc \in Nat
      BY <2>2, <1>1, <1>2 DEF Tabled, PartRecords
    <3> QED BY <3>1, <3>2, <1>1, <1>2
  <2>3. ASSUME NEW d \in DOMAIN r.docs
        PROVE  d \in 1 .. r.next - 1
    <3>1. d \in 1 .. s.next - 1
      BY <2>3, <1>2 DEF Together, AllGivenOut
    <3> QED BY <3>1, <1>1, <1>2
  <2>4. /\ \A i \in DOMAIN r.items : HasDoc(r.items[i]) <=> r.items[i].doc # NoId
        /\ DOMAIN r.items \cap DOMAIN r.composites = {}
    BY <1>2 DEF Together, AllGivenOut
  <2> QED BY <2>1, <2>2, <2>3, <2>4 DEF AllGivenOut
<1>4. /\ DocsApart(r) /\ DocsBelong(r, left) /\ DocsThere(r)
      /\ PartsThere(r, common) /\ PartsBelong(r, common, left) /\ Schemed(r)
  BY <1>2 DEF Together, DocsApart, DocsBelong, DocsThere, PartsThere,
              PartsBelong, Schemed
<1> QED BY <1>2, <1>3, <1>4 DEF Together, AdvancedOver

\* A new object in memory, with composites of its own.
LEMMA CallCreateKeeps ==
  ASSUME AttInv, CallCreate
  PROVE  AttInv'
<1>0. /\ AtRest /\ Together(saved, shared, lost) /\ Tabled(saved)
      /\ saved.next \in Nat /\ 0 < saved.next /\ MaxIds \in Nat
  BY AttInvParts, AttachmentsAssumption DEF AtRest, Together, Tabled
<1>1. PICK value \in Contents, n \in 0 .. 1 :
        /\ saved.next + (2 + 2 * n) <= MaxIds + 1
        /\ call' = [at |-> "create", item |-> saved.next, set |-> TRUE,
                    value |-> value,
                    doc |-> InMemory(saved.next + 1, value, TRUE),
                    list |-> Given({}, NewComposites(saved.next + 2, n, value)),
                    tries |-> 0]
        /\ saved' = [saved EXCEPT !.next = @ + 2 + 2 * n]
        /\ UNCHANGED <<props, schemas, shared, lost>>
  BY DEF CallCreate, Room
<1>k. PICK k : k = saved.next
  OBVIOUS
<1>m. PICK m \in Nat : m = 2 + 2 * n
  OBVIOUS
<1>d. PICK d : d = InMemory(k + 1, value, TRUE)
  OBVIOUS
<1>f. PICK f : f = NewComposites(k + 2, n, value)
  OBVIOUS
<1>r. PICK r : r = Advanced(saved, m)
  OBVIOUS
<1>2. /\ Together(r, shared, lost) /\ r.next = saved.next + m
      /\ r.items = saved.items /\ r.composites = saved.composites
      /\ r.docs = saved.docs /\ (Done(r) <=> Done(saved))
  <2>1. AdvancedOver(saved, r, shared, lost, m)
    BY <1>0, <1>m, <1>r, AdvancedTogether
  <2> QED BY <2>1 DEF AdvancedOver
<1>3. saved' = r
  <2>1. saved.next + 2 + 2 * n = saved.next + m
    BY <1>0, <1>m
  <2> QED BY <2>1, <1>0, <1>1, <1>r DEF Advanced, Tabled
<1>4. AtRest'
  <2>1. Together(saved, shared, lost)'
    BY <1>1, <1>2, <1>3, TogetherKept
  <2>2. r.ok /\ r.next <= MaxIds + 1
    BY <1>0, <1>1, <1>m, <1>2 DEF AtRest, Done
  <2> QED BY <2>1, <2>2, <1>0, <1>1, <1>3 DEF AtRest
<1>5. IsNew(f, k + 2, n, value)
  <2>1. k + 2 \in Nat
    BY <1>0, <1>k
  <2> QED BY <2>1, <1>f, NewCompositesAre
<1>6. /\ call'.at = "create" /\ call'.item = k /\ call'.set
      /\ call'.value = value /\ call'.doc = d
      /\ call'.list = Given({}, f) /\ call'.tries = 0
  BY <1>1, <1>k, <1>d, <1>f
<1>7. call'.list.ids = {} /\ call'.list.objects = f
  BY <1>6 DEF Given
<1>8. d \in InMemories /\ d.id = k + 1 /\ d.value = value /\ d.dirty
  <2>1. k + 1 \in Nat
    BY <1>0, <1>k
  <2> QED BY <2>1, <1>d DEF InMemory, InMemories
<1>9. CallRecorded'
  <2>1. call' = [at |-> call'.at, item |-> call'.item, set |-> call'.set,
                 value |-> call'.value, doc |-> call'.doc,
                 list |-> Given(call'.list.ids, call'.list.objects),
                 tries |-> call'.tries]
    <3>1. call' = [at |-> call'.at, item |-> call'.item, set |-> call'.set,
                   value |-> call'.value, doc |-> call'.doc,
                   list |-> call'.list, tries |-> call'.tries]
      BY <1>1
    <3>2. call'.list = Given(call'.list.ids, call'.list.objects)
      BY <1>6, <1>7
    <3> QED BY <3>1, <3>2
  <2>2. /\ call'.set \in BOOLEAN /\ call'.value \in Contents
        /\ call'.doc \in InMemories /\ call'.doc.dirty = call'.set
        /\ call'.set => call'.doc.value = call'.value
        /\ call'.tries \in Nat /\ call'.list.ids \in SUBSET Nat
    <3>1. d.dirty = TRUE /\ call'.set = TRUE
      BY <1>1, <1>d DEF InMemory
    <3> QED BY <3>1, <1>6, <1>7, <1>8
  <2> QED BY <2>1, <2>2, <1>6 DEF CallRecorded
<1>n. /\ \A i \in DOMAIN saved.items :
           i < k /\ saved.items[i].doc \in Nat /\ saved.items[i].doc < k
      /\ \A c \in DOMAIN saved.composites :
           c < k /\ saved.composites[c].doc \in Nat /\ saved.composites[c].doc < k
      /\ \A d0 \in DOMAIN saved.docs : d0 < k
      /\ DOMAIN saved.items \subseteq Nat /\ DOMAIN saved.composites \subseteq Nat
      /\ DOMAIN saved.docs \subseteq Nat
  BY <1>0, <1>k DEF Together, AllGivenOut, Tabled, ItemRecords, PartRecords
<1>10. \A e \in Nat : k <= e /\ e < k + m =>
         /\ e \in 1 .. r.next - 1 /\ Unclaimed(r, e)
         /\ e \notin DOMAIN r.items /\ e \notin DOMAIN r.composites
  BY <1>n, <1>2, <1>0, <1>k DEF Unclaimed
<1>11. /\ \A c \in DOMAIN f :
            /\ n = 1 /\ c = k + 2
            /\ f[c].doc.id = k + 3 /\ f[c].doc.dirty /\ ~f[c].deleted
       /\ f \in [DOMAIN f -> PartsInMemory]
  <2>1. k + 2 + 1 = k + 3
    BY <1>0, <1>k
  <2> QED BY <2>1, <1>5 DEF IsNew
<1>12. PartsGiven(r, k, {}, f)
  <2>1. ASSUME NEW c \in DOMAIN f
        PROVE  /\ c \notin DOMAIN r.composites
               /\ c \in 1 .. r.next - 1 /\ c \notin DOMAIN r.items /\ c # k
               /\ Unclaimed(r, f[c].doc.id)
    <3>1. k + 2 \in Nat /\ k + 3 \in Nat /\ k + 3 < k + m /\ k + 2 # k
      BY <2>1, <1>11, <1>m, <1>0, <1>k
    <3> QED BY <2>1, <3>1, <1>10, <1>11, <1>0, <1>k
  <2> QED BY <2>1, <1>11 DEF PartsGiven
<1>13. CreateGiven'
  <2>1. k \in Nat /\ k < k + m /\ k + 1 \in Nat /\ k + 1 < k + m /\ k + 1 # k + 3
    BY <1>0, <1>k, <1>m
  <2>2. /\ k \in 1 .. r.next - 1 /\ k \notin DOMAIN r.items
        /\ k \notin DOMAIN r.composites /\ Unclaimed(r, d.id)
    BY <2>1, <1>10, <1>8, <1>0, <1>k
  <2>3. \A c \in DOMAIN f : f[c].doc.id # d.id
    BY <2>1, <1>8, <1>11
  <2>4. /\ call'.item \in 1 .. saved'.next - 1
        /\ call'.item \notin DOMAIN saved'.items
        /\ call'.item \notin DOMAIN saved'.composites
        /\ call'.set /\ Unclaimed(saved', call'.doc.id) /\ call'.list.ids = {}
        /\ PartsGiven(saved', call'.item, {}, call'.list.objects)
        /\ \A c \in DOMAIN call'.list.objects :
             call'.list.objects[c].doc.id # call'.doc.id
    BY <2>2, <2>3, <1>3, <1>6, <1>7, <1>12
  <2> QED BY <2>4 DEF CreateGiven
<1>14. CallGiven'
  BY <1>6, <1>9, <1>13 DEF CallGiven
<1> QED BY <1>4, <1>14 DEF AttInv, AtRest

\* The composites that an update keeps, fetched.
IsFetched(s, objects, ids) ==
  /\ objects \in [DOMAIN objects -> PartsInMemory]
  /\ \A c : c \in DOMAIN objects <=> c \in ids
  /\ \A c \in ids : /\ objects[c].doc.id = s.composites[c].doc
                    /\ objects[c].deleted = s.composites[c].deleted

\* Composites that a call fetched are stored ones.
LEMMA FetchedAre ==
  ASSUME Tabled(saved), NEW ids, \A c \in ids : c \in DOMAIN saved.composites,
         NEW set \in BOOLEAN, NEW value \in Contents, NoBytes \in Contents,
         NEW objects, objects = Fetched(ids, set, value)
  PROVE  IsFetched(saved, objects, ids)
<1>1. DOMAIN objects = ids
  BY DEF Fetched
<1>2. ASSUME NEW c \in ids
      PROVE  /\ objects[c] \in PartsInMemory
             /\ objects[c].doc.id = saved.composites[c].doc
             /\ objects[c].deleted = saved.composites[c].deleted
  <2>p. PICK p : p = saved.composites[c]
    OBVIOUS
  <2>1. p \in PartRecords
    BY <1>2, <2>p DEF Tabled
  <2>d. PICK d : d = IF set THEN InMemory(p.doc, value, TRUE) ELSE Clean(p.doc)
    OBVIOUS
  <2>2. objects[c] = [p EXCEPT !.doc = d]
    BY <1>2, <2>p, <2>d, <2>1 DEF Fetched, PartRecords
  <2>3. d \in InMemories /\ d.id = p.doc
    <3>1. p.doc \in Nat
      BY <2>1 DEF PartRecords
    <3>2. CASE set
      BY <3>1, <3>2, <2>d DEF InMemory, InMemories
    <3>3. CASE ~set
      BY <3>1, <3>3, <2>d DEF Clean, InMemory, InMemories
    <3> QED BY <3>2, <3>3
  <2>4. objects[c] = [pid |-> p.pid, doc |-> d, deleted |-> p.deleted]
    BY <2>1, <2>2 DEF PartRecords
  <2>5. p.pid \in Nat /\ p.deleted \in BOOLEAN
    BY <2>1 DEF PartRecords
  <2> QED BY <2>3, <2>4, <2>5, <2>p DEF PartsInMemory
<1>3. objects = [c \in DOMAIN objects |-> objects[c]]
  BY DEF Fetched
<1> QED BY <1>1, <1>2, <1>3 DEF IsFetched

\* The new list of a composition: new composites and some that it has.
LEMMA ListGiven ==
  ASSUME NEW s, NEW left, NEW common, Together(s, common, left),
         NEW i \in DOMAIN s.items, NEW n \in 0 .. 1, NEW value \in Contents,
         NEW new, IsNew(new, s.next, n, value),
         NEW ids, \A c \in ids : c \in s.items[i].parts /\ c \in DOMAIN s.composites,
         NEW old, IsFetched(s, old, ids),
         NEW m \in Nat, m = 2 * n, NEW r, r = Advanced(s, m),
         NEW f, f = Overlaid(new, old)
  PROVE  PartsGiven(r, i, s.items[i].parts, f)
<1>s. Tabled(s) /\ s.next \in Nat /\ 0 < s.next
  BY DEF Together, Tabled
<1>k. PICK k : k = s.next
  OBVIOUS
<1>2. /\ r.next = s.next + m
      /\ r.items = s.items /\ r.composites = s.composites /\ r.docs = s.docs
  <2>1. AdvancedOver(s, r, common, left, m)
    BY AdvancedTogether
  <2> QED BY <2>1 DEF AdvancedOver
<1>3. /\ IsTable(f)
      /\ \A c : c \in DOMAIN f <=> c \in DOMAIN old \/ c \in DOMAIN new
      /\ \A c \in DOMAIN new : f[c] = new[c]
      /\ \A c \in DOMAIN old : c \notin DOMAIN new => f[c] = old[c]
  BY OverlaidIs
<1>n. /\ \A c \in DOMAIN new : n = 1 /\ c = k /\ new[c] \in PartsInMemory
      /\ \A c \in DOMAIN new :
           new[c].doc.id = k + 1 /\ new[c].doc.dirty /\ ~new[c].deleted
  BY <1>k DEF IsNew
<1>o. /\ \A c : c \in DOMAIN old <=> c \in ids
      /\ \A c \in DOMAIN old :
           /\ old[c] \in PartsInMemory
           /\ old[c].doc.id = s.composites[c].doc
           /\ old[c].deleted = s.composites[c].deleted
  BY DEF IsFetched
<1>g. /\ \A j \in DOMAIN s.items :
           j < k /\ s.items[j].doc \in Nat /\ s.items[j].doc < k
      /\ \A c \in DOMAIN s.composites :
           c < k /\ s.composites[c].doc \in Nat /\ s.composites[c].doc < k
      /\ \A d \in DOMAIN s.docs : d < k
      /\ DOMAIN s.items \subseteq Nat /\ DOMAIN s.composites \subseteq Nat
      /\ DOMAIN s.docs \subseteq Nat
  BY <1>s, <1>k DEF Together, AllGivenOut, Tabled, ItemRecords, PartRecords
<1>4. \A e \in Nat : k <= e /\ e < k + m =>
         /\ e \in 1 .. r.next - 1 /\ Unclaimed(r, e)
         /\ e \notin DOMAIN r.items /\ e \notin DOMAIN r.composites
  BY <1>g, <1>2, <1>s, <1>k DEF Unclaimed
<1>5. f \in [DOMAIN f -> PartsInMemory]
  <2>1. \A c \in DOMAIN f : f[c] \in PartsInMemory
    BY <1>3, <1>n, <1>o
  <2> QED BY <2>1, <1>3 DEF IsTable
<1>6. ASSUME NEW c \in DOMAIN new
      PROVE  /\ c \notin DOMAIN r.composites
             /\ c \in 1 .. r.next - 1 /\ c \notin DOMAIN r.items /\ c # i
             /\ Unclaimed(r, f[c].doc.id) /\ f[c].doc.id = k + 1
             /\ f[c].doc.dirty /\ ~f[c].deleted /\ c = k
  <2>1. /\ c = k /\ f[c].doc.id = k + 1 /\ m = 2
        /\ f[c].doc.dirty /\ ~f[c].deleted
    BY <1>6, <1>3, <1>n
  <2>2. k \in Nat /\ k + 1 \in Nat /\ k + 1 < k + m /\ k < k + m
    BY <2>1, <1>s, <1>k
  <2>3. k # i
    BY <1>g, <1>s, <1>k
  <2> QED BY <2>1, <2>2, <2>3, <1>4, <1>s, <1>k
<1>7. ASSUME NEW c \in DOMAIN f, c \notin DOMAIN new
      PROVE  /\ c \in DOMAIN r.composites /\ c \in s.items[i].parts
             /\ f[c].doc.id = r.composites[c].doc
             /\ f[c].deleted = r.composites[c].deleted
             /\ f[c].doc.id < k /\ f[c].doc.id \in Nat
  <2>1. c \in DOMAIN old /\ f[c] = old[c] /\ c \in ids
    BY <1>7, <1>3, <1>o
  <2> QED BY <2>1, <1>o, <1>2, <1>g
<1>8. ASSUME NEW c \in DOMAIN f, NEW e \in DOMAIN f, f[c].doc.id = f[e].doc.id
      PROVE  c = e
  <2>1. CASE c \in DOMAIN new /\ e \in DOMAIN new
    BY <2>1, <1>6
  <2>2. CASE c \in DOMAIN new /\ e \notin DOMAIN new
    BY <2>2, <1>6, <1>7, <1>8, <1>s, <1>k
  <2>3. CASE c \notin DOMAIN new /\ e \in DOMAIN new
    BY <2>3, <1>6, <1>7, <1>8, <1>s, <1>k
  <2>4. CASE c \notin DOMAIN new /\ e \notin DOMAIN new
    BY <2>4, <1>7, <1>8, <1>2 DEF Together, DocsApart
  <2> QED BY <2>1, <2>2, <2>3, <2>4
<1> QED BY <1>5, <1>6, <1>7, <1>8 DEF PartsGiven

\* An update is given a document and a list.
LEMMA CallUpdateKeeps ==
  ASSUME AttInv, NEW i \in DOMAIN saved.items, CallUpdate(i)
  PROVE  AttInv'
<1>0. /\ AtRest /\ Together(saved, shared, lost) /\ Tabled(saved)
      /\ saved.next \in Nat /\ 0 < saved.next /\ MaxIds \in Nat
      /\ NoBytes \in Contents
  BY AttInvParts, AttachmentsAssumption DEF AtRest, Together, Tabled
<1>1. PICK value \in Contents, set \in BOOLEAN, n \in 0 .. 1,
           kept \in SUBSET saved.items[i].parts, whole \in BOOLEAN :
        /\ call = NoCall /\ ~saved.items[i].deleted /\ Room(1 + 2 * n)
        /\ ~set => value = NoBytes
        /\ whole => kept \subseteq DOMAIN saved.composites
        /\ call' = [at |-> "update", item |-> i, set |-> set, value |-> value,
                    doc |-> IF set THEN InMemory(saved.items[i].doc, value, TRUE)
                            ELSE Clean(saved.items[i].doc),
                    list |-> Given(IF whole THEN {} ELSE kept,
                                   Overlaid(NewComposites(saved.next, n, value),
                                            IF whole
                                            THEN Fetched(kept, set, value)
                                            ELSE <<>>)),
                    tries |-> 0]
        /\ saved' = [saved EXCEPT !.next = @ + 2 * n]
        /\ UNCHANGED <<props, schemas, shared, lost>>
  BY Zenon DEF CallUpdate
<1>o. PICK o : o = saved.items[i]
  OBVIOUS
<1>k. PICK k : k = saved.next
  OBVIOUS
<1>m. PICK m \in Nat : m = 2 * n
  OBVIOUS
<1>d. PICK d : d = IF set THEN InMemory(o.doc, value, TRUE) ELSE Clean(o.doc)
  OBVIOUS
<1>w. PICK new : new = NewComposites(k, n, value)
  OBVIOUS
<1>q. PICK q : q = IF whole THEN kept ELSE {}
  OBVIOUS
<1>p. PICK p : p = IF whole THEN {} ELSE kept
  OBVIOUS
<1>a. PICK old : old = IF whole THEN Fetched(kept, set, value) ELSE <<>>
  OBVIOUS
<1>f. PICK f : f = Overlaid(new, old)
  OBVIOUS
<1>r. PICK r : r = Advanced(saved, m)
  OBVIOUS
<1>s. o \in ItemRecords
  BY <1>0, <1>o DEF Tabled
<1>2. /\ Together(r, shared, lost) /\ r.next = saved.next + m
      /\ r.items = saved.items /\ r.composites = saved.composites
      /\ r.docs = saved.docs /\ (Done(r) <=> Done(saved))
  <2>1. AdvancedOver(saved, r, shared, lost, m)
    BY <1>0, <1>m, <1>r, AdvancedTogether
  <2> QED BY <2>1 DEF AdvancedOver
<1>3. saved' = r
  BY <1>0, <1>1, <1>m, <1>r DEF Advanced, Tabled
<1>4. AtRest' /\ r.next <= MaxIds
  <2>1. Together(saved, shared, lost)'
    BY <1>1, <1>2, <1>3, TogetherKept
  <2>2. r.ok /\ r.next <= MaxIds
    BY <1>0, <1>1, <1>m, <1>2 DEF AtRest, Done, Room
  <2>3. r.next \in Nat
    BY <1>2 DEF Together, Tabled
  <2>4. r.next <= MaxIds + 1
    BY <2>2, <2>3, <1>0
  <2>5. props' \in SUBSET Attributes /\ schemas' \in Nat
    <3>1. props' = props /\ schemas' = schemas
      BY <1>1
    <3> QED BY <3>1, <1>0 DEF AtRest
  <2>6. saved'.ok /\ saved'.next <= MaxIds + 1
    BY <2>2, <2>4, <1>3
  <2> QED BY <2>1, <2>2, <2>5, <2>6 DEF AtRest
<1>5. IsNew(new, saved.next, n, value)
  BY <1>0, <1>k, <1>w, NewCompositesAre
<1>6. IsFetched(saved, old, q)
  <2>1. CASE whole
    <3>1. old = Fetched(kept, set, value) /\ q = kept
      BY <2>1, <1>a, <1>q
    <3>2. \A c \in kept : c \in DOMAIN saved.composites
      BY <2>1, <1>1
    <3> QED BY <3>1, <3>2, <1>0, FetchedAre
  <2>2. CASE ~whole
    <3>1. old = <<>> /\ \A c : c \notin q
      BY <2>2, <1>a, <1>q
    <3>2. DOMAIN <<>> = {} /\ <<>> \in [DOMAIN <<>> -> PartsInMemory]
      OBVIOUS
    <3> QED BY <3>1, <3>2 DEF IsFetched
  <2> QED BY <2>1, <2>2
<1>7. PartsGiven(r, i, o.parts, f)
  <2>1. \A c \in q : c \in saved.items[i].parts /\ c \in DOMAIN saved.composites
    BY <1>1, <1>q
  <2>2. PartsGiven(r, i, saved.items[i].parts, f)
    BY <2>1, <1>0, <1>5, <1>6, <1>m, <1>r, <1>f, ListGiven
  <2> QED BY <2>2, <1>o
<1>8. /\ call'.at = "update" /\ call'.item = i /\ call'.set = set
      /\ call'.value = value /\ call'.doc = d
      /\ call'.list = Given(p, f) /\ call'.tries = 0
  <2>1. d = IF set THEN InMemory(saved.items[i].doc, value, TRUE)
            ELSE Clean(saved.items[i].doc)
    BY <1>d, <1>o
  <2>2. f = Overlaid(NewComposites(saved.next, n, value),
                     IF whole THEN Fetched(kept, set, value) ELSE <<>>)
    BY <1>f, <1>w, <1>k, <1>a
  <2>3. call' = [at |-> "update", item |-> i, set |-> set, value |-> value,
                 doc |-> d, list |-> Given(p, f), tries |-> 0]
    BY <1>1, <2>1, <2>2, <1>p, Zenon
  <2> QED BY <2>3
<1>9. call'.list.ids = p /\ call'.list.objects = f /\ p \subseteq o.parts
  BY <1>8, <1>p, <1>o, <1>1 DEF Given
<1>10. /\ d \in InMemories /\ d.dirty = set /\ (set => d.value = value)
  <2>1. o.doc \in Nat
    BY <1>s DEF ItemRecords
  <2>2. CASE set
    BY <2>1, <2>2, <1>d DEF InMemory, InMemories
  <2>3. CASE ~set
    BY <2>1, <2>3, <1>d, <1>0 DEF Clean, InMemory, InMemories
  <2> QED BY <2>2, <2>3
<1>11. CallRecorded'
  <2>1. call' = [at |-> call'.at, item |-> call'.item, set |-> call'.set,
                 value |-> call'.value, doc |-> call'.doc,
                 list |-> Given(call'.list.ids, call'.list.objects),
                 tries |-> call'.tries]
    <3>1. call' = [at |-> call'.at, item |-> call'.item, set |-> call'.set,
                   value |-> call'.value, doc |-> call'.doc,
                   list |-> call'.list, tries |-> call'.tries]
      BY <1>1
    <3>2. call'.list = Given(call'.list.ids, call'.list.objects)
      BY <1>8, <1>9
    <3> QED BY <3>1, <3>2
  <2>2. /\ call'.set \in BOOLEAN /\ call'.value \in Contents
        /\ call'.doc \in InMemories /\ call'.doc.dirty = call'.set
        /\ call'.set => call'.doc.value = call'.value
        /\ call'.tries \in Nat
    BY <1>8, <1>10
  <2>3. call'.list.ids \in SUBSET Nat
    BY <1>9, <1>s DEF ItemRecords
  <2> QED BY <2>1, <2>2, <2>3, <1>8 DEF CallRecorded
<1>12. UpdateGiven'
  <2>1. /\ saved'.next <= MaxIds
        /\ call'.item \in DOMAIN saved'.items
        /\ ~saved'.items[call'.item].deleted
        /\ call'.list.ids \subseteq saved'.items[call'.item].parts
        /\ PartsGiven(saved', call'.item, saved'.items[call'.item].parts,
                      call'.list.objects)
    BY <1>1, <1>2, <1>3, <1>4, <1>7, <1>8, <1>9, <1>o
  <2> QED BY <2>1 DEF UpdateGiven
<1>13. CallGiven'
  BY <1>8, <1>11, <1>12 DEF CallGiven
<1> QED BY <1>4, <1>13 DEF AttInv, AtRest

\* Every call, every attempt of it and every new version of the schema keep
\* AttInv.
LEMMA AttInvInductive ==
  AttInv /\ [AttachmentsNext]_attachmentVars => AttInv'
<1> SUFFICES ASSUME AttInv, [AttachmentsNext]_attachmentVars
             PROVE  AttInv'
  OBVIOUS
<1>1. CASE ChangeSchema
  BY <1>1, ChangeSchemaKeeps
<1>2. CASE CallCreate
  BY <1>2, CallCreateKeeps
<1>3. CASE AbortAttempt
  BY <1>3, AbortKeeps
<1>4. CASE CommitAttempt
  BY <1>4, AttemptKeeps
<1>5. ASSUME NEW i \in DOMAIN saved.items, CopyIt(i)
      PROVE  AttInv'
  BY <1>5, CopyKeeps
<1>6. ASSUME NEW i \in DOMAIN saved.items, RecycleIt(i) \/ UndeleteIt(i)
      PROVE  AttInv'
  BY <1>6, RecycleKeeps
<1>7. ASSUME NEW i \in DOMAIN saved.items, DeleteIt(i)
      PROVE  AttInv'
  BY <1>7, DeleteKeeps
<1>8. ASSUME NEW i \in DOMAIN saved.items, CallUpdate(i)
      PROVE  AttInv'
  BY <1>8, CallUpdateKeeps
<1>9. CASE UNCHANGED attachmentVars
  <2>1. /\ props' = props /\ schemas' = schemas /\ saved' = saved
        /\ call' = call /\ shared' = shared /\ lost' = lost
    BY <1>9 DEF attachmentVars
  <2>2. AtRest /\ Together(saved, shared, lost) /\ (call = NoCall \/ CallGiven)
    BY AttInvParts DEF AtRest
  <2>3. Together(saved, shared, lost)'
    BY <2>1, <2>2, TogetherKept
  <2>4. CallGiven => CallGiven'
    BY <2>1 DEF CallGiven, CallRecorded, CreateGiven, UpdateGiven
  <2> QED BY <2>1, <2>2, <2>3, <2>4 DEF AttInv, AtRest
<1> QED BY <1>1, <1>2, <1>3, <1>4, <1>5, <1>6, <1>7, <1>8, <1>9
        DEF AttachmentsNext

\* AttInv in every reachable state: no two attributes have the same document,
\* every document and every composite belongs to an attribute or was left
\* behind by a schema that lost the attribute, composites are of the item that
\* lists them unless a copy shares them, and a call holds composites of its
\* own item.
THEOREM AttachmentsInvariance == AttachmentsSpec => []AttInv
BY InitTogether, AttInvInductive, PTL DEF AttachmentsSpec

\* Every variable of the attachments keeps its type.
THEOREM AttachmentsTypeCorrect == AttachmentsSpec => []AttachmentsTypeOK
<1>1. AttInv => AttachmentsTypeOK
  <2> SUFFICES ASSUME AttInv
               PROVE  AttachmentsTypeOK
    OBVIOUS
  <2>1. /\ props \in SUBSET Attributes /\ saved.ok /\ saved.next <= MaxIds + 1
        /\ Tabled(saved)
    BY DEF AttInv, Together
  <2>2. saved.next \in 1 .. MaxIds + 1
    BY <2>1, AttachmentsAssumption DEF Tabled
  <2>3. \A i \in DOMAIN saved.items : saved.items[i].attrs \subseteq Attributes
    BY <2>1 DEF Tabled, ItemRecords
  <2>4. \A c \in DOMAIN saved.composites : saved.composites[c].deleted \in BOOLEAN
    BY <2>1 DEF Tabled, PartRecords
  <2>5. \A d \in DOMAIN saved.docs : saved.docs[d] \in Contents
    BY <2>1 DEF Tabled
  <2> QED BY <2>1, <2>2, <2>3, <2>4, <2>5 DEF AttachmentsTypeOK
<1> QED BY <1>1, AttachmentsInvariance, PTL

\* An attribute that is stored has its document, and no document is stray.
LEMMA AttDocuments == AttInv => DocumentsMatch
<1> SUFFICES ASSUME AttInv
             PROVE  DocumentsMatch
  OBVIOUS
<1>0. /\ DocsApart(saved) /\ DocsBelong(saved, lost) /\ DocsThere(saved)
  BY DEF AttInv, Together
<1>1. ASSUME NEW d \in DOMAIN saved.docs, d \notin lost
      PROVE  Cardinality(Owners(d)) = 1
  <2>1. \A y : y \in Owners(d) <=>
          \/ y \in DOMAIN saved.items /\ HasDoc(saved.items[y])
             /\ saved.items[y].doc = d
          \/ y \in DOMAIN saved.composites /\ saved.composites[y].doc = d
    BY DEF Owners, HasDoc
  <2>2. PICK y : y \in Owners(d)
    BY <1>0, <1>1, <2>1 DEF DocsBelong
  <2>3. \A z : z \in Owners(d) => z = y
    BY <1>0, <2>1, <2>2 DEF DocsApart
  <2>4. Owners(d) = {y}
    BY <2>2, <2>3
  <2> QED BY <2>4, FS_Singleton
<1> QED BY <1>0, <1>1 DEF DocumentsMatch, DocsThere, HasDoc

\* The list of composites of an item and the composites stored agree.
LEMMA AttParts == AttInv => PartsMatch
BY DEF AttInv, Together, PartsThere, PartsBelong, PartsMatch

\* An item that shares no composites can be deleted, recycled and restored.
LEMMA AttRemovable == AttInv => PartsCanBeRemoved
<1> SUFFICES ASSUME AttInv, NEW i \in DOMAIN saved.items,
                    saved.items[i].parts \cap shared = {}
             PROVE  /\ DeleteThing(saved, i).ok
                    /\ RecycleThing(saved, i).ok /\ UndeleteThing(saved, i).ok
  BY DEF PartsCanBeRemoved
<1>0. /\ Together(saved, shared, lost) /\ Done(saved)
      /\ (\A a \in props : a \in Attributes) /\ NoBytes \in Contents
  BY AttachmentsAssumption DEF AttInv, Done
<1>1. saved.items[i].parts \subseteq DOMAIN saved.composites
  BY <1>0 DEF Together, PartsThere
<1>2. Done(DeleteThing(saved, i))
  <2>m. PICK m : m = lost \cup LeftOf(saved, saved.items[i])
    OBVIOUS
  <2>1. /\ \A c \in lost : c \in m
        /\ \A c \in LeftOf(saved, saved.items[i]) : c \in m
    BY <2>m
  <2> QED BY <2>1, <1>0, <1>1, DeleteWrites
<1>3. ASSUME NEW b \in BOOLEAN
      PROVE  Done(Remarked(saved, i, b))
  BY <1>0, <1>1, RemarkedWrites
<1>4. Done(RecycleThing(saved, i)) /\ Done(UndeleteThing(saved, i))
  BY <1>3, MethodsMark
<1> QED BY <1>2, <1>4 DEF Done

\* The attempt that commits has stored the document, however many failed
\* before.
LEMMA AttRetries ==
  ASSUME AttInv, [AttachmentsNext]_attachmentVars
  PROVE  call # NoCall /\ call.set /\ "doc" \in props /\ saved' # saved =>
           LET d == saved'.items[call.item].doc
           IN d \in DOMAIN saved'.docs /\ saved'.docs[d] = call.value
<1> SUFFICES ASSUME call # NoCall, call.set, "doc" \in props, saved' # saved
             PROVE  LET d == saved'.items[call.item].doc
                    IN d \in DOMAIN saved'.docs /\ saved'.docs[d] = call.value
  OBVIOUS
<1>1. CommitAttempt
  <2>1. ~ChangeSchema /\ ~CallCreate
    BY DEF ChangeSchema, CallCreate
  <2>2. ~AbortAttempt
    BY DEF AbortAttempt
  <2>3. ASSUME NEW i \in DOMAIN saved.items
        PROVE  /\ ~CopyIt(i) /\ ~RecycleIt(i) /\ ~UndeleteIt(i) /\ ~DeleteIt(i)
               /\ ~CallUpdate(i)
    BY DEF CopyIt, RecycleIt, UndeleteIt, DeleteIt, CallUpdate
  <2>4. ~UNCHANGED attachmentVars
    BY DEF attachmentVars
  <2> QED BY <2>1, <2>2, <2>3, <2>4 DEF AttachmentsNext
<1>2. DocKept(saved', call.item, call.doc)
  BY <1>1, AttemptKeeps
<1>3. call.doc.dirty = call.set /\ (call.set => call.doc.value = call.value)
  BY AttInvParts DEF CallGiven, CallRecorded
<1> QED BY <1>2, <1>3 DEF DocKept

\* For any attributes, contents, calls and retries, documents and composites
\* stay together with their items: through updates, copies, deletions, the bin
\* and new versions of the schema no document or composite is lost, stray or
\* another's, an item with its composites can be removed, and a retried update
\* stores all.
THEOREM AttachmentsAreKept == AttachmentsSpec => AttachmentsStayTogether
<1>1. AttInv => DocumentsMatch /\ PartsMatch /\ PartsCanBeRemoved
  BY AttDocuments, AttParts, AttRemovable
<1>2. AttInv /\ [AttachmentsNext]_attachmentVars =>
        [call # NoCall /\ call.set /\ "doc" \in props /\ saved' # saved =>
           LET d == saved'.items[call.item].doc
           IN d \in DOMAIN saved'.docs /\ saved'.docs[d] = call.value
        ]_attachmentVars
  BY AttRetries
<1> QED BY <1>1, <1>2, InitTogether, AttInvInductive, PTL
        DEF AttachmentsSpec, AttachmentsStayTogether, RetriesStoreAll

=============================================================================
