----------------------------- MODULE ItemLocks ------------------------------
(***************************************************************************)
(* Concurrent transactions on the items of the Berkeley DB interface       *)
(* (db.bsddb): the locks that reads and writes take, the thread that       *)
(* detects deadlocks, and what a victim does.                              *)
(*                                                                         *)
(* The lock manager is Berkeley DB's, modelled from how DB uses it: a read *)
(* within a transaction shares a lock, a write excludes all others, locks  *)
(* last until the transaction ends, and who gives one up passes it on.     *)
(* The writes of a transaction are applied when it commits, so that an     *)
(* abort has nothing to undo.                                              *)
(***************************************************************************)
EXTENDS Integers, Sequences, FiniteSets

CONSTANTS
  Writers,      \* the threads that run transactions
  LockedItems,  \* the items they read and write
  WorksGiven,   \* bound: the items that the threads may ask for, one set each
  LockTries,    \* trans_max_retries
  MaxCommits    \* bound: the commits of a thread that write an item

ASSUME ItemLocksAssumption ==
  /\ IsFiniteSet(Writers) /\ IsFiniteSet(LockedItems)
  /\ WorksGiven \subseteq [Writers -> SUBSET LockedItems]
  /\ LockTries \in Nat \ {0} /\ MaxCommits \in Nat

VARIABLES
  nowait,   \* tx_timeout = 0: a lock that is not free is not waited for
  worksOn,  \* the items that each thread asks for
  content,  \* the committed items: how often each was counted up
  begun,    \* the threads with a transaction, the oldest first
  txn,      \* each thread: its state, what it waits for, what its transaction
            \* has read and what it has written
  tries,    \* how often its call was tried
  landed    \* each thread and item: its commits that counted the item up

lockVars == <<nowait, worksOn, content, begun, txn, tries, landed>>

Lists == INSTANCE SequencesExt

Accesses == [op : {"get", "put"}, item : LockedItems]
NoAccess == [op |-> "none"]
NoTxn(at) ==
  [at |-> at, want |-> NoAccess, read |-> <<>>, wrote |-> <<>>]

LocksTypeOK ==
  /\ nowait \in BOOLEAN /\ worksOn \in WorksGiven
  /\ content \in [LockedItems -> Nat]
  /\ Lists!ToSet(begun) = {w \in Writers : txn[w].at \in {"runs", "waits"}}
  /\ Lists!IsInjective(begun)
  /\ \A w \in Writers :
       /\ txn[w].at \in {"idle", "runs", "waits", "backoff", "failed"}
       /\ txn[w].at = "waits" <=> txn[w].want \in Accesses
       /\ DOMAIN txn[w].wrote \subseteq DOMAIN txn[w].read
       /\ DOMAIN txn[w].read \subseteq LockedItems
  /\ tries \in [Writers -> 0 .. LockTries]

LocksInit ==
  /\ nowait \in BOOLEAN /\ worksOn \in WorksGiven
  /\ content = [i \in LockedItems |-> 0]
  /\ begun = <<>>
  /\ txn = [w \in Writers |-> NoTxn("idle")]
  /\ tries = [w \in Writers |-> 0]
  /\ landed = [w \in Writers |-> [i \in LockedItems |-> 0]]

-----------------------------------------------------------------------------
(* The locks.                                                              *)

MutantBlockersIn(w, of) ==
  LET i == of[w].want.item IN
  IF of[w].want.op = "get"
  THEN {v \in Writers : of[v].want = [op |-> "put", item |-> i]}
  ELSE {v \in Writers \ {w} : i \in DOMAIN of[v].read}

\* Whom thread w waits for among the transactions "of": to read, those that
\* have written the item, and those that have read it and wait to write it; to
\* write, all others that have read it.
BlockersIn(w, of) ==
  LET i == of[w].want.item IN
  IF of[w].want.op = "get"
  THEN {v \in Writers : \/ i \in DOMAIN of[v].wrote
                        \/ of[v].want = [op |-> "put", item |-> i]}
  ELSE {v \in Writers \ {w} : i \in DOMAIN of[v].read}

Blockers(w) == BlockersIn(w, txn)

With(f, i, v) == [j \in DOMAIN f \cup {i} |-> IF j = i THEN v ELSE f[j]]

\* A transaction gets the lock it wants, and reads the item, or writes it with
\* one more count.
Granted(t) ==
  LET i == t.want.item IN
  [t EXCEPT !.at = "runs", !.want = NoAccess,
            !.read = IF t.want.op = "get" THEN With(@, i, content'[i]) ELSE @,
            !.wrote = IF t.want.op = "put"
                      THEN With(@, i, t.read[i] + 1) ELSE @]

\* The lock manager grants what it can as soon as a lock is asked for or given
\* up.
Served(of) ==
  [w \in Writers |->
     IF of[w].at = "waits" /\ BlockersIn(w, of) = {}
     THEN Granted(of[w]) ELSE of[w]]

\* The deadlocks: threads each of which waits for one of them, and no fewer.
Deadlocked(threads) ==
  threads # {} /\ \A w \in threads : Blockers(w) \cap threads # {}

Deadlocks ==
  LET stuck == {s \in SUBSET {w \in Writers : txn[w].at = "waits"} : Deadlocked(s)}
  IN  {s \in stuck : \A r \in stuck : r \subseteq s => r = s}

Place(w, list) == CHOOSE n \in DOMAIN list : list[n] = w

MutantIsYoungest(w, threads) ==
  \A v \in threads : Place(w, begun) <= Place(v, begun)

IsYoungest(w, threads) ==
  \A v \in threads : Place(w, begun) >= Place(v, begun)

-----------------------------------------------------------------------------
(* The transactions.                                                       *)

\* transactional_wrapper begins a transaction, after a pause if it retries.
BeginTry(w) ==
  /\ worksOn[w] # {}
  /\ txn[w].at \in {"idle", "backoff"}
  /\ txn[w].at = "idle" =>
       \A i \in LockedItems : landed[w][i] < MaxCommits
  /\ txn' = [txn EXCEPT ![w] = NoTxn("runs")]
  /\ begun' = Append(begun, w)
  /\ UNCHANGED <<nowait, worksOn, content, tries, landed>>

\* The transaction asks for an item it has not read, or to write one that it
\* has: get_item, and put_item or delete_item.  It goes on if the lock is free,
\* and waits otherwise.
Ask(w) ==
  /\ txn[w].at = "runs"
  /\ UNCHANGED content
  /\ \E access \in [op : {"get", "put"}, item : worksOn[w]] :
       /\ access.op = "get" <=> access.item \notin DOMAIN txn[w].read
       /\ access.item \notin DOMAIN txn[w].wrote
       /\ txn' = Served([txn EXCEPT ![w].at = "waits", ![w].want = access])
  /\ UNCHANGED <<nowait, worksOn, begun, tries, landed>>

MutantAborted(w, at) == [txn EXCEPT ![w].at = at]

\* The end of the transaction, context._trans.abort() or commit(), gives up
\* its locks.
Aborted(w, at) == [txn EXCEPT ![w] = NoTxn(at)]

AfterTry(w) == IF tries[w] + 1 = LockTries THEN "failed" ELSE "backoff"

Committed(w) == DOMAIN txn[w].wrote

CommitTry(w) ==
  /\ txn[w].at = "runs" /\ Committed(w) # {}
  /\ content' = [i \in LockedItems |->
       IF i \in Committed(w) THEN txn[w].wrote[i] ELSE content[i]]
  /\ landed' = [landed EXCEPT ![w] = [i \in LockedItems |->
       IF i \in Committed(w) THEN @[i] + 1 ELSE @[i]]]
  /\ txn' = Served(Aborted(w, "idle"))
  /\ begun' = Lists!Remove(begun, w)
  /\ tries' = [tries EXCEPT ![w] = 0]
  /\ UNCHANGED <<nowait, worksOn>>

MutantRetryWork(w) ==
  /\ UNCHANGED <<content, tries>>
  /\ txn' = Served(Aborted(w, AfterTry(w)))
  /\ begun' = Lists!Remove(begun, w)
  /\ UNCHANGED <<nowait, worksOn, landed>>

\* DBLockDeadlockError or DBLockNotGrantedError: the transaction is aborted
\* and tried again, or the call fails with DBDeadlockError.
RetryWork(w) ==
  /\ UNCHANGED content
  /\ tries' = [tries EXCEPT ![w] = @ + 1]
  /\ txn' = Served(Aborted(w, AfterTry(w)))
  /\ begun' = Lists!Remove(begun, w)
  /\ UNCHANGED <<nowait, worksOn, landed>>

\* A lock that is not granted, without waiting.
Refuse(w) ==
  /\ nowait /\ txn[w].at = "waits"
  /\ RetryWork(w)

\* The maintenance thread: lock_detect(DB_LOCK_YOUNGEST).
Detect ==
  /\ ~nowait
  /\ \E threads \in Deadlocks :
       \E w \in threads : IsYoungest(w, threads) /\ RetryWork(w)

\* The call has failed; the thread takes the next one.
TakeNext(w) ==
  /\ txn[w].at = "failed"
  /\ txn' = [txn EXCEPT ![w].at = "idle"]
  /\ tries' = [tries EXCEPT ![w] = 0]
  /\ UNCHANGED <<nowait, worksOn, content, begun, landed>>

WriterRuns(w) ==
  BeginTry(w) \/ Ask(w) \/ CommitTry(w) \/ Refuse(w) \/ TakeNext(w)

LocksNext ==
  \/ \E w \in Writers : WriterRuns(w)
  \/ Detect

\* The threads run, and the detector does every ten milliseconds.
LocksFairness ==
  /\ \A w \in Writers : WF_lockVars(WriterRuns(w))
  /\ WF_lockVars(Detect)

LocksSpec == LocksInit /\ [][LocksNext]_lockVars /\ LocksFairness
-----------------------------------------------------------------------------
(* Properties.                                                             *)

\* An item that transactions read, count up and write counts every commit:
\* nothing that two transactions did to it at the same time is lost.
NoLostUpdates ==
  \A i \in LockedItems :
    content[i] = Cardinality({c \in Writers \X (1 .. MaxCommits) :
                                c[2] <= landed[c[1]][i]})

\* A call ends, with a commit or with an error: deadlocks are broken
\* (DB.__maintain) and retries run out (transactional_wrapper).
TransactionsEnd ==
  \A w \in Writers : []<>(txn[w].at = "idle")

\* The victim of a deadlock is not the transaction that waits the longest: the
\* oldest goes on until it has done its work, if it waits for locks at all.
OldestGoesOn ==
  [][begun # <<>> /\ begun' # <<>> /\ ~nowait /\ Head(begun') # Head(begun)
     => tries'[Head(begun)] = 0]_lockVars
=============================================================================
