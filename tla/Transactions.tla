---------------------------- MODULE Transactions ----------------------------
(***************************************************************************)
(* The life of a database transaction inside one Porcupine process.        *)
(*                                                                         *)
(* Worker threads serve requests (PorcupineThread.handle_request).  A      *)
(* request reads in one snapshot transaction and may call functions        *)
(* decorated with @db.transactional(auto_commit=True), which abort that    *)
(* transaction, run in one of their own, retry when they are a deadlock    *)
(* victim, and finally open another transaction for the rest of the        *)
(* request.  A management thread takes the database lock (_db.lock), which *)
(* closes the gate of _db.get_transaction and waits for the counter        *)
(* _activeTxns to reach zero.                                              *)
(*                                                                         *)
(* `x += 1' on _locks and _activeTxns is a load and a store, and another   *)
(* thread may run between the two.  What the functions do to the objects is *)
(* in the module ObjectStore, where a call is one step.                    *)
(*                                                                         *)
(* An operator named Mutant... is the next definition with a plausible     *)
(* mistake.  Nothing uses it: it serves to test that the properties notice.*)
(***************************************************************************)
EXTENDS Integers, FiniteSets

CONSTANTS
  Workers,       \* the request threads of the process
  Admins,        \* the management threads that lock the database
  MaxRetries,    \* trans_max_retries
  MaxDepth,      \* bound: transactional functions called inside one another
  MaxRedirects,  \* bound: internal redirects in one request
  MaxDrift       \* bound: nothing starts once races and leaks exceed it

ASSUME TransactionsAssumption ==
  /\ IsFiniteSet(Workers)
  /\ IsFiniteSet(Admins)
  /\ Workers \cap Admins = {}
  /\ MaxRetries \in Nat \ {0}
  /\ MaxDepth \in Nat
  /\ MaxRedirects \in Nat
  /\ MaxDrift \in Nat

VARIABLES
  pc,         \* where each thread is
  ret,        \* where a worker goes once it has its transaction or counted it
  ctx,        \* context._trans: none, an open handle, or one already closed
  snapshot,   \* whether that handle was opened with snapshot=True
  txnal,      \* context._is_txnal
  hasTxn,     \* has_txn of the running transactional_wrapper
  home,       \* what the request was doing when it called the function
  retries,    \* retries of the running transactional_wrapper
  depth,      \* transactional functions entered inside the outermost one
  failed,     \* the outermost function ends with an exception
  commits,    \* history: commits made for the running call
  frames,     \* handle_request frames on the stack (one more per redirect)
  delta,      \* what the pending store will add to the counter it loaded
  reg,        \* the value loaded by the counter update in progress
  activeTxns, \* _db._activeTxns
  locks,      \* _db._locks
  leaked,     \* open transactions whose handle has been overwritten
  raced       \* history: two updates of one counter have overlapped

ctxVars    == <<ctx, snapshot>>
callVars   == <<txnal, hasTxn, home, retries, depth, failed, commits>>
countVars  == <<delta, reg, activeTxns, raced>>
vars == <<pc, ret, ctxVars, callVars, frames, countVars, locks, leaked>>

Threads == Workers \cup Admins

WorkerPc == {"idle", "gate", "begin", "store", "reading", "public", "newtxn",
             "body", "victim", "backoff", "unwind", "exit", "leave",
             "teardown", "respond"}
AdminPc  == {"idle", "raise", "wait", "locked", "lower"}

TypeOK ==
  /\ pc \in [Threads -> WorkerPc \cup AdminPc]
  /\ \A w \in Workers : pc[w] \in WorkerPc
  /\ \A a \in Admins : pc[a] \in AdminPc
  /\ ret \in [Workers -> WorkerPc]
  /\ ctx \in [Workers -> {"none", "open", "closed"}]
  /\ snapshot \in [Workers -> BOOLEAN]
  /\ txnal \in [Workers -> BOOLEAN]
  /\ hasTxn \in [Workers -> BOOLEAN]
  /\ home \in [Workers -> {"reading", "public"}]
  /\ retries \in [Workers -> 0 .. MaxRetries]
  /\ depth \in [Workers -> 0 .. MaxDepth]
  /\ failed \in [Workers -> BOOLEAN]
  /\ commits \in [Workers -> Nat]
  /\ frames \in [Workers -> 0 .. MaxRedirects + 1]
  /\ delta \in [Workers -> {-1, 0, 1}]
  /\ reg \in [Threads -> Int]
  /\ activeTxns \in Int
  /\ locks \in Nat
  /\ leaked \in Nat
  /\ raced \in BOOLEAN

Init ==
  /\ pc = [t \in Threads |-> "idle"]
  /\ ret = [w \in Workers |-> "idle"]
  /\ ctx = [w \in Workers |-> "none"]
  /\ snapshot = [w \in Workers |-> FALSE]
  /\ txnal = [w \in Workers |-> FALSE]
  /\ hasTxn = [w \in Workers |-> FALSE]
  /\ home = [w \in Workers |-> "reading"]
  /\ retries = [w \in Workers |-> 0]
  /\ depth = [w \in Workers |-> 0]
  /\ failed = [w \in Workers |-> FALSE]
  /\ commits = [w \in Workers |-> 0]
  /\ frames = [w \in Workers |-> 0]
  /\ delta = [w \in Workers |-> 0]
  /\ reg = [t \in Threads |-> 0]
  /\ activeTxns = 0
  /\ locks = 0
  /\ leaked = 0
  /\ raced = FALSE

\* The bound on how far races and leaks may take the counter.
WithinBounds ==
  /\ activeTxns \in -MaxDrift .. MaxDrift + Cardinality(Workers)
  /\ leaked <= MaxDrift

Goto(t, label) == pc' = [pc EXCEPT ![t] = label]

-----------------------------------------------------------------------------
(* Opening and closing a transaction.                                      *)

\* First half of `_activeTxns += d': load the counter, then go on at label.
LoadCounter(w, d, label) ==
  /\ delta' = [delta EXCEPT ![w] = d]
  /\ reg' = [reg EXCEPT ![w] = activeTxns]
  /\ ret' = [ret EXCEPT ![w] = label]
  /\ Goto(w, "store")
  /\ UNCHANGED <<activeTxns, raced>>

\* Second half: store the loaded value plus delta, whatever is there by now.
StoreCounter(w) ==
  /\ pc[w] = "store"
  /\ activeTxns' = reg[w] + delta[w]
  /\ raced' = (raced \/ activeTxns # reg[w])
  /\ delta' = [delta EXCEPT ![w] = 0]
  /\ reg' = [reg EXCEPT ![w] = 0]
  /\ Goto(w, ret[w])
  /\ ret' = [ret EXCEPT ![w] = "idle"]
  /\ UNCHANGED <<ctxVars, callVars, frames, locks, leaked>>

\* _db.get_transaction: wait until the database is not locked.
PassGate(w) ==
  /\ pc[w] = "gate"
  /\ locks = 0
  /\ Goto(w, "begin")
  /\ UNCHANGED <<ret, ctxVars, callVars, frames, countVars, locks, leaked>>

\* Transaction.__init__ and the assignment of the handle to context._trans.
\* An open handle found there is lost: nobody will commit or abort it.
Begin(w) ==
  /\ pc[w] = "begin"
  /\ leaked' = leaked + (IF ctx[w] = "open" THEN 1 ELSE 0)
  /\ ctx' = [ctx EXCEPT ![w] = "open"]
  /\ snapshot' = [snapshot EXCEPT ![w] = (ret[w] = "reading")]
  /\ txnal' = [txnal EXCEPT ![w] = @ \/ ret[w] = "body"]
  /\ LoadCounter(w, 1, ret[w])
  /\ UNCHANGED <<hasTxn, home, retries, depth, failed, commits, frames, locks>>

MutantAbortNotCounted(w, after, label) ==
  /\ ctx[w] = "open" /\ ctx' = [ctx EXCEPT ![w] = after]
  /\ Goto(w, label)
  /\ UNCHANGED <<ret, snapshot, countVars>>

\* Transaction.abort of an open handle, then go on at label.
Abort(w, after, label) ==
  /\ ctx[w] = "open"
  /\ ctx' = [ctx EXCEPT ![w] = after]
  /\ snapshot' = [snapshot EXCEPT ![w] = FALSE]
  /\ LoadCounter(w, -1, label)

-----------------------------------------------------------------------------
(* Serving a request.                                                      *)

\* A thread takes a request from the queue.  A request for an item opens the
\* snapshot transaction first; one for a published directory opens none.
StartRequest(w) ==
  /\ pc[w] = "idle"
  /\ WithinBounds
  /\ frames' = [frames EXCEPT ![w] = 1]
  /\ \/ /\ Goto(w, "gate")
        /\ ret' = [ret EXCEPT ![w] = "reading"]
     \/ /\ Goto(w, "public")
        /\ UNCHANGED ret
  /\ UNCHANGED <<ctxVars, callVars, countVars, locks, leaked>>

\* A server page of a published directory opens its snapshot transaction.
OpenPage(w) ==
  /\ pc[w] = "public"
  /\ Goto(w, "gate")
  /\ ret' = [ret EXCEPT ![w] = "reading"]
  /\ UNCHANGED <<ctxVars, callVars, frames, countVars, locks, leaked>>

\* InternalRedirect: handle_request calls itself for the new location.
Redirect(w) ==
  /\ pc[w] \in {"reading", "public"}
  /\ frames[w] <= MaxRedirects
  /\ WithinBounds
  /\ frames' = [frames EXCEPT ![w] = @ + 1]
  /\ \/ /\ Goto(w, "gate")
        /\ ret' = [ret EXCEPT ![w] = "reading"]
     \/ /\ Goto(w, "public")
        /\ UNCHANGED ret
  /\ UNCHANGED <<ctxVars, callVars, countVars, locks, leaked>>

\* A read outside a transactional function is chosen as deadlock victim: the
\* handle is aborted and the request fails.  Snapshot reads take no locks.
ReadVictim(w) ==
  /\ pc[w] = "reading"
  /\ ~snapshot[w]
  /\ Abort(w, "closed", "teardown")
  /\ UNCHANGED <<callVars, frames, locks, leaked>>

MutantNoTeardown(w) ==
  /\ pc[w] \in {"reading", "public"} /\ Goto(w, "respond")
  /\ UNCHANGED <<ret, ctxVars, callVars, frames, countVars, locks, leaked>>

\* The handler returns, or raises and the error page is emitted.
FinishRequest(w) ==
  /\ pc[w] \in {"reading", "public"}
  /\ Goto(w, "teardown")
  /\ UNCHANGED <<ret, ctxVars, callVars, frames, countVars, locks, leaked>>

\* Context._teardown.  Aborting a handle that is already closed raises: the
\* exception leaves handle_request, the connection is closed without a
\* response and the closed handle stays in the thread's context.
Teardown(w) ==
  /\ pc[w] = "teardown"
  /\ \/ /\ Abort(w, "none", "respond")
        /\ UNCHANGED frames
     \/ /\ ctx[w] = "none"
        /\ Goto(w, "respond")
        /\ UNCHANGED <<ret, ctxVars, frames, countVars>>
     \/ /\ ctx[w] = "closed"
        /\ Goto(w, "idle")
        /\ frames' = [frames EXCEPT ![w] = 0]
        /\ UNCHANGED <<ret, ctxVars, countVars>>
  /\ UNCHANGED <<callVars, locks, leaked>>

\* The response is written; a redirected request returns to the outer frame,
\* which tears the context down and responds once more.
Respond(w) ==
  /\ pc[w] = "respond"
  /\ frames' = [frames EXCEPT ![w] = @ - 1]
  /\ Goto(w, IF frames[w] = 1 THEN "idle" ELSE "teardown")
  /\ UNCHANGED <<ret, ctxVars, callVars, countVars, locks, leaked>>

-----------------------------------------------------------------------------
(* transactional_wrapper.                                                  *)

\* The outermost call: abort the transaction of the request if there is one.
\* If that handle is closed already the abort raises and the request fails.
\* The locals of the call start from the values LeaveCall left.
CallFunction(w) ==
  /\ pc[w] \in {"reading", "public"}
  /\ ~txnal[w]
  /\ WithinBounds
  /\ \/ /\ ctx[w] = "closed"
        /\ Goto(w, "teardown")
        /\ UNCHANGED <<ret, ctxVars, callVars, countVars>>
     \/ /\ ctx[w] # "closed"
        /\ home' = [home EXCEPT ![w] = pc[w]]
        /\ hasTxn' = [hasTxn EXCEPT ![w] = (ctx[w] = "open")]
        /\ \/ Abort(w, "closed", "newtxn")
           \/ /\ ctx[w] = "none"
              /\ Goto(w, "newtxn")
              /\ UNCHANGED <<ret, ctxVars, countVars>>
        /\ UNCHANGED <<txnal, retries, depth, failed, commits>>
  /\ UNCHANGED <<frames, locks, leaked>>

\* Ask for the transaction of the call.
NewTransaction(w) ==
  /\ pc[w] = "newtxn"
  /\ Goto(w, "gate")
  /\ ret' = [ret EXCEPT ![w] = "body"]
  /\ UNCHANGED <<ctxVars, callVars, frames, countVars, locks, leaked>>

\* A transactional function called by another one runs in its transaction.
CallNested(w) ==
  /\ pc[w] = "body"
  /\ depth[w] < MaxDepth
  /\ depth' = [depth EXCEPT ![w] = @ + 1]
  /\ UNCHANGED <<pc, ret, ctxVars, txnal, hasTxn, home, retries, failed,
                 commits, frames, countVars, locks, leaked>>

ReturnNested(w) ==
  /\ pc[w] = "body"
  /\ depth[w] > 0
  /\ depth' = [depth EXCEPT ![w] = @ - 1]
  /\ UNCHANGED <<pc, ret, ctxVars, txnal, hasTxn, home, retries, failed,
                 commits, frames, countVars, locks, leaked>>

MutantNoAutoCommit(w) ==
  /\ pc[w] = "body" /\ depth[w] = 0 /\ Goto(w, "exit")
  /\ UNCHANGED <<ret, ctxVars, callVars, frames, countVars, locks, leaked>>

\* The outermost function returns: auto_commit.
Commit(w) ==
  /\ pc[w] = "body"
  /\ depth[w] = 0
  /\ commits' = [commits EXCEPT ![w] = @ + 1]
  /\ ctx' = [ctx EXCEPT ![w] = "closed"]
  /\ LoadCounter(w, -1, "exit")
  /\ UNCHANGED <<snapshot, txnal, hasTxn, home, retries, depth, failed,
                 frames, locks, leaked>>

\* A database operation of the function is the deadlock victim: the database
\* layer aborts the transaction and raises DBRetryTransaction, which every
\* nested wrapper lets through.
Victim(w) ==
  /\ pc[w] = "body"
  /\ Abort(w, "closed", "victim")
  /\ depth' = [depth EXCEPT ![w] = 0]
  /\ UNCHANGED <<txnal, hasTxn, home, retries, failed, commits, frames, locks,
                 leaked>>

MutantExhaustedLate(w) == retries[w] >= MaxRetries

\* The loop condition of the wrapper fails after this attempt.
Exhausted(w) == retries[w] + 1 >= MaxRetries

MutantRetryNotCounted(w) ==
  /\ pc[w] = "victim" /\ Goto(w, "backoff")
  /\ UNCHANGED <<ret, ctxVars, callVars, frames, countVars, locks, leaked>>

\* The outermost wrapper counts the attempt; after the last one it raises
\* DBDeadlockError.
CountRetry(w) ==
  /\ pc[w] = "victim"
  /\ retries' = [retries EXCEPT ![w] = @ + 1]
  /\ failed' = [failed EXCEPT ![w] = Exhausted(w)]
  /\ Goto(w, IF Exhausted(w) THEN "exit" ELSE "backoff")
  /\ UNCHANGED <<ret, ctxVars, txnal, hasTxn, home, depth, commits, frames,
                 countVars, locks, leaked>>

\* Sleep, then Transaction._retry: a new transaction, without get_transaction.
Retry(w) ==
  /\ pc[w] = "backoff"
  /\ Goto(w, "begin")
  /\ ret' = [ret EXCEPT ![w] = "body"]
  /\ UNCHANGED <<ctxVars, callVars, frames, countVars, locks, leaked>>

MutantFailSwallowed(w) ==
  /\ pc[w] = "body" /\ Abort(w, "closed", "exit")
  /\ UNCHANGED <<callVars, frames, locks, leaked>>

\* The function raises: the innermost wrapper aborts the transaction.
Fail(w) ==
  /\ pc[w] = "body"
  /\ failed' = [failed EXCEPT ![w] = TRUE]
  /\ Abort(w, "closed", IF depth[w] = 0 THEN "exit" ELSE "unwind")
  /\ UNCHANGED <<txnal, hasTxn, home, retries, depth, commits, frames, locks,
                 leaked>>

MutantAbortCountedTwice(w) ==
  /\ pc[w] = "unwind" /\ LoadCounter(w, -1, "exit")
  /\ UNCHANGED <<ctxVars, callVars, frames, locks, leaked>>

\* The wrappers around it abort the same handle again.  Each abort raises
\* before it reaches the counter, and its exception replaces the first one.
Unwind(w) ==
  /\ pc[w] = "unwind"
  /\ depth' = [depth EXCEPT ![w] = 0]
  /\ Goto(w, "exit")
  /\ UNCHANGED <<ret, ctxVars, txnal, hasTxn, home, retries, failed, commits,
                 frames, countVars, locks, leaked>>

\* The finally clause: reopen a transaction for the rest of the request if
\* there was one.  The flags it asks for are not passed on, so the new one is
\* no snapshot.
ExitCall(w) ==
  /\ pc[w] = "exit"
  /\ IF hasTxn[w]
     THEN /\ Goto(w, "gate")
          /\ ret' = [ret EXCEPT ![w] = "leave"]
          /\ UNCHANGED ctx
     ELSE /\ Goto(w, "leave")
          /\ ctx' = [ctx EXCEPT ![w] = "none"]
          /\ UNCHANGED ret
  /\ UNCHANGED <<snapshot, callVars, frames, countVars, locks, leaked>>

LeaveCall(w) ==
  /\ pc[w] = "leave"
  /\ txnal' = [txnal EXCEPT ![w] = FALSE]
  /\ Goto(w, IF failed[w] THEN "teardown" ELSE home[w])
  /\ hasTxn' = [hasTxn EXCEPT ![w] = FALSE]
  /\ home' = [home EXCEPT ![w] = "reading"]
  /\ retries' = [retries EXCEPT ![w] = 0]
  /\ depth' = [depth EXCEPT ![w] = 0]
  /\ failed' = [failed EXCEPT ![w] = FALSE]
  /\ commits' = [commits EXCEPT ![w] = 0]
  /\ UNCHANGED <<ret, ctxVars, frames, countVars, locks, leaked>>

-----------------------------------------------------------------------------
(* The database lock.                                                      *)

\* `_locks += 1' of lock() and `_locks -= 1' of unlock(): the load.
LoadLocks(a, label) ==
  /\ reg' = [reg EXCEPT ![a] = locks]
  /\ Goto(a, label)
  /\ UNCHANGED <<ret, ctxVars, callVars, frames, delta, activeTxns, raced,
                 locks, leaked>>

Lock(a) ==
  /\ pc[a] = "idle"
  /\ locks <= Cardinality(Admins) + MaxDrift
  /\ LoadLocks(a, "raise")

MutantUnlockMissing(a) ==
  /\ pc[a] = "locked" /\ Goto(a, "idle")
  /\ UNCHANGED <<ret, ctxVars, callVars, frames, countVars, locks, leaked>>

\* Another thread's race may have left _locks at zero.
Unlock(a) ==
  /\ pc[a] = "locked"
  /\ IF locks # 0 THEN LoadLocks(a, "lower")
     ELSE /\ Goto(a, "idle")
          /\ UNCHANGED <<ret, ctxVars, callVars, frames, countVars, locks,
                         leaked>>

\* The store.
StoreLocks(a) ==
  /\ \/ /\ pc[a] = "raise"
        /\ locks' = reg[a] + 1
        /\ Goto(a, "wait")
     \/ /\ pc[a] = "lower"
        /\ locks' = reg[a] - 1
        /\ Goto(a, "idle")
  /\ raced' = (raced \/ locks # reg[a])
  /\ reg' = [reg EXCEPT ![a] = 0]
  /\ UNCHANGED <<ret, ctxVars, callVars, frames, delta, activeTxns, leaked>>

\* lock() returns once it sees no active transaction.
Drained(a) ==
  /\ pc[a] = "wait"
  /\ activeTxns <= 0
  /\ Goto(a, "locked")
  /\ UNCHANGED <<ret, ctxVars, callVars, frames, countVars, locks, leaked>>

-----------------------------------------------------------------------------
Worker(w) ==
  \/ StoreCounter(w) \/ PassGate(w) \/ Begin(w)
  \/ StartRequest(w) \/ OpenPage(w) \/ Redirect(w) \/ ReadVictim(w)
  \/ FinishRequest(w) \/ Teardown(w) \/ Respond(w)
  \/ CallFunction(w) \/ NewTransaction(w) \/ CallNested(w) \/ ReturnNested(w)
  \/ Commit(w) \/ Victim(w) \/ CountRetry(w) \/ Retry(w) \/ Fail(w)
  \/ Unwind(w) \/ ExitCall(w) \/ LeaveCall(w)

Admin(a) ==
  Lock(a) \/ Unlock(a) \/ StoreLocks(a) \/ Drained(a)

Next == (\E w \in Workers : Worker(w)) \/ (\E a \in Admins : Admin(a))

Spec == Init /\ [][Next]_vars

(***************************************************************************)
(* Fairness.  The operating system runs every thread, so a thread that can *)
(* go on does.  A request handler, and a transactional function, returns   *)
(* after finitely many calls of other functions: FinishRequest and the     *)
(* ways out of a function get strong fairness.  So does the gate, which is *)
(* polled five times a second while the lock is taken by operator commands *)
(* only.  Nothing forces a request or a command to come.                   *)
(***************************************************************************)
Return(w) == Commit(w) \/ Victim(w) \/ Fail(w)

Fairness ==
  /\ \A w \in Workers :
       /\ WF_vars(Worker(w) /\ pc[w] # "idle")
       /\ SF_vars(FinishRequest(w))
       /\ SF_vars(Return(w))
       /\ SF_vars(PassGate(w))
  /\ \A a \in Admins : WF_vars(Admin(a) /\ pc[a] # "idle")

FairSpec == Spec /\ Fairness

\* The behaviours in which no two updates of a counter overlap.
CalmSpec == Init /\ [][Next /\ ~raced']_vars /\ Fairness

-----------------------------------------------------------------------------
(* Properties.                                                             *)

\* The transactions the counter stands for: open ones whose increment has
\* been stored and closed ones whose decrement has not.
Counted ==
  {w \in Workers : \/ delta[w] = -1
                   \/ ctx[w] = "open" /\ delta[w] # 1}

\* As long as no two updates of a counter have overlapped, _activeTxns is the
\* number of transactions that are open, the lost ones included: no path of
\* commits, retries, failures and repeated aborts counts one twice or forgets
\* one.
CounterExact == ~raced => activeTxns = Cardinality(Counted) + leaked

Holders == {a \in Admins : pc[a] \in {"wait", "locked", "lower"}}

\* Likewise _locks is the number of commands between lock() and unlock(), so
\* the gate stays shut for the whole of each of them.
LocksExact == ~raced => locks = Cardinality(Holders)

\* A transactional function, at whatever depth and attempt, runs inside an
\* open transaction that has committed nothing yet, marked transactional, and
\* is attempted at most trans_max_retries times.
FunctionRunsInTransaction ==
  \A w \in Workers :
    pc[w] = "body" => /\ ctx[w] = "open"
                      /\ txnal[w]
                      /\ commits[w] = 0
                      /\ retries[w] < MaxRetries

\* When the wrapper is left the call has committed exactly once if it returns
\* and never if it raises, however many attempts were made.
AllOrNothing ==
  \A w \in Workers :
    pc[w] = "leave" => commits[w] = IF failed[w] THEN 0 ELSE 1

\* A thread that waits for its next request holds no open transaction and is
\* not in transactional mode, whatever happened to the last one.
IdleHoldsNothing ==
  \A w \in Workers :
    pc[w] = "idle" => ctx[w] # "open" /\ ~txnal[w] /\ frames[w] = 0

\* Outside an internal redirect no open handle is ever overwritten by a new
\* one: the wrapper has always closed the transaction it replaces.
NoHandleOverwritten ==
  \A w \in Workers :
    pc[w] \in {"gate", "begin"} /\ frames[w] = 1 => ctx[w] # "open"

\* _db.py:216 "allow active transactions to commit or abort...": once lock()
\* has returned no transaction is open.
LockExcludesTransactions ==
  (\E a \in Admins : pc[a] = "locked") /\ ~raced =>
    /\ leaked = 0
    /\ \A w \in Workers : ctx[w] # "open"

\* A request that is being served ends (in CalmSpec, where no counter update
\* is lost): neither the gate nor the retries of its calls hold it for ever.
RequestsEnd == \A w \in Workers : pc[w] # "idle" ~> pc[w] = "idle"

\* lock() returns (in CalmSpec): the transactions it waits for end although
\* their threads may be waiting at the gate lock() has closed.
LockReturns == \A a \in Admins : pc[a] = "wait" ~> pc[a] = "locked"

\* Requests and lock() end in spite of each other.
EverybodyGoesOn == RequestsEnd /\ LockReturns
=============================================================================
