------------------------- MODULE TransactionsProofs -------------------------
(***************************************************************************)
(* Proofs about Transactions, for any number of workers, retries, nested   *)
(* calls and redirects.                                                    *)
(*                                                                         *)
(* A counter update is split in two, so a worker at "store" is already on  *)
(* its way to ret[w]: At(w) is where the worker is or is about to be, and  *)
(* WorkerInv says what holds there.  The invariant is inductive together   *)
(* with the typing and with the two exact counts.                          *)
(***************************************************************************)
EXTENDS Transactions, FiniteSetTheorems, TLAPS

At(w) == IF pc[w] = "store" THEN ret[w] ELSE pc[w]

\* w waits for a transaction, or for its count, on the way to label.
Acquiring(w, label) == pc[w] \in {"gate", "begin"} /\ ret[w] = label

\* w is inside transactional_wrapper.
InCall(w) ==
  \/ At(w) \in {"newtxn", "body", "victim", "backoff", "unwind", "exit",
               "leave"}
  \/ Acquiring(w, "body")
  \/ Acquiring(w, "leave")

CountInv(w) ==
  /\ pc[w] = "store" <=> delta[w] # 0
  /\ delta[w] = 1 => ctx[w] = "open"
  /\ delta[w] = -1 => ctx[w] # "open"
  /\ pc[w] \in {"gate", "begin"} => ret[w] \in {"reading", "body", "leave"}
  /\ At(w) \notin {"store", "gate", "begin"} \/ pc[w] \in {"gate", "begin"}
  /\ pc[w] = "store" => ret[w] # "idle" /\ ret[w] # "public"

\* Outside a call the locals of the wrapper are gone.
OutsideInv(w) ==
  ~InCall(w) => /\ ~txnal[w]
                /\ ~failed[w]
                /\ commits[w] = 0
                /\ retries[w] = 0

CallInv(w) ==
  /\ At(w) = "newtxn" => ~failed[w] /\ commits[w] = 0 /\ retries[w] = 0
                         /\ ctx[w] # "open"
  /\ Acquiring(w, "body") => /\ ctx[w] # "open"
                             /\ ~failed[w]
                             /\ commits[w] = 0
                             /\ retries[w] < MaxRetries
  /\ At(w) = "body" => /\ ctx[w] = "open"
                       /\ txnal[w]
                       /\ ~failed[w]
                       /\ commits[w] = 0
                       /\ retries[w] < MaxRetries
  /\ At(w) \in {"victim", "backoff"} => /\ ctx[w] # "open"
                                        /\ ~failed[w]
                                        /\ commits[w] = 0
                                        /\ retries[w] < MaxRetries
  /\ At(w) = "unwind" => ctx[w] # "open" /\ failed[w] /\ commits[w] = 0
  /\ At(w) = "exit" => ctx[w] # "open"
  /\ Acquiring(w, "leave") => ctx[w] # "open" /\ hasTxn[w]
  /\ At(w) = "leave" /\ ~hasTxn[w] => ctx[w] # "open"
  /\ At(w) \in {"exit", "leave"} \/ Acquiring(w, "leave") =>
       commits[w] = IF failed[w] THEN 0 ELSE 1

FrameInv(w) ==
  /\ At(w) = "idle" => ctx[w] # "open" /\ frames[w] = 0
  /\ At(w) # "idle" => frames[w] >= 1
  /\ At(w) = "respond" => ctx[w] # "open"
  /\ At(w) = "public" /\ frames[w] = 1 => ctx[w] # "open"
  /\ Acquiring(w, "reading") /\ frames[w] = 1 => ctx[w] # "open"
  /\ InCall(w) /\ home[w] = "public" /\ frames[w] = 1 => ~hasTxn[w]

WorkerInv(w) == CountInv(w) /\ OutsideInv(w) /\ CallInv(w) /\ FrameInv(w)

AdminInv(a) == reg[a] \in Nat /\ (pc[a] = "lower" => reg[a] >= 1)

IInv ==
  /\ TypeOK
  /\ \A w \in Workers : WorkerInv(w)
  /\ \A a \in Admins : AdminInv(a)
  /\ CounterExact
  /\ LocksExact

-----------------------------------------------------------------------------
\* Nothing of v changes.
Same(v) ==
  /\ pc'[v] = pc[v] /\ ret'[v] = ret[v] /\ ctx'[v] = ctx[v]
  /\ txnal'[v] = txnal[v] /\ hasTxn'[v] = hasTxn[v] /\ home'[v] = home[v]
  /\ retries'[v] = retries[v] /\ failed'[v] = failed[v]
  /\ commits'[v] = commits[v] /\ frames'[v] = frames[v]
  /\ delta'[v] = delta[v]

LEMMA SameKeepsInv ==
  ASSUME NEW v \in Workers, WorkerInv(v), Same(v)
  PROVE  WorkerInv(v)'
BY DEF WorkerInv, CountInv, OutsideInv, CallInv, FrameInv, At, Acquiring,
       InCall, Same

\* A step of a worker keeps the types.
LEMMA WorkerTyping ==
  ASSUME TypeOK, NEW w \in Workers, WorkerInv(w), Worker(w)
  PROVE  TypeOK'
<1> USE TransactionsAssumption DEF TypeOK, Threads, WorkerPc, AdminPc,
        ctxVars, callVars, countVars, Goto, LoadCounter, Abort, WorkerInv,
        CountInv, CallInv, FrameInv, At, Exhausted
<1>1. CASE StoreCounter(w)
  BY <1>1 DEF StoreCounter
<1>2. CASE PassGate(w)
  BY <1>2 DEF PassGate
<1>3. CASE Begin(w)
  BY <1>3 DEF Begin
<1>4. CASE StartRequest(w)
  BY <1>4 DEF StartRequest
<1>5. CASE OpenPage(w)
  BY <1>5 DEF OpenPage
<1>6. CASE Redirect(w)
  BY <1>6 DEF Redirect
<1>7. CASE ReadVictim(w)
  BY <1>7 DEF ReadVictim
<1>8. CASE FinishRequest(w)
  BY <1>8 DEF FinishRequest
<1>9. CASE Teardown(w)
  <2>1. CASE ctx[w] = "closed"
    BY <1>9, <2>1 DEF Teardown
  <2>2. CASE ctx[w] = "open"
    <3>1. /\ ctx' = [ctx EXCEPT ![w] = "none"]
          /\ snapshot' = [snapshot EXCEPT ![w] = FALSE]
          /\ delta' = [delta EXCEPT ![w] = -1]
          /\ reg' = [reg EXCEPT ![w] = activeTxns]
          /\ ret' = [ret EXCEPT ![w] = "respond"]
          /\ pc' = [pc EXCEPT ![w] = "store"]
          /\ UNCHANGED <<callVars, activeTxns, raced, frames, locks, leaked>>
      BY <1>9, <2>2, Zenon DEF Teardown
    <3> QED BY <3>1
  <2>3. CASE ctx[w] = "none"
    BY <1>9, <2>3 DEF Teardown
  <2> QED BY <2>1, <2>2, <2>3
<1>10. CASE Respond(w)
  BY <1>10 DEF Respond
<1>11. CASE CallFunction(w)
  <2>1. CASE ctx[w] = "closed"
    BY <1>11, <2>1 DEF CallFunction
  <2>2. CASE ctx[w] = "open"
    <3>1. /\ ctx' = [ctx EXCEPT ![w] = "closed"]
          /\ snapshot' = [snapshot EXCEPT ![w] = FALSE]
          /\ delta' = [delta EXCEPT ![w] = -1]
          /\ reg' = [reg EXCEPT ![w] = activeTxns]
          /\ ret' = [ret EXCEPT ![w] = "newtxn"]
          /\ pc' = [pc EXCEPT ![w] = "store"]
          /\ home' = [home EXCEPT ![w] = pc[w]]
          /\ hasTxn' = [hasTxn EXCEPT ![w] = (ctx[w] = "open")]
          /\ pc[w] \in {"reading", "public"}
          /\ UNCHANGED <<txnal, retries, depth, failed, commits, activeTxns,
                         raced, frames, locks, leaked>>
      BY <1>11, <2>2, Zenon DEF CallFunction
    <3>2. /\ hasTxn' \in [Workers -> BOOLEAN]
          /\ home' \in [Workers -> {"reading", "public"}]
      BY <3>1
    <3> QED BY <3>1, <3>2
  <2>3. CASE ctx[w] = "none"
    <3>1. /\ hasTxn' \in [Workers -> BOOLEAN]
          /\ home' \in [Workers -> {"reading", "public"}]
      BY <1>11, <2>3 DEF CallFunction
    <3> QED BY <1>11, <2>3, <3>1 DEF CallFunction
  <2> QED BY <2>1, <2>2, <2>3
<1>12. CASE NewTransaction(w)
  BY <1>12 DEF NewTransaction
<1>13. CASE CallNested(w)
  BY <1>13 DEF CallNested
<1>14. CASE ReturnNested(w)
  BY <1>14 DEF ReturnNested
<1>15. CASE Commit(w)
  BY <1>15 DEF Commit
<1>16. CASE Victim(w)
  BY <1>16 DEF Victim
<1>17. CASE CountRetry(w)
  BY <1>17 DEF CountRetry
<1>18. CASE Retry(w)
  BY <1>18 DEF Retry
<1>19. CASE Fail(w)
  BY <1>19 DEF Fail
<1>20. CASE Unwind(w)
  BY <1>20 DEF Unwind
<1>21. CASE ExitCall(w)
  BY <1>21 DEF ExitCall
<1>22. CASE LeaveCall(w)
  BY <1>22 DEF LeaveCall
<1> QED BY <1>1, <1>2, <1>3, <1>4, <1>5, <1>6, <1>7, <1>8, <1>9, <1>10, <1>11,
           <1>12, <1>13, <1>14, <1>15, <1>16, <1>17, <1>18, <1>19, <1>20,
           <1>21, <1>22 DEF Worker

LEMMA WorkerKeepsOthers ==
  ASSUME TypeOK, NEW w \in Workers, Worker(w), NEW v \in Workers, v # w
  PROVE  Same(v)
<1> USE TransactionsAssumption DEF TypeOK, Threads, ctxVars, callVars,
        countVars, Goto, LoadCounter, Abort, Same
<1>1. CASE StoreCounter(w)
  BY <1>1 DEF StoreCounter
<1>2. CASE PassGate(w)
  BY <1>2 DEF PassGate
<1>3. CASE Begin(w)
  BY <1>3 DEF Begin
<1>4. CASE StartRequest(w)
  BY <1>4 DEF StartRequest
<1>5. CASE OpenPage(w)
  BY <1>5 DEF OpenPage
<1>6. CASE Redirect(w)
  BY <1>6 DEF Redirect
<1>7. CASE ReadVictim(w)
  BY <1>7 DEF ReadVictim
<1>8. CASE FinishRequest(w)
  BY <1>8 DEF FinishRequest
<1>9. CASE Teardown(w)
  BY <1>9 DEF Teardown
<1>10. CASE Respond(w)
  BY <1>10 DEF Respond
<1>11. CASE CallFunction(w)
  BY <1>11 DEF CallFunction
<1>12. CASE NewTransaction(w)
  BY <1>12 DEF NewTransaction
<1>13. CASE CallNested(w)
  BY <1>13 DEF CallNested
<1>14. CASE ReturnNested(w)
  BY <1>14 DEF ReturnNested
<1>15. CASE Commit(w)
  BY <1>15 DEF Commit
<1>16. CASE Victim(w)
  BY <1>16 DEF Victim
<1>17. CASE CountRetry(w)
  BY <1>17 DEF CountRetry
<1>18. CASE Retry(w)
  BY <1>18 DEF Retry
<1>19. CASE Fail(w)
  BY <1>19 DEF Fail
<1>20. CASE Unwind(w)
  BY <1>20 DEF Unwind
<1>21. CASE ExitCall(w)
  BY <1>21 DEF ExitCall
<1>22. CASE LeaveCall(w)
  BY <1>22 DEF LeaveCall
<1> QED BY <1>1, <1>2, <1>3, <1>4, <1>5, <1>6, <1>7, <1>8, <1>9, <1>10, <1>11,
           <1>12, <1>13, <1>14, <1>15, <1>16, <1>17, <1>18, <1>19, <1>20,
           <1>21, <1>22 DEF Worker

LEMMA WorkerKeepsInv ==
  ASSUME TypeOK, NEW w \in Workers, WorkerInv(w), Worker(w)
  PROVE  WorkerInv(w)'
<1> USE TransactionsAssumption DEF TypeOK, Threads, WorkerPc, ctxVars,
        callVars, countVars, Goto, LoadCounter, Abort, WorkerInv, CountInv,
        OutsideInv, CallInv, FrameInv, At, Acquiring, InCall
<1>1. CASE StoreCounter(w)
  BY <1>1 DEF StoreCounter
<1>2. CASE PassGate(w)
  BY <1>2 DEF PassGate
<1>3. CASE Begin(w)
  <2>1. CASE ret[w] = "body"
    <3>1. txnal' = [txnal EXCEPT ![w] = TRUE]
      <4>1. (txnal[w] \/ ret[w] = "body") = TRUE
        BY <2>1
      <4> QED BY <1>3, <4>1, Zenon DEF Begin
    <3> QED BY <1>3, <2>1, <3>1 DEF Begin
  <2>2. CASE ret[w] # "body"
    <3>1. txnal' = txnal
      BY <1>3, <2>2, SMT DEF Begin
    <3> QED BY <1>3, <2>2, <3>1 DEF Begin
  <2> QED BY <2>1, <2>2
<1>4. CASE StartRequest(w)
  BY <1>4 DEF StartRequest
<1>5. CASE OpenPage(w)
  BY <1>5 DEF OpenPage
<1>6. CASE Redirect(w)
  BY <1>6 DEF Redirect
<1>7. CASE ReadVictim(w)
  BY <1>7 DEF ReadVictim
<1>8. CASE FinishRequest(w)
  BY <1>8 DEF FinishRequest
<1>9. CASE Teardown(w)
  BY <1>9 DEF Teardown
<1>10. CASE Respond(w)
  BY <1>10 DEF Respond
<1>11. CASE CallFunction(w)
  BY <1>11 DEF CallFunction
<1>12. CASE NewTransaction(w)
  BY <1>12 DEF NewTransaction
<1>13. CASE CallNested(w)
  BY <1>13 DEF CallNested
<1>14. CASE ReturnNested(w)
  BY <1>14 DEF ReturnNested
<1>15. CASE Commit(w)
  BY <1>15 DEF Commit
<1>16. CASE Victim(w)
  BY <1>16 DEF Victim
<1>17. CASE CountRetry(w)
  <2>1. CASE Exhausted(w)
    <3>1. /\ failed' = [failed EXCEPT ![w] = TRUE]
          /\ pc' = [pc EXCEPT ![w] = "exit"]
      BY <1>17, <2>1, Zenon DEF CountRetry
    <3> QED BY <1>17, <2>1, <3>1 DEF CountRetry, Exhausted
  <2>2. CASE ~Exhausted(w)
    <3>1. /\ failed' = [failed EXCEPT ![w] = FALSE]
          /\ pc' = [pc EXCEPT ![w] = "backoff"]
      <4>1. Exhausted(w) = FALSE
        BY <2>2 DEF Exhausted
      <4> QED BY <1>17, <2>2, <4>1, Zenon DEF CountRetry
    <3> QED BY <1>17, <2>2, <3>1 DEF CountRetry, Exhausted
  <2> QED BY <2>1, <2>2
<1>18. CASE Retry(w)
  BY <1>18 DEF Retry
<1>19. CASE Fail(w)
  BY <1>19 DEF Fail
<1>20. CASE Unwind(w)
  BY <1>20 DEF Unwind
<1>21. CASE ExitCall(w)
  BY <1>21 DEF ExitCall
<1>22. CASE LeaveCall(w)
  BY <1>22 DEF LeaveCall
<1> QED BY <1>1, <1>2, <1>3, <1>4, <1>5, <1>6, <1>7, <1>8, <1>9, <1>10, <1>11,
           <1>12, <1>13, <1>14, <1>15, <1>16, <1>17, <1>18, <1>19, <1>20,
           <1>21, <1>22 DEF Worker

\* A step of a management thread keeps the types and its own invariant, and
\* touches nothing of the workers.
LEMMA AdminKeepsInv ==
  ASSUME TypeOK, NEW a \in Admins, AdminInv(a), Admin(a)
  PROVE  /\ TypeOK'
         /\ \A b \in Admins : AdminInv(b) => AdminInv(b)'
         /\ \A v \in Workers : Same(v)
<1> USE TransactionsAssumption DEF TypeOK, Threads, WorkerPc, AdminPc, ctxVars,
        callVars, countVars, Goto, LoadLocks, AdminInv, Same
<1>1. CASE Lock(a)
  BY <1>1 DEF Lock
<1>2. CASE Unlock(a)
  BY <1>2 DEF Unlock
<1>3. CASE StoreLocks(a)
  BY <1>3 DEF StoreLocks
<1>4. CASE Drained(a)
  BY <1>4 DEF Drained
<1> QED BY <1>1, <1>2, <1>3, <1>4 DEF Admin

\* A step of a worker touches nothing of the management threads.
LEMMA WorkerKeepsAdmins ==
  ASSUME TypeOK, NEW w \in Workers, Worker(w), NEW a \in Admins
  PROVE  pc'[a] = pc[a] /\ reg'[a] = reg[a]
<1> USE TransactionsAssumption DEF TypeOK, Threads, ctxVars, callVars,
        countVars, Goto, LoadCounter, Abort
<1>1. CASE StoreCounter(w)
  BY <1>1 DEF StoreCounter
<1>2. CASE Begin(w)
  BY <1>2 DEF Begin
<1>3. CASE PassGate(w)
  BY <1>3 DEF PassGate
<1>4. CASE StartRequest(w)
  BY <1>4 DEF StartRequest
<1>5. CASE OpenPage(w)
  BY <1>5 DEF OpenPage
<1>6. CASE Redirect(w)
  BY <1>6 DEF Redirect
<1>7. CASE ReadVictim(w)
  BY <1>7 DEF ReadVictim
<1>8. CASE FinishRequest(w)
  BY <1>8 DEF FinishRequest
<1>9. CASE Teardown(w)
  BY <1>9 DEF Teardown
<1>10. CASE Respond(w)
  BY <1>10 DEF Respond
<1>11. CASE CallFunction(w)
  BY <1>11 DEF CallFunction
<1>12. CASE NewTransaction(w)
  BY <1>12 DEF NewTransaction
<1>13. CASE CallNested(w)
  BY <1>13 DEF CallNested
<1>14. CASE ReturnNested(w)
  BY <1>14 DEF ReturnNested
<1>15. CASE Commit(w)
  BY <1>15 DEF Commit
<1>16. CASE Victim(w)
  BY <1>16 DEF Victim
<1>17. CASE CountRetry(w)
  BY <1>17 DEF CountRetry
<1>18. CASE Retry(w)
  BY <1>18 DEF Retry
<1>19. CASE Fail(w)
  BY <1>19 DEF Fail
<1>20. CASE Unwind(w)
  BY <1>20 DEF Unwind
<1>21. CASE ExitCall(w)
  BY <1>21 DEF ExitCall
<1>22. CASE LeaveCall(w)
  BY <1>22 DEF LeaveCall
<1> QED BY <1>1, <1>2, <1>3, <1>4, <1>5, <1>6, <1>7, <1>8, <1>9, <1>10, <1>11,
           <1>12, <1>13, <1>14, <1>15, <1>16, <1>17, <1>18, <1>19, <1>20,
           <1>21, <1>22 DEF Worker

LEMMA WorkerKeepsLocks ==
  ASSUME NEW w \in Workers, Worker(w)
  PROVE  locks' = locks /\ (~raced' => ~raced)
<1>1. CASE StoreCounter(w)
  BY <1>1, Zenon DEF StoreCounter
<1>2. CASE ~StoreCounter(w)
  <2>1. locks' = locks /\ raced' = raced
    BY <1>2 DEF Worker, Begin, PassGate, StartRequest, OpenPage, Redirect,
       ReadVictim, FinishRequest, Teardown, Respond, CallFunction,
       NewTransaction, CallNested, ReturnNested, Commit, Victim, CountRetry,
       Retry, Fail, Unwind, ExitCall, LeaveCall, LoadCounter, Abort, countVars
  <2> QED BY <2>1
<1> QED BY <1>1, <1>2

-----------------------------------------------------------------------------
(* The counts.                                                             *)

LEMMA CountedFinite == IsFiniteSet(Counted) /\ Cardinality(Counted) \in Nat
<1>1. Counted \subseteq Workers
  BY DEF Counted
<1> QED BY <1>1, TransactionsAssumption, FS_Subset, FS_CardinalityType

\* Every other step of a worker leaves it counted or not as it was.
LEMMA QuietSteps ==
  ASSUME TypeOK, NEW w \in Workers, WorkerInv(w), Worker(w),
         ~StoreCounter(w), ~Begin(w)
  PROVE  /\ w \in Counted' <=> w \in Counted
         /\ UNCHANGED <<activeTxns, leaked, raced>>
<1> USE TransactionsAssumption DEF TypeOK, Threads, ctxVars, callVars,
        countVars, Goto, LoadCounter, Abort, Counted, WorkerInv, CountInv,
        CallInv, At, Acquiring
<1>1. CASE PassGate(w)
  BY <1>1 DEF PassGate
<1>2. CASE StartRequest(w)
  BY <1>2 DEF StartRequest
<1>3. CASE OpenPage(w)
  BY <1>3 DEF OpenPage
<1>4. CASE Redirect(w)
  BY <1>4 DEF Redirect
<1>5. CASE ReadVictim(w)
  BY <1>5 DEF ReadVictim
<1>6. CASE FinishRequest(w)
  BY <1>6 DEF FinishRequest
<1>7. CASE Teardown(w)
  BY <1>7 DEF Teardown
<1>8. CASE Respond(w)
  BY <1>8 DEF Respond
<1>9. CASE CallFunction(w)
  BY <1>9 DEF CallFunction
<1>10. CASE NewTransaction(w)
  BY <1>10 DEF NewTransaction
<1>11. CASE CallNested(w)
  BY <1>11 DEF CallNested
<1>12. CASE ReturnNested(w)
  BY <1>12 DEF ReturnNested
<1>13. CASE Commit(w)
  BY <1>13 DEF Commit
<1>14. CASE Victim(w)
  BY <1>14 DEF Victim
<1>15. CASE CountRetry(w)
  BY <1>15 DEF CountRetry
<1>16. CASE Retry(w)
  BY <1>16 DEF Retry
<1>17. CASE Fail(w)
  BY <1>17 DEF Fail
<1>18. CASE Unwind(w)
  BY <1>18 DEF Unwind
<1>19. CASE ExitCall(w)
  BY <1>19 DEF ExitCall
<1>20. CASE LeaveCall(w)
  BY <1>20 DEF LeaveCall
<1> QED BY <1>1, <1>2, <1>3, <1>4, <1>5, <1>6, <1>7, <1>8, <1>9, <1>10, <1>11,
           <1>12, <1>13, <1>14, <1>15, <1>16, <1>17, <1>18, <1>19, <1>20 DEF
           Worker

LEMMA WorkerKeepsCount ==
  ASSUME TypeOK, NEW w \in Workers, WorkerInv(w), Worker(w), CounterExact
  PROVE  CounterExact'
<1>1. SUFFICES ASSUME ~raced'
               PROVE  activeTxns' = Cardinality(Counted') + leaked'
  BY DEF CounterExact
<1>2. \A v \in Workers : v # w => (v \in Counted' <=> v \in Counted)
  BY WorkerKeepsOthers DEF Counted, Same
<1>3. Counted \subseteq Workers /\ Counted' \subseteq Workers
  BY DEF Counted
<1>4. CASE StoreCounter(w)
  <2>1. /\ activeTxns = Cardinality(Counted) + leaked
        /\ activeTxns' = activeTxns + delta[w]
        /\ leaked' = leaked
        /\ delta'[w] = 0 /\ ctx'[w] = ctx[w]
    BY <1>1, <1>4 DEF StoreCounter, CounterExact, TypeOK, ctxVars, Threads
  <2>2. CASE delta[w] = 1
    <3>1. w \notin Counted /\ w \in Counted'
      BY <2>1, <2>2 DEF Counted, WorkerInv, CountInv
    <3>2. Counted' = Counted \cup {w}
      BY <1>2, <1>3, <3>1
    <3>3. Cardinality(Counted') = Cardinality(Counted) + 1
      BY <3>1, <3>2, CountedFinite, FS_AddElement, Zenon
    <3> QED BY <2>1, <2>2, <3>3, CountedFinite DEF TypeOK
  <2>3. CASE delta[w] = -1
    <3>1. w \in Counted /\ w \notin Counted'
      BY <2>1, <2>3 DEF Counted, WorkerInv, CountInv
    <3>2. Counted' = Counted \ {w}
      BY <1>2, <1>3, <3>1
    <3>3. Cardinality(Counted') = Cardinality(Counted) - 1
      BY <3>1, <3>2, CountedFinite, FS_RemoveElement, Zenon
    <3> QED BY <2>1, <2>3, <3>3, CountedFinite DEF TypeOK
  <2>4. delta[w] # 0
    BY <1>4 DEF StoreCounter, WorkerInv, CountInv
  <2> QED BY <2>2, <2>3, <2>4 DEF TypeOK
<1>5. CASE Begin(w)
  <2>1. /\ activeTxns = Cardinality(Counted) + leaked
        /\ activeTxns' = activeTxns
        /\ leaked' = leaked + (IF ctx[w] = "open" THEN 1 ELSE 0)
        /\ delta'[w] = 1 /\ delta[w] = 0
    BY <1>1, <1>5 DEF Begin, LoadCounter, CounterExact, TypeOK, WorkerInv,
       CountInv
  <2>2. w \notin Counted' /\ (w \in Counted <=> ctx[w] = "open")
    BY <2>1 DEF Counted
  <2>3. CASE ctx[w] = "open"
    <3>1. Counted' = Counted \ {w}
      BY <1>2, <1>3, <2>2
    <3>2. Cardinality(Counted') = Cardinality(Counted) - 1
      BY <2>2, <2>3, <3>1, CountedFinite, FS_RemoveElement, Zenon
    <3> QED BY <2>1, <2>3, <3>2, CountedFinite DEF TypeOK
  <2>4. CASE ctx[w] # "open"
    <3>1. Counted' = Counted
      BY <1>2, <1>3, <2>2, <2>4
    <3> QED BY <2>1, <2>4, <3>1, CountedFinite DEF TypeOK
  <2> QED BY <2>3, <2>4
<1>6. CASE ~StoreCounter(w) /\ ~Begin(w)
  <2>1. Counted' = Counted
    BY <1>2, <1>3, <1>6, QuietSteps
  <2> QED BY <1>1, <1>6, <2>1, QuietSteps DEF CounterExact
<1> QED BY <1>4, <1>5, <1>6

LEMMA AdminKeepsCounts ==
  ASSUME TypeOK, NEW a \in Admins, AdminInv(a), Admin(a), CounterExact,
         LocksExact
  PROVE  CounterExact' /\ LocksExact'
<1>1. CounterExact'
  <2>1. Counted' = Counted
    BY AdminKeepsInv DEF Counted, Same
  <2>2. activeTxns' = activeTxns /\ leaked' = leaked
    BY DEF Admin, Lock, Unlock, StoreLocks, Drained, LoadLocks,
       countVars
  <2>3. ~raced' => ~raced
    <3>1. StoreLocks(a) => (~raced' => ~raced)
      BY Zenon DEF StoreLocks
    <3>2. ~StoreLocks(a) => raced' = raced
      BY Zenon DEF Admin, Lock, Unlock, Drained, LoadLocks,
         countVars
    <3> QED BY <3>1, <3>2
  <2> QED BY <2>1, <2>2, <2>3 DEF CounterExact
<1>2. IsFiniteSet(Holders) /\ Cardinality(Holders) \in Nat
  <2>1. Holders \subseteq Admins
    BY DEF Holders
  <2> QED BY <2>1, TransactionsAssumption, FS_Subset, FS_CardinalityType
<1>3. \A b \in Admins : b # a => pc'[b] = pc[b]
  BY DEF Admin, Lock, Unlock, StoreLocks, Drained, LoadLocks, Goto,
         TypeOK, Threads
<1>4. (a \in Holders <=> a \in Holders') => Holders' = Holders
  BY <1>3 DEF Holders
<1> USE TransactionsAssumption DEF TypeOK, Threads, Goto, LoadLocks, countVars
<1>5. ASSUME Lock(a) PROVE LocksExact'
  <2>1. pc[a] = "idle" /\ pc'[a] = "raise" /\ locks' = locks /\ raced' = raced
    BY <1>5 DEF Lock
  <2>2. a \in Holders <=> a \in Holders'
    BY <2>1 DEF Holders
  <2> QED BY <1>4, <2>1, <2>2 DEF LocksExact
<1>6. ASSUME Unlock(a) PROVE LocksExact'
  <2>1. CASE locks # 0
    <3>1. pc[a] = "locked" /\ pc'[a] = "lower" /\ locks' = locks
          /\ raced' = raced
      BY <1>6, <2>1 DEF Unlock
    <3>2. a \in Holders <=> a \in Holders'
      BY <3>1 DEF Holders
    <3> QED BY <1>4, <3>1, <3>2 DEF LocksExact
  <2>2. CASE locks = 0
    <3>1. a \in Holders /\ raced' = raced
      BY <1>6, <2>2 DEF Unlock, Holders
    <3>2. Cardinality(Holders) # 0
      BY <1>2, <3>1, FS_EmptySet
    <3>3. raced
      BY <2>2, <3>2, Zenon DEF LocksExact
    <3> QED BY <3>1, <3>3, Zenon DEF LocksExact
  <2> QED BY <2>1, <2>2
<1>7. ASSUME StoreLocks(a) PROVE LocksExact'
  <2>1. SUFFICES ASSUME ~raced'
                 PROVE  locks' = Cardinality(Holders')
    BY Zenon DEF LocksExact
  <2>2. locks = Cardinality(Holders) /\ locks = reg[a]
    BY <1>7, <2>1 DEF StoreLocks, LocksExact
  <2>3. CASE pc[a] = "raise"
    <3>1. pc'[a] = "wait" /\ locks' = locks + 1
      BY <1>7, <2>2, <2>3 DEF StoreLocks
    <3>2. a \notin Holders /\ Holders' = Holders \cup {a}
      BY <1>3, <2>3, <3>1 DEF Holders
    <3> QED BY <1>2, <2>2, <3>1, <3>2, FS_AddElement
  <2>4. CASE pc[a] = "lower"
    <3>1. pc'[a] = "idle" /\ locks' = locks - 1
      BY <1>7, <2>2, <2>4 DEF StoreLocks
    <3>2. a \in Holders /\ Holders' = Holders \ {a}
      BY <1>3, <2>4, <3>1 DEF Holders
    <3>3. Cardinality(Holders') = Cardinality(Holders) - 1
      BY <1>2, <3>2, FS_RemoveElement, Zenon
    <3> QED BY <1>2, <2>2, <3>1, <3>3
  <2> QED BY <1>7, <2>3, <2>4 DEF StoreLocks
<1>8. ASSUME Drained(a) PROVE LocksExact'
  <2>1. pc[a] = "wait" /\ pc'[a] = "locked" /\ locks' = locks /\ raced' = raced
    BY <1>8 DEF Drained
  <2>2. a \in Holders <=> a \in Holders'
    BY <2>1 DEF Holders
  <2> QED BY <1>4, <2>1, <2>2 DEF LocksExact
<1>9. LocksExact'
  BY <1>5, <1>6, <1>7, <1>8 DEF Admin
<1> QED BY <1>1, <1>9

-----------------------------------------------------------------------------
(* The theorems.                                                           *)

LEMMA InitIInv == Init => IInv
<1> SUFFICES ASSUME Init PROVE IInv
  OBVIOUS
<1> USE TransactionsAssumption DEF Init, Threads
<1>1. TypeOK
  <2>1. /\ pc \in [Threads -> WorkerPc \cup AdminPc]
        /\ \A w \in Workers : pc[w] \in WorkerPc
        /\ \A a \in Admins : pc[a] \in AdminPc
    BY DEF WorkerPc, AdminPc
  <2>2. /\ retries \in [Workers -> 0 .. MaxRetries]
        /\ depth \in [Workers -> 0 .. MaxDepth]
        /\ frames \in [Workers -> 0 .. MaxRedirects + 1]
    OBVIOUS
  <2>3. ret \in [Workers -> WorkerPc]
    BY DEF WorkerPc
  <2>4. /\ ctx \in [Workers -> {"none", "open", "closed"}]
        /\ snapshot \in [Workers -> BOOLEAN]
        /\ txnal \in [Workers -> BOOLEAN]
        /\ hasTxn \in [Workers -> BOOLEAN]
        /\ home \in [Workers -> {"reading", "public"}]
        /\ failed \in [Workers -> BOOLEAN]
    OBVIOUS
  <2>5. commits \in [Workers -> Nat] /\ reg \in [Threads -> Int]
    OBVIOUS
  <2>6. delta \in [Workers -> {-1, 0, 1}]
    OBVIOUS
  <2>7. activeTxns \in Int /\ locks \in Nat /\ leaked \in Nat
    OBVIOUS
  <2>8. raced \in BOOLEAN
    OBVIOUS
  <2> QED BY <2>1, <2>2, <2>3, <2>4, <2>5, <2>6, <2>7, <2>8 DEF TypeOK, Threads
<1>2. ASSUME NEW w \in Workers PROVE WorkerInv(w)
  BY DEF WorkerInv, CountInv, OutsideInv, CallInv, FrameInv, At, Acquiring,
     InCall
<1>3. ASSUME NEW a \in Admins PROVE AdminInv(a)
  BY DEF AdminInv
<1>4. Counted = {} /\ Holders = {}
  BY DEF Counted, Holders
<1>5. CounterExact /\ LocksExact
  BY <1>4, FS_EmptySet DEF CounterExact, LocksExact
<1> QED BY <1>1, <1>2, <1>3, <1>5 DEF IInv

LEMMA NextIInv == IInv /\ [Next]_vars => IInv'
<1> SUFFICES ASSUME IInv, [Next]_vars PROVE IInv'
  OBVIOUS
<1> USE DEF IInv
<1>1. ASSUME NEW w \in Workers, Worker(w) PROVE IInv'
  <2>1. TypeOK'
    BY <1>1, WorkerTyping
  <2>2. \A v \in Workers : WorkerInv(v)'
    <3>1. WorkerInv(w)'
      BY <1>1, WorkerKeepsInv
    <3>2. ASSUME NEW v \in Workers, v # w PROVE WorkerInv(v)'
      BY <1>1, <3>2, WorkerKeepsOthers, SameKeepsInv
    <3> QED BY <3>1, <3>2
  <2>3. ASSUME NEW a \in Admins PROVE AdminInv(a)' /\ pc'[a] = pc[a]
    BY <1>1, WorkerKeepsAdmins DEF AdminInv
  <2>4. CounterExact'
    BY <1>1, WorkerKeepsCount
  <2>5. LocksExact'
    <3>1. Holders' = Holders
      BY <2>3 DEF Holders
    <3>2. locks' = locks
      BY <1>1, WorkerKeepsLocks
    <3>3. ~raced' => ~raced
      BY <1>1, WorkerKeepsLocks
    <3> QED BY <3>1, <3>2, <3>3, Zenon DEF LocksExact
  <2> QED BY <2>1, <2>2, <2>3, <2>4, <2>5
<1>2. ASSUME NEW a \in Admins, Admin(a) PROVE IInv'
  <2>1. TypeOK' /\ \A b \in Admins : AdminInv(b)'
    BY <1>2, AdminKeepsInv
  <2>2. ASSUME NEW v \in Workers PROVE WorkerInv(v)'
    BY <1>2, AdminKeepsInv, SameKeepsInv
  <2> QED BY <1>2, <2>1, <2>2, AdminKeepsCounts
<1>3. CASE UNCHANGED vars
  BY <1>3 DEF vars, ctxVars, callVars, countVars, TypeOK, WorkerInv, CountInv,
     OutsideInv, CallInv, FrameInv, At, Acquiring, InCall, AdminInv,
     CounterExact, LocksExact, Counted, Holders
<1> QED BY <1>1, <1>2, <1>3 DEF Next

\* The invariant holds in every reachable state.
THEOREM Invariance == Spec => []IInv
BY InitIInv, NextIInv, PTL DEF Spec

\* Every variable keeps its type: in particular retries never exceed
\* trans_max_retries and _locks never goes below zero.
THEOREM TypeCorrect == Spec => []TypeOK
<1>1. IInv => TypeOK
  BY DEF IInv
<1> QED BY <1>1, Invariance, PTL

\* Without overlapping updates _activeTxns counts the open transactions.
THEOREM CounterIsExact == Spec => []CounterExact
<1>1. IInv => CounterExact
  BY DEF IInv
<1> QED BY <1>1, Invariance, PTL

\* Without overlapping updates _locks counts the commands holding the lock.
THEOREM LocksAreExact == Spec => []LocksExact
<1>1. IInv => LocksExact
  BY DEF IInv
<1> QED BY <1>1, Invariance, PTL

\* A transactional function runs in an open transaction of its own.
THEOREM FunctionsAreTransactional == Spec => []FunctionRunsInTransaction
<1>1. IInv => FunctionRunsInTransaction
  BY DEF IInv, WorkerInv, CallInv, At, FunctionRunsInTransaction
<1> QED BY <1>1, Invariance, PTL

\* A call commits once if it returns and never if it raises.
THEOREM CallsAreAllOrNothing == Spec => []AllOrNothing
<1>1. IInv => AllOrNothing
  BY DEF IInv, WorkerInv, CallInv, At, AllOrNothing
<1> QED BY <1>1, Invariance, PTL

\* Nothing stays open in a thread between two requests.
THEOREM IdleThreadsHoldNothing == Spec => []IdleHoldsNothing
<1>1. IInv => IdleHoldsNothing
  BY DEF IInv, WorkerInv, OutsideInv, FrameInv, At, InCall, Acquiring,
         IdleHoldsNothing
<1> QED BY <1>1, Invariance, PTL

\* Only an internal redirect can lose an open transaction.
THEOREM HandlesAreNotOverwritten == Spec => []NoHandleOverwritten
<1>1. IInv => NoHandleOverwritten
  BY DEF IInv, WorkerInv, CountInv, CallInv, FrameInv, At, Acquiring,
         NoHandleOverwritten
<1> QED BY <1>1, Invariance, PTL
=============================================================================
