---------------------------- MODULE Maintenance -----------------------------
(***************************************************************************)
(* The management commands that reach the sub-processes of a server:       *)
(* core.services.management, config.services, and the pipes of             *)
(* core.servicetypes.asyncserver.                                          *)
(*                                                                         *)
(* A management thread sends a command to all sub-processes and then takes *)
(* an answer from each.  Nothing says whose command an answer is for.      *)
(* Each process has its own database handle, lock counter and              *)
(* transactions.  A transaction tests the gate before it begins and is     *)
(* counted later; one that is tried again does not test the gate.  How the *)
(* counters are read and written is in Transactions; here a counter        *)
(* changes at once.                                                        *)
(***************************************************************************)
EXTENDS Integers, Sequences, FiniteSets

CONSTANTS
  Managers,     \* the management threads
  Subs,         \* bound: the number of sub-processes
  Commands,     \* the commands that are given
  Home,         \* the threads that run transactions, and the process of each
  TransTries,   \* trans_max_retries
  MaxCommands,  \* bound: how many commands are given
  MaxFailures   \* bound: the steps that raise an exception

Main == 0
Procs == {Main} \cup 1 .. Subs
Clients == DOMAIN Home

ASSUME MaintenanceAssumption ==
  /\ IsFiniteSet(Managers)
  /\ Subs \in Nat \ {0}
  /\ Commands \subseteq {"backup", "restore", "notify"}
  /\ Home \in [Clients -> Procs]
  /\ TransTries \in Nat \ {0}
  /\ MaxCommands \in Nat /\ MaxFailures \in Nat

VARIABLES
  given,      \* how many commands were given
  manager,    \* each management thread: its command, the steps left, and
              \* how many of the sub-processes its exchange has done
  pipe,       \* the commands on the way to a sub-process
  answers,    \* the answers on the way back
  manage,     \* the management thread of each sub-process
  gates,      \* _locks of each process
  open,       \* whether a process has the database open
  trans,      \* each thread's transaction: none, past the gate and yet to be
              \* counted, or counted; and the tries it has left
  late,       \* the threads that were past the gate, and not counted, when
              \* lock() last returned in their process
  miscounted, \* the processes whose _activeTxns does not come down to zero
  failures,   \* how many steps have failed
  crossed     \* the managers whose DB_LOCK met the exchange of another

transVars == <<trans, late, miscounted>>
maintenanceVars ==
  <<given, manager, pipe, answers, manage, gates, open, transVars, failures,
    crossed>>

PipeMessages == {"DB_LOCK", "DB_UNLOCK", "DB_OPEN", "DB_CLOSE", "NEW_MASTER"}

MutantSteps ==
  [backup  |-> <<"lock", "drain", "DB_LOCK", "work", "DB_UNLOCK">>,
   restore |-> <<"lock", "drain", "DB_LOCK", "close", "DB_CLOSE", "work",
                 "open", "DB_OPEN", "DB_UNLOCK">>,
   notify  |-> <<"NEW_MASTER">>]

\* What a command does, in the order of the services: the management service
\* has the database of the main process, the TCP server has the pipes.
Steps ==
  [backup  |-> <<"lock", "drain", "DB_LOCK", "work", "unlock", "DB_UNLOCK">>,
   restore |-> <<"lock", "drain", "DB_LOCK", "close", "DB_CLOSE", "work",
                 "open", "DB_OPEN", "unlock", "DB_UNLOCK">>,
   notify  |-> <<"NEW_MASTER">>]

Idle == [at |-> "idle", left |-> 0]

NoCommand == [cmd |-> "none", left |-> <<>>, sent |-> 0, got |-> 0]

At(m, step)   == manager[m].left # <<>> /\ Head(manager[m].left) = step
Exchanging(m) ==
  manager[m].left # <<>> /\ Head(manager[m].left) \in PipeMessages

MaintenanceTypeOK ==
  /\ given \in 0 .. MaxCommands
  /\ \A m \in Managers :
       /\ manager[m].cmd \in Commands \cup {"none"}
       /\ manager[m].cmd = "none" <=> manager[m].left = <<>>
       /\ manager[m].sent \in 0 .. Subs /\ manager[m].got \in 0 .. Subs
  /\ pipe \in [1 .. Subs -> Seq(PipeMessages)]
  /\ answers \in [1 .. Subs -> 0 .. Cardinality(Managers)]
  /\ manage \in [1 .. Subs -> {"recv", "drain", "dead"}]
  /\ gates \in [Procs -> Nat]
  /\ open \in [Procs -> BOOLEAN]
  /\ trans \in [Clients ->
       [at : {"idle", "past", "counted"}, left : 0 .. TransTries]]
  /\ late \subseteq {c \in Clients : trans[c].at # "idle"}
  /\ miscounted \subseteq Procs
  /\ failures \in 0 .. MaxFailures
  /\ crossed \subseteq Managers

MaintenanceInit ==
  /\ given = 0
  /\ manager = [m \in Managers |-> NoCommand]
  /\ pipe = [p \in 1 .. Subs |-> <<>>]
  /\ answers = [p \in 1 .. Subs |-> 0]
  /\ manage = [p \in 1 .. Subs |-> "recv"]
  /\ gates = [x \in Procs |-> 0]
  /\ open = [x \in Procs |-> TRUE]
  /\ trans = [c \in Clients |-> Idle] /\ late = {} /\ miscounted = {}
  /\ failures = 0
  /\ crossed = {}

-----------------------------------------------------------------------------
(* The transactions of a process.                                          *)

Clerks(x) == {c \in Clients : Home[c] = x}

Trans(c, at, left) ==
  trans' = [trans EXCEPT ![c] = [at |-> at, left |-> left]]

EndsTrans(c) == trans' = [trans EXCEPT ![c] = Idle] /\ late' = late \ {c}

\* get_transaction waits until no command has the database locked,
PassGate(c) ==
  /\ trans[c].at = "idle" /\ gates[Home[c]] = 0
  /\ Trans(c, "past", TransTries)
  /\ UNCHANGED <<given, manager, pipe, answers, manage, gates, open, late,
                 miscounted, failures, crossed>>

\* and looks at the lock no more.  A transaction is counted when it has begun,
Begin(c) ==
  /\ trans[c].at = "past" /\ open[Home[c]]
  /\ Trans(c, "counted", trans[c].left)
  /\ UNCHANGED <<given, manager, pipe, answers, manage, gates, open, late,
                 miscounted, failures, crossed>>

\* cannot begin where the database is closed,
CannotBegin(c) ==
  /\ trans[c].at = "past" /\ ~open[Home[c]]
  /\ EndsTrans(c)
  /\ UNCHANGED <<given, manager, pipe, answers, manage, gates, open,
                 miscounted, failures, crossed>>

\* is aborted and waits to be tried again, which does not look at the lock,
RetryLater(c) ==
  /\ trans[c].at = "counted" /\ trans[c].left > 1
  /\ Trans(c, "past", trans[c].left - 1)
  /\ UNCHANGED <<given, manager, pipe, answers, manage, gates, open, late,
                 miscounted, failures, crossed>>

\* or ends with its commit, or with an abort that nothing follows.
EndTransaction(c) ==
  /\ trans[c].at = "counted"
  /\ EndsTrans(c)
  /\ UNCHANGED <<given, manager, pipe, answers, manage, gates, open,
                 miscounted, failures, crossed>>

TransGoesOn(c) ==
  Begin(c) \/ CannotBegin(c) \/ RetryLater(c) \/ EndTransaction(c)

\* lock() returns where no transaction is counted.  Those that are past the
\* gate go on.
NoneCounted(x) ==
  x \notin miscounted /\ \A c \in Clerks(x) : trans[c].at # "counted"

PastStayLate(x) ==
  late' = (late \ Clerks(x)) \cup {c \in Clerks(x) : trans[c].at = "past"}

\* The environment takes the transactions that are open with it when it is
\* closed.  Their threads fail, and so do those that would try again: the abort
\* of a transaction that is gone raises an exception before it is counted.
EndsWithDatabase(x) ==
  LET counted  == {c \in Clerks(x) : trans[c].at = "counted"}
      retrying == {c \in Clerks(x) :
                     trans[c].at = "past" /\ trans[c].left < TransTries}
      ended    == counted \cup retrying
  IN
  /\ trans' = [c \in Clients |-> IF c \in ended THEN Idle ELSE trans[c]]
  /\ late' = late \ ended
  /\ \/ UNCHANGED miscounted
     \/ counted # {} /\ miscounted' = miscounted \cup {x}

-----------------------------------------------------------------------------
(* The management thread of a sub-process.                                 *)

Received(p, message) ==
  /\ manage[p] = "recv"
  /\ pipe[p] # <<>> /\ Head(pipe[p]) = message
  /\ pipe' = [pipe EXCEPT ![p] = Tail(@)]

Answer(p) == answers' = [answers EXCEPT ![p] = @ + 1]

SubLock(p) ==
  /\ Received(p, "DB_LOCK")
  /\ gates' = [gates EXCEPT ![p] = @ + 1]
  /\ manage' = [manage EXCEPT ![p] = "drain"]
  /\ UNCHANGED <<given, manager, answers, open, transVars, failures, crossed>>

MutantSubDrained(p) ==
  /\ manage[p] = "drain"
  /\ PastStayLate(p)
  /\ manage' = [manage EXCEPT ![p] = "recv"]
  /\ Answer(p)
  /\ UNCHANGED <<given, manager, pipe, gates, open, trans, miscounted,
                 failures, crossed>>

SubDrained(p) ==
  /\ manage[p] = "drain"
  /\ NoneCounted(p) /\ PastStayLate(p)
  /\ manage' = [manage EXCEPT ![p] = "recv"]
  /\ Answer(p)
  /\ UNCHANGED <<given, manager, pipe, gates, open, trans, miscounted,
                 failures, crossed>>

SubUnlock(p) ==
  /\ Received(p, "DB_UNLOCK")
  /\ gates' = [gates EXCEPT ![p] = IF @ > 0 THEN @ - 1 ELSE 0]
  /\ Answer(p)
  /\ UNCHANGED <<given, manager, manage, open, transVars, failures, crossed>>

SubOpen(p) ==
  /\ \/ /\ Received(p, "DB_OPEN") /\ open' = [open EXCEPT ![p] = TRUE]
        /\ UNCHANGED transVars
     \/ /\ Received(p, "DB_CLOSE") /\ open' = [open EXCEPT ![p] = FALSE]
        /\ EndsWithDatabase(p)
  /\ Answer(p)
  /\ UNCHANGED <<given, manager, manage, gates, failures, crossed>>

MutantSubNotified(p) ==
  /\ Received(p, "NEW_MASTER")
  /\ UNCHANGED <<given, manager, answers, manage, gates, open, transVars,
                 failures, crossed>>

SubNotified(p) ==
  /\ Received(p, "NEW_MASTER")
  /\ Answer(p)
  /\ UNCHANGED <<given, manager, manage, gates, open, transVars, failures,
                 crossed>>

\* An exception ends the thread, and nobody answers.
SubFails(p) ==
  /\ failures < MaxFailures
  /\ Received(p, "DB_OPEN") \/ Received(p, "DB_CLOSE")
  /\ manage' = [manage EXCEPT ![p] = "dead"]
  /\ open' = [open EXCEPT ![p] = FALSE] /\ EndsWithDatabase(p)
  /\ failures' = failures + 1
  /\ UNCHANGED <<given, manager, answers, gates, crossed>>

SubManages(p) ==
  SubLock(p) \/ SubDrained(p) \/ SubUnlock(p) \/ SubOpen(p) \/ SubNotified(p)

-----------------------------------------------------------------------------
(* The management threads of the main process.                             *)

StartCommand(m, c) ==
  /\ given < MaxCommands
  /\ manager[m] = NoCommand
  /\ given' = given + 1
  /\ manager' = [manager EXCEPT ![m].cmd = c, ![m].left = Steps[c]]
  /\ crossed' = crossed \ {m}
  /\ UNCHANGED <<pipe, answers, manage, gates, open, transVars, failures>>

MutantGoOn(m, left) ==
  manager' = [manager EXCEPT ![m] =
    [cmd |-> manager[m].cmd, left |-> left, sent |-> 0, got |-> 0]]

\* The command has left still to do.
GoOn(m, left) ==
  manager' = [manager EXCEPT ![m] =
    IF left = <<>> THEN NoCommand
    ELSE [cmd |-> manager[m].cmd, left |-> left, sent |-> 0, got |-> 0]]

NextStep(m) == GoOn(m, Tail(manager[m].left))

\* services.lock_db and unlock_db in the main process.
LockMain(m) ==
  /\ At(m, "lock")
  /\ gates' = [gates EXCEPT ![Main] = @ + 1]
  /\ NextStep(m)
  /\ UNCHANGED <<given, pipe, answers, manage, open, transVars, failures,
                 crossed>>

MainDrained(m) ==
  /\ At(m, "drain")
  /\ NoneCounted(Main) /\ PastStayLate(Main)
  /\ NextStep(m)
  /\ UNCHANGED <<given, pipe, answers, manage, gates, open, trans, miscounted,
                 failures, crossed>>

UnlockMain(m) ==
  /\ At(m, "unlock")
  /\ gates' = [gates EXCEPT ![Main] = IF @ > 0 THEN @ - 1 ELSE 0]
  /\ NextStep(m)
  /\ UNCHANGED <<given, pipe, answers, manage, open, transVars, failures,
                 crossed>>

OpenMain(m) ==
  /\ \/ /\ At(m, "open") /\ open' = [open EXCEPT ![Main] = TRUE]
        /\ UNCHANGED transVars
     \/ /\ At(m, "close") /\ open' = [open EXCEPT ![Main] = FALSE]
        /\ EndsWithDatabase(Main)
  /\ NextStep(m)
  /\ UNCHANGED <<given, pipe, answers, manage, gates, failures, crossed>>

\* The handle does not close, before the try block, or does not open again, in
\* the finally clause: the command ends and leaves the gates.
OpenFails(m) ==
  /\ failures < MaxFailures
  /\ At(m, "open") \/ At(m, "close")
  /\ GoOn(m, <<>>)
  /\ open' = [open EXCEPT ![Main] = FALSE] /\ EndsWithDatabase(Main)
  /\ failures' = failures + 1
  /\ UNCHANGED <<given, pipe, answers, manage, gates, crossed>>

\* The backup or the restore itself.  If it fails, the finally clause does the
\* same as if it had not.
Work(m) ==
  /\ At(m, "work")
  /\ NextStep(m)
  /\ UNCHANGED
       <<given, pipe, answers, manage, gates, open, transVars, failures,
         crossed>>

\* The managers whose DB_LOCK meets the exchange of another when m begins.
Meeting(m) ==
  LET others == {o \in Managers \ {m} : Exchanging(o) /\ manager[o].sent > 0}
  IN  IF others = {} THEN {} ELSE {o \in others \cup {m} : At(o, "DB_LOCK")}

\* BaseServer.send: to all sub-processes,
Send(m) ==
  LET p == manager[m].sent + 1 IN
  /\ Exchanging(m)
  /\ manager[m].sent < Subs
  /\ pipe' = [pipe EXCEPT ![p] = Append(@, Head(manager[m].left))]
  /\ manager' = [manager EXCEPT ![m].sent = p]
  /\ crossed' = IF p = 1 THEN crossed \cup Meeting(m) ELSE crossed
  /\ UNCHANGED <<given, answers, manage, gates, open, transVars, failures>>

MutantRecv(m) ==
  LET p == manager[m].got + 1 IN
  /\ Exchanging(m)
  /\ manager[m].sent = Subs
  /\ answers[p] > 0
  /\ answers' = [answers EXCEPT ![p] = 0]
  /\ IF p = Subs THEN NextStep(m)
     ELSE manager' = [manager EXCEPT ![m].got = p]
  /\ UNCHANGED <<given, pipe, manage, gates, open, transVars, failures,
                 crossed>>

\* and then an answer from each.
Recv(m) ==
  LET p == manager[m].got + 1 IN
  /\ Exchanging(m)
  /\ manager[m].sent = Subs
  /\ answers[p] > 0
  /\ answers' = [answers EXCEPT ![p] = @ - 1]
  /\ IF p = Subs THEN NextStep(m)
     ELSE manager' = [manager EXCEPT ![m].got = p]
  /\ UNCHANGED <<given, pipe, manage, gates, open, transVars, failures,
                 crossed>>

ManagerRuns(m) ==
  LockMain(m) \/ MainDrained(m) \/ UnlockMain(m) \/ OpenMain(m) \/ Work(m)
  \/ Send(m) \/ Recv(m)

MaintenanceNext ==
  \/ \E c \in Clients : PassGate(c) \/ TransGoesOn(c)
  \/ \E p \in 1 .. Subs : SubManages(p) \/ SubFails(p)
  \/ \E m \in Managers :
       ManagerRuns(m) \/ OpenFails(m) \/ \E c \in Commands : StartCommand(m, c)

\* Threads run when they can.
MaintenanceFairness ==
  /\ \A c \in Clients : WF_maintenanceVars(TransGoesOn(c))
  /\ \A p \in 1 .. Subs : WF_maintenanceVars(SubManages(p))
  /\ \A m \in Managers : WF_maintenanceVars(ManagerRuns(m))

MaintenanceSpec ==
  MaintenanceInit /\ [][MaintenanceNext]_maintenanceVars /\ MaintenanceFairness
-----------------------------------------------------------------------------
(* Properties.                                                             *)

\* While a backup or a restore works, every process has closed its gate, and
\* its only transactions are those that were past the gate and not counted when
\* the command found none counted, unless another manager's exchange met its
\* DB_LOCK: then it may have taken the other's answers for its own
\* (BaseServer.send).
WorksOnLockedDatabase ==
  \A m \in Managers : At(m, "work") /\ m \notin crossed =>
    /\ \A x \in Procs : gates[x] > 0
    /\ \A c \in Clients : trans[c].at # "idle" => c \in late

\* However exchanges cross, every command that was sent is still in the pipe,
\* handled, or answered: whoever takes an answer leaves one for the others.
AnswersAddUp ==
  \A p \in 1 .. Subs : manage[p] # "dead" =>
    Len(pipe[p]) + answers[p] + (IF manage[p] = "drain" THEN 1 ELSE 0) =
      Cardinality({m \in Managers : manager[m].sent >= p /\ manager[m].got < p})

\* Once no command runs every gate is open again and every process has its
\* database, unless a process could not close or open the database, which
\* nothing undoes (DB_RESTORE).
GatesAreReleased ==
  (\A m \in Managers : manager[m] = NoCommand) /\ failures = 0 =>
    \A x \in Procs : gates[x] = 0 /\ open[x]

\* A command ends, although others may take its answers, unless a sub-process
\* no longer answers, or a database was closed with transactions in it: its
\* process waits for them at the next lock.
CommandsEnd ==
  \A m \in Managers :
    []<>(\/ manager[m].cmd = "none"
         \/ miscounted # {}
         \/ \E p \in 1 .. Subs : manage[p] = "dead")

\* However commands and their answers cross, a command works on a database
\* that is locked against all but the late, and no process is left locked or
\* closed.
MaintenanceSafe == WorksOnLockedDatabase /\ AnswersAddUp /\ GatesAreReleased
=============================================================================
