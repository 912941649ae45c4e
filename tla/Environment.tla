---------------------------- MODULE Environment -----------------------------
(***************************************************************************)
(* The life of the database files (db.bsddb.DB, utils.db.backup,           *)
(* administration.offlinedb): commits and checkpoints, a crash and the     *)
(* recovery at the next start, and the backup, restore and shrink commands *)
(* of the management service.  Backup and restore lock the database: they  *)
(* wait for the transactions that are counted, and keep out those that     *)
(* have yet to ask for one, but not those that are between the gate and    *)
(* the counter, nor those that wait to be tried again.  Shrink does not    *)
(* lock it at all.                                                         *)
(*                                                                         *)
(* What the database holds is the sequence of the commits that made it.    *)
(* Berkeley DB is modelled from how DB uses it: a record of the log for    *)
(* every commit, database files that a checkpoint brings up to date with   *)
(* the log, and a recovery that replays the log over them.  The removal    *)
(* of all files is one step, and so is their extraction.                   *)
(***************************************************************************)
EXTENDS Integers, Sequences, FiniteSets

CONSTANTS
  Keepers,      \* the management threads
  LogSize,      \* records in a log file
  MaxWrites,    \* bound: the commits, and the transactions on their way to one
  MaxOrders,    \* bound: the commands that are given
  MaxFalls      \* bound: the crashes

ASSUME EnvironmentAssumption ==
  /\ IsFiniteSet(Keepers)
  /\ LogSize \in Nat \ {0}
  /\ MaxWrites \in Nat /\ MaxOrders \in Nat /\ MaxFalls \in Nat

VARIABLES
  up,        \* the server is down, or has the database open or closed
  opened,   \* _running of the handle
  thread,    \* the checkpoint thread: off, asleep, or in a checkpoint
  data,      \* what porcupine.db holds, NoData if it is not there
  log,       \* the records of the log, those that wait in memory included
  flushed,   \* how many of them are on the disk
  first,     \* the first one whose log file was not removed
  keeper,    \* each management thread: its command and where it is in it
  passed,    \* the transactions that are past the gate, or wait to be tried
             \* again, and are not counted
  active,    \* _activeTxns: those that are open
  shut,      \* _locks
  backup,    \* the backup file
  written,   \* the number of commits so far
  orders,    \* the number of commands so far
  falls,     \* the number of crashes so far
  promised,  \* what the last synchronous commit or restore left
  broken     \* a restore was cut off by a crash, met another command, or was
             \* given a backup that is not whole; or two backups wrote one
             \* file

Prefixes == INSTANCE SequencesExt

filesVars == <<data, log, flushed, first>>
txnVars == <<passed, active>>
envVars ==
  <<up, opened, thread, filesVars, keeper, txnVars, shut, backup, written,
    orders, falls, promised, broken>>

NoData == <<0>>
Resting0 ==
  [cmd |-> "none", at |-> "idle", logs |-> 0, last |-> 0, of |-> <<>>,
   late |-> 0]
NoBackup ==
  [state |-> "none", data |-> NoData, log |-> <<>>, first |-> 1, of |-> <<>>,
   late |-> 0]

Histories == Seq(1 .. MaxWrites)
Commanded == {m \in Keepers : keeper[m].cmd # "none"}
Inside(m) ==   \* between lock_db and unlock_db
  keeper[m].cmd \in {"backup", "restore"} /\ keeper[m].at # "lock"

EnvTypeOK ==
  /\ up \in {"down", "open", "closed"}
  /\ thread \in {"off", "asleep", "in"}
  /\ data \in Histories \cup {NoData} /\ log \in Histories
  /\ flushed \in 0 .. Len(log) /\ first \in 1 .. MaxWrites + 1
  /\ passed \in Nat /\ active \in Nat /\ written + passed + active <= MaxWrites
  /\ up # "open" => active = 0
  /\ shut = Cardinality({m \in Keepers : Inside(m)})
  /\ backup.state \in {"none", "partial", "whole", "ahead"}

EnvInit ==
  /\ up = "down" /\ opened = FALSE /\ thread = "off"
  /\ data = NoData /\ log = <<>> /\ flushed = 0 /\ first = 1
  /\ keeper = [m \in Keepers |-> Resting0]
  /\ passed = 0 /\ active = 0 /\ shut = 0 /\ backup = NoBackup
  /\ written = 0 /\ orders = 0 /\ falls = 0
  /\ promised = <<>> /\ broken = FALSE

-----------------------------------------------------------------------------
(* Opening, recovering and closing.                                        *)

\* Recovery replays what the log has beyond the files.  Files without a log, or
\* of another one, stay as they are.
Recovered(d, records) ==
  IF d = NoData THEN <<>>
  ELSE IF Prefixes!IsPrefix(d, records) THEN records ELSE d

\* DB.__init__ with recover: the files are created if they are missing.
OpenFiles ==
  LET now == Recovered(data, log) IN
  /\ data' = now /\ log' = now /\ flushed' = Len(now)
  /\ first' = IF data = NoData THEN 1 ELSE first
  /\ up' = "open" /\ opened' = TRUE /\ thread' = "asleep"

\* DB.close, when its threads have ended.
CloseFiles(state) ==
  /\ data' = log /\ flushed' = Len(log) /\ UNCHANGED <<log, first>>
  /\ up' = state

StartServer ==
  /\ up = "down"
  /\ OpenFiles
  /\ UNCHANGED <<keeper, txnVars, shut, backup, written, orders, falls,
                 promised, broken>>

\* The server stops when its threads have done their work.
StopServer ==
  /\ up = "open" /\ Commanded = {} /\ thread = "asleep"
  /\ passed = 0 /\ active = 0
  /\ CloseFiles("down")
  /\ opened' = FALSE /\ thread' = "off"
  /\ UNCHANGED <<keeper, txnVars, shut, backup, written, orders, falls,
                 promised, broken>>

\* porcupineadmin --recover: offlinedb.get_handle(recover=2) and close.
RecoverOffline ==
  /\ up = "down" /\ data # NoData
  /\ data' = Recovered(data, log) /\ log' = Recovered(data, log)
  /\ flushed' = Len(Recovered(data, log))
  /\ UNCHANGED <<up, opened, thread, first, keeper, txnVars, shut, backup,
                 written, orders, falls, promised, broken>>

\* What is only in memory is lost.
Crash ==
  /\ up # "down" /\ falls < MaxFalls
  /\ up' = "down" /\ opened' = FALSE /\ thread' = "off"
  /\ log' = SubSeq(log, 1, flushed)
  /\ keeper' = [m \in Keepers |-> Resting0]
  /\ passed' = 0 /\ active' = 0 /\ shut' = 0
  /\ falls' = falls + 1
  /\ broken' = (\/ broken
                \/ \E m \in Keepers : keeper[m].at \in {"extract", "open"})
  /\ UNCHANGED <<data, flushed, first, backup, written, orders, promised>>

-----------------------------------------------------------------------------
(* Transactions and checkpoints.                                           *)

\* A transaction is asked for when no command has the database locked,
PassLock ==
  /\ up # "down" /\ shut = 0 /\ written + passed + active < MaxWrites
  /\ passed' = passed + 1
  /\ UNCHANGED <<up, opened, thread, filesVars, keeper, active, shut, backup,
                 written, orders, falls, promised, broken>>

\* begins and is counted later, which looks at the lock no more,
BeginTxn ==
  /\ up = "open" /\ passed > 0
  /\ passed' = passed - 1 /\ active' = active + 1
  /\ UNCHANGED <<up, opened, thread, filesVars, keeper, shut, backup, written,
                 orders, falls, promised, broken>>

\* is aborted to be tried again, which does not look at it either,
RetryLater ==
  /\ active > 0
  /\ active' = active - 1 /\ passed' = passed + 1
  /\ UNCHANGED <<up, opened, thread, filesVars, keeper, shut, backup, written,
                 orders, falls, promised, broken>>

\* or ends with nothing written: it is aborted, or cannot begin.
EndWithout ==
  /\ \/ passed > 0 /\ passed' = passed - 1 /\ UNCHANGED active
     \/ active > 0 /\ active' = active - 1 /\ UNCHANGED passed
  /\ UNCHANGED <<up, opened, thread, filesVars, keeper, shut, backup, written,
                 orders, falls, promised, broken>>

MutantOnDisk(sync) == flushed

\* A commit writes the log to the disk, unless it is given DB_TXN_NOSYNC.
OnDisk(sync) == IF sync THEN Len(log) + 1 ELSE flushed

CommitWrite(sync) ==
  /\ up = "open" /\ active > 0
  /\ active' = active - 1
  /\ written' = written + 1
  /\ log' = Append(log, written + 1)
  /\ flushed' = OnDisk(sync)
  /\ promised' = IF sync THEN log' ELSE promised
  /\ UNCHANGED <<up, opened, thread, data, first, keeper, passed, shut, backup,
                 orders, falls, broken>>

Checkpointed == data' = log /\ flushed' = Len(log) /\ UNCHANGED <<log, first>>

BeginCheckpoint ==
  /\ thread = "asleep" /\ opened
  /\ thread' = "in"
  /\ UNCHANGED <<up, opened, filesVars, keeper, txnVars, shut, backup, written,
                 orders, falls, promised, broken>>

EndCheckpoint ==
  /\ thread = "in"
  /\ thread' = "asleep"
  /\ Checkpointed
  /\ UNCHANGED <<up, opened, keeper, txnVars, shut, backup, written, orders,
                 falls, promised, broken>>

EndThread ==
  /\ thread = "asleep" /\ ~opened
  /\ thread' = "off"
  /\ UNCHANGED <<up, opened, filesVars, keeper, txnVars, shut, backup, written,
                 orders, falls, promised, broken>>

-----------------------------------------------------------------------------
(* The commands.                                                           *)

LogFile(record) == (record - 1) \div LogSize + 1
CurrentFile == LogFile(Len(log) + 1)

GoTo(m, at) == keeper' = [keeper EXCEPT ![m].at = at]
EndOrder(m) == keeper' = [keeper EXCEPT ![m] = Resting0]
Step(m, cmd, at) == keeper[m].cmd = cmd /\ keeper[m].at = at

Running(cmds) == \E o \in Keepers : keeper[o].cmd \in cmds

\* Bound: one restore at a time (a second one would close the handle that the
\* first one opens).
GiveCommand(m) ==
  \E cmd \in {"backup", "restore", "shrink"} :
    /\ up # "down" /\ orders < MaxOrders /\ keeper[m] = Resting0
    /\ cmd = "restore" => backup.state # "none" /\ ~Running({"restore"})
    /\ orders' = orders + 1
    /\ keeper' = [keeper EXCEPT ![m] =
         [@ EXCEPT !.cmd = cmd,
                   !.at = IF cmd = "shrink" THEN "list" ELSE "lock"]]
    /\ broken' = \/ broken
                 \/ Running({"restore"})
                 \/ /\ cmd = "restore"
                    /\ Commanded # {} \/ backup.state # "whole"
                 \/ cmd = "backup" /\ Running({"backup"})
    /\ UNCHANGED <<up, opened, thread, filesVars, txnVars, shut, backup,
                   written, falls, promised>>

MutantGate(m) == shut' = shut

Gate(m) == shut' = shut + 1

\* lock(): the gate is closed, and when no transaction is counted it returns.
LockCommits(m) ==
  /\ keeper[m].at = "lock"
  /\ Gate(m)
  /\ GoTo(m, "drain")
  /\ UNCHANGED <<up, opened, thread, filesVars, txnVars, backup, written,
                 orders, falls, promised, broken>>

MutantCommitsDrained(m) ==
  /\ keeper[m].at = "drain"
  /\ keeper' = [keeper EXCEPT ![m] =
       [@ EXCEPT !.at = IF keeper[m].cmd = "backup" THEN "checkpoint"
                        ELSE "close",
                 !.of = log, !.late = passed]]
  /\ UNCHANGED <<up, opened, thread, filesVars, txnVars, shut, backup, written,
                 orders, falls, promised, broken>>

CommitsDrained(m) ==
  /\ keeper[m].at = "drain" /\ active = 0
  /\ keeper' = [keeper EXCEPT ![m] =
       [@ EXCEPT !.at = IF keeper[m].cmd = "backup" THEN "checkpoint"
                        ELSE "close",
                 !.of = log, !.late = passed]]
  /\ UNCHANGED <<up, opened, thread, filesVars, txnVars, shut, backup, written,
                 orders, falls, promised, broken>>

MutantUnlockCommits(m) ==
  /\ keeper[m].at = "unlock"
  /\ EndOrder(m)
  /\ UNCHANGED <<up, opened, thread, filesVars, txnVars, shut, backup, written,
                 orders, falls, promised, broken>>

UnlockCommits(m) ==
  /\ keeper[m].at = "unlock"
  /\ shut' = shut - 1
  /\ EndOrder(m)
  /\ UNCHANGED <<up, opened, thread, filesVars, txnVars, backup, written,
                 orders, falls, promised, broken>>

\* DB.backup: a checkpoint, the names of the log files, a new backup file,
BackupCheckpoint(m) ==
  /\ Step(m, "backup", "checkpoint")
  /\ IF up = "open" THEN Checkpointed /\ GoTo(m, "list")
     ELSE UNCHANGED filesVars /\ GoTo(m, "unlock")
  /\ UNCHANGED <<up, opened, thread, txnVars, shut, backup, written, orders,
                 falls, promised, broken>>

BackupList(m) ==
  /\ Step(m, "backup", "list")
  /\ keeper' = [keeper EXCEPT ![m] =
       [@ EXCEPT !.at = "addData", !.logs = LogFile(first),
                 !.last = CurrentFile]]
  /\ backup' = [NoBackup EXCEPT !.state = "partial"]
  /\ UNCHANGED <<up, opened, thread, filesVars, txnVars, shut, written, orders,
                 falls, promised, broken>>

\* the database files
BackupData(m) ==
  /\ Step(m, "backup", "addData")
  /\ IF data = NoData THEN GoTo(m, "unlock") /\ UNCHANGED backup
     ELSE /\ backup' = [backup EXCEPT !.data = data, !.first = first]
          /\ GoTo(m, "addLog")
  /\ UNCHANGED <<up, opened, thread, filesVars, txnVars, shut, written, orders,
                 falls, promised, broken>>

\* and the log files of those names, one of which may be gone.  What late
\* transactions write may be in the database files and in none of these.
BackupLog(m) ==
  LET f == keeper[m].logs
      end == IF flushed < f * LogSize THEN flushed ELSE f * LogSize
  IN
  /\ Step(m, "backup", "addLog")
  /\ IF f < LogFile(first) \/ f > CurrentFile
     THEN GoTo(m, "unlock") /\ UNCHANGED backup
     ELSE IF f < keeper[m].last
     THEN keeper' = [keeper EXCEPT ![m].logs = f + 1] /\ UNCHANGED backup
     ELSE /\ backup' = [backup EXCEPT
               !.state = IF Len(backup.data) <= end THEN "whole" ELSE "ahead",
               !.log = SubSeq(log, 1, end), !.of = keeper[m].of,
               !.late = keeper[m].late]
          /\ GoTo(m, "unlock")
  /\ UNCHANGED <<up, opened, thread, filesVars, txnVars, shut, written, orders,
                 falls, promised, broken>>

\* _db.close: ends the threads and closes the files, if they are open; the
\* transactions that are still open are aborted with the environment.
RestoreClose(m) ==
  /\ Step(m, "restore", "close")
  /\ IF opened THEN opened' = FALSE /\ GoTo(m, "join")
     ELSE UNCHANGED opened /\ GoTo(m, "remove")
  /\ UNCHANGED <<up, thread, filesVars, txnVars, shut, backup, written, orders,
                 falls, promised, broken>>

MutantJoined == TRUE

Joined == thread = "off"

RestoreJoin(m) ==
  /\ Step(m, "restore", "join")
  /\ Joined
  /\ CloseFiles("closed")
  /\ active' = 0
  /\ GoTo(m, "remove")
  /\ UNCHANGED <<opened, thread, passed, shut, backup, written, orders, falls,
                 promised, broken>>

MutantRemoved == data' = NoData /\ UNCHANGED <<log, flushed, first>>

Removed == data' = NoData /\ log' = <<>> /\ flushed' = 0 /\ first' = 1

\* DB.restore: removes the files, or fails if another restore has,
RestoreRemove(m) ==
  /\ Step(m, "restore", "remove")
  /\ IF data = NoData THEN UNCHANGED filesVars /\ GoTo(m, "open")
     ELSE Removed /\ GoTo(m, "extract")
  /\ UNCHANGED <<up, opened, thread, txnVars, shut, backup, written, orders,
                 falls, promised, broken>>

\* and extracts those of the backup over what is there.
RestoreExtract(m) ==
  LET longer == IF Len(log) > Len(backup.log) THEN log ELSE backup.log IN
  /\ Step(m, "restore", "extract")
  /\ data' = backup.data /\ log' = longer /\ flushed' = Len(longer)
  /\ first' = backup.first
  /\ GoTo(m, "open")
  /\ UNCHANGED <<up, opened, thread, txnVars, shut, backup, written, orders,
                 falls, promised, broken>>

\* The finally clause opens whatever files there are.
RestoreOpen(m) ==
  /\ Step(m, "restore", "open")
  /\ IF ~opened THEN OpenFiles
     ELSE UNCHANGED <<up, opened, thread, filesVars>>
  /\ promised' = log'
  /\ GoTo(m, "unlock")
  /\ UNCHANGED <<txnVars, shut, backup, written, orders, falls, broken>>

MutantUnneeded == CurrentFile

\* log_archive: up to this one the log files have nothing that the database
\* files do not have.
Unneeded == LogFile(Len(data) + 1) - 1

\* DB.shrink: the names of the log files that are not needed
ShrinkList(m) ==
  /\ Step(m, "shrink", "list")
  /\ IF up = "open" /\ LogFile(first) <= Unneeded
     THEN keeper' = [keeper EXCEPT ![m] =
            [@ EXCEPT !.at = "removeLog", !.logs = LogFile(first),
                      !.last = Unneeded]]
     ELSE EndOrder(m)
  /\ UNCHANGED <<up, opened, thread, filesVars, txnVars, shut, backup, written,
                 orders, falls, promised, broken>>

\* are removed one by one; one that is gone raises an exception.
ShrinkRemove(m) ==
  LET f == keeper[m].logs IN
  /\ Step(m, "shrink", "removeLog")
  /\ IF f < LogFile(first) THEN UNCHANGED first /\ EndOrder(m)
     ELSE /\ first' = IF f * LogSize < Len(log) THEN f * LogSize + 1
                      ELSE Len(log) + 1
          /\ IF f = keeper[m].last THEN EndOrder(m)
             ELSE keeper' = [keeper EXCEPT ![m].logs = f + 1]
  /\ UNCHANGED <<up, opened, thread, data, log, flushed, txnVars, shut, backup,
                 written, orders, falls, promised, broken>>

KeeperRuns(m) ==
  \/ LockCommits(m) \/ CommitsDrained(m) \/ UnlockCommits(m)
  \/ BackupCheckpoint(m) \/ BackupList(m) \/ BackupData(m) \/ BackupLog(m)
  \/ RestoreClose(m) \/ RestoreJoin(m) \/ RestoreRemove(m) \/ RestoreExtract(m)
  \/ RestoreOpen(m) \/ ShrinkList(m) \/ ShrinkRemove(m)

EnvNext ==
  \/ StartServer \/ StopServer \/ RecoverOffline \/ Crash
  \/ PassLock \/ BeginTxn \/ RetryLater \/ EndWithout
  \/ \E sync \in BOOLEAN : CommitWrite(sync)
  \/ BeginCheckpoint \/ EndCheckpoint \/ EndThread
  \/ \E m \in Keepers : GiveCommand(m) \/ KeeperRuns(m)

EnvSpec == EnvInit /\ [][EnvNext]_envVars
-----------------------------------------------------------------------------
(* Properties.                                                             *)

\* A commit that was written to the disk is in the database whenever it is open,
\* through crashes, recoveries, checkpoints and the removal of log files.
SyncedSurvive == up = "open" /\ ~broken => Prefixes!IsPrefix(promised, log)

\* The log files that were not removed reach back to where the database files
\* end, so that a recovery can replay them (DB.shrink).
LogsReachFiles == data # NoData /\ ~broken => first <= Len(data) + 1

\* What was committed when the command of the backup had locked the database,
\* and beyond it at most what was late then: one commit for each transaction
\* that was past the gate, or to be tried again, and not counted.
AsWhenLocked(history) ==
  /\ Prefixes!IsPrefix(backup.of, history)
  /\ Len(history) <= Len(backup.of) + backup.late

\* A backup that ended well holds that, although late transactions, shrink and
\* the checkpoint thread work beside it: exactly what was committed if no
\* transaction was late.  Only then, too, are its database files never ahead of
\* its log.
BackupsAreWhole ==
  ~broken =>
    /\ backup.state = "whole" =>
         AsWhenLocked(Recovered(backup.data, backup.log))
    /\ backup.state = "ahead" => backup.late > 0

\* A restore of it brings that back, also if transactions are late for the
\* restore itself.
RestoreBringsBack ==
  [][\A m \in Keepers :
       Step(m, "restore", "open") /\ keeper'[m].at = "unlock" /\ ~broken
         => AsWhenLocked(log')]_envVars

\* No checkpoint works on an environment that is closed (DB.close joins the
\* threads first).
ClosedWithoutThreads == up # "open" => thread # "in"

\* What was committed stays: through crashes, checkpoints, shrinking, backups
\* and restores.
CommitsStay ==
  /\ [](/\ SyncedSurvive /\ LogsReachFiles /\ BackupsAreWhole
        /\ ClosedWithoutThreads)
  /\ RestoreBringsBack
=============================================================================
