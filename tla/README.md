# A formal model of the Porcupine server

Porcupine is an object database with a web application server on top: Python
objects live in a tree of containers in Berkeley DB, and web methods of the
objects are called over HTTP. This directory holds TLA+ specifications of the
parts of it where threads, transactions and long sequences of operations meet,
TLC runs that check them on small instances, and TLAPS proofs for instances of
any size. All paths below are relative to the root of the repository;
`asyncserver.py:336` is short for the line in the one file of that name.

* [Inventory](#inventory): what the system consists of
* [Plan](#plan): the modules, those written and those to come
* [The modules and the code](#the-modules-and-the-code)
* [The runs](#the-runs)
* [Bounds](#bounds)
* [Fairness](#fairness)
* [Proofs](#proofs)
* [What the code does that its documentation does not say](#findings)
* [Not modelled](#not-modelled)

## Inventory

### Request path

A client connects to the TCP server (`core/servicetypes/asyncserver.py`). One
asyncore thread, started by the `Controller` (`porcupineserver.py`), accepts the
connection, gives it a `RequestHandler` (reused ones come from `rh_queue`), reads
the request until the client has sent everything, and puts the handler into the
bounded `request_queue`. A worker thread takes it, and
`PorcupineThread.handle_request` (`core/services/pthread.py`) decodes the
request, opens a snapshot transaction, reads the object that the path names,
fetches the session, finds the web method and calls it. The response is written
into the handler's buffer through a request interface (`core/interfaces`), and
the asyncore thread sends it and closes the connection.

*State*: sockets, handlers with their buffers and flags, three queues, thread
local context. *Hard*: handlers change hands between threads without a lock,
they are reused, queues are bounded, and shutdown runs against all of it.
*Correct when*: a handler belongs to one connection and one worker at a time,
each client gets its own response and all of it, every connection ends, and so
does shutdown.

### Transactions

`db/__init__.py` defines `@transactional`, which wraps web methods and library
functions: it aborts the snapshot transaction of the request, opens one for the
call, retries with growing pauses when Berkeley DB reports a deadlock, commits,
and opens a transaction for the rest of the request. Transactional functions
call one another; the inner ones join the outer transaction.
`db/basetransaction.py` counts the open transactions of the process in
`_db._activeTxns`. `_db.lock`, called by management commands, raises
`_db._locks`, at which `_db.get_transaction` waits, and waits for the counter to
reach zero. `core/context.py` holds the transaction of a thread and tears it
down after the request.

*State*: the handle and mode of each thread, retries, two counters.
*Hard*: many exits (commit, retry, failure, nested failure, redirect), counters
updated without a lock, a gate that is tested before it matters, threads that
wait for one another. *Correct when*: a call commits once or not at all, the
counters are exact, nothing is left open, and lock() returns, alone.

### Objects, references and the recycle bin

`systemObjects.py` has the content classes: containers, items, shortcuts, users
and groups, the recycle bin and its `DeletedItem` entries, with the methods that
create, update, move, copy, recycle, restore and delete them.
`core/dteventhandlers.py` keeps both ends of references equal and cascades
deletions. `db/_db.py` runs the handlers, `db/bsddb` stores objects under their
parent and id with unique indexes on the id and on the display name among
visible siblings. `org/innoscript/desktop/webmethods` exposes the methods.

*State*: for each object its parent, name, the number of times it is deleted
(`_isDeleted`), child counters (`_ni`, `_nc`) and reference lists.
*Hard*: methods work on copies that may be older than the stored object (the web
method's own object always is), recursion over children writes the same objects
that the cascades write, and deletions nest. *Correct when*: the objects form a
tree, references match at both ends, the level of an object is the number of
reasons why it is hidden, restoring undoes recycling, everything that is visible
can be deleted, and what is deleted stays deleted.

### Sessions

`core/session` has three managers. The in-memory one keeps a dictionary and a
list ordered by last use, which an expiry thread walks while request threads
create, revive and remove sessions. The one in the database stores sessions as
objects and revives them in transactions of their own; the one in cookies keeps
nothing on the server and splits the data over several cookies. *Correct when*:
dictionary and list agree, a live session is not expired, an expired one is not
revived, and a cookie session that shrinks leaves nothing behind.

### Management and replication

`core/services/management.py` takes commands from `porcupineadmin.py`: backup,
restore, log removal, packages, replication. `db/bsddb/replication.py` keeps the
list of sites and the master; a site joins by asking another one, which tells
the rest; the new master of an election is broadcast. Writes on a site that is
not master are proxied. *Correct when*: the lock of a command is released on
every path, all sites learn of all others, and two sites do not believe in
different masters for ever.

### Multi-process servers

With several processes, requests travel through a queue in shared memory, cut
into chunks (`asyncserver.py:372-437`), and commands through pipes to each
`SubProcess`. *Correct when*: chunks of requests are not mixed, nobody waits for
ever, and an answer goes to the one who asked.

### Queries

`porcupine/oql/command.py` parses a script with the lexer and the parser of
`core/oql/parser.py` and keeps it in a cache; `core/oql/optimizer.py` turns the
conditions into lookups of indexes, and `select` in `core/oql/core.py` walks the
cursors of `db/bsddb/cursor.py` and evaluates what is left of the conditions.
The parser is generated by a copy of PLY (`core/yacc`) from the docstrings of the
grammar at run time; the tables are kept in files that every process imports or
writes. *State*: a stack of tokens, the tables and their files, the cache, the
position of each cursor. *Hard*: an operand that is dropped or evaluated twice,
ranges at the end of an index, conflicts of the grammar that are resolved by the
order of rules, files of older grammars. *Correct when*: a query returns the
objects that its text asks for, in the order and the range that it asks for.

### Files, documents and roles

`db/bsddb/__init__.py` opens the Berkeley DB environment, runs its checkpoint and
deadlock threads, and saves, restores and shrinks the files by commands of the
management service. Large attributes are documents in a database of their own,
composites are objects inside an object (`dteventhandlers.py`), and objects hold
copies of the roles that they inherit (`systemObjects.py`). *Correct when*: what
was committed survives a crash and a backup holds all of it, each document and
each composite belongs to one object and goes with it, and an object that
inherits its roles has those of its parent.

### The rest

Scheduler threads, package installation, templates, filters, HTTP and RPC
formats, and the JavaScript toolkit (`quix`). The components in `PROJECT.json`
say why they are not modelled.

## Plan

Written, in this order:

1. `Transactions`, with `TransactionsProofs`: everything else runs inside.
2. `ItemOperations` and `ObjectStore`: the object operations, a call being one
   step, which module 1 justifies.
3. `AsyncServer`, with `AsyncServerProofs`: the threads that bring requests in.
4. `SharedQueue`, an implementation of `MessageQueue`, and `Maintenance`: the
   processes of a server.
5. `Sessions`, `DbSessions` and `CookieSessions`: the three session managers.
6. `QueryCache` and `ItemLocks`, and `MCServices`, which runs modules 4, 6 and
   `Sessions`.
7. `Environment`, `Attachments`, `Roles` and `Replication`: what is stored.
8. `Grammars`, `LalrTables`, `LrParser`, `OqlGrammar`, `Lexer`,
   `GeneratedTables`, `Cursors` and `Queries`, and `MCDataLanguage`, which runs
   these, those of 7, `DbSessions` and `CookieSessions`.
9. The proofs about all these, one module for each part of the system:
   `ObjectStoreProofs`, `ProcessesProofs` (`SharedQueue` and `Maintenance`),
   `SessionsProofs` (the three managers), `QueryProofs` (`QueryCache` and
   `GeneratedTables`), `DatabaseProofs` (`Environment` and `Replication`) and
   `ItemsProofs` (`ItemLocks`, `Roles` and `Attachments`).

To come, most important first:

10. That no call of `ObjectStore` raises which should not, of which
    `EverythingCanBeDeleted` and `RestoreUndoesRecycle` are a part.
11. `AtomicCalls`: a specification in which a call of a worker is one step, which
    `ItemLocks` (locks, deadlocks, retries) implements; it would say in one
    formula which calls of `ObjectStore` are not atomic.
12. Functions of fields, aggregates and joins of object sets in `Queries`.

## The modules and the code

### Transactions

One thread per worker and per management command. `pc` is where a thread is in
`handle_request`, in `transactional_wrapper` or in `lock`/`unlock`; the other
per-thread variables are the fields of the context (`ctx` is `_trans`, `txnal` is
`_is_txnal`) and the locals of the wrapper (`has_txn`, `retries`). `activeTxns`
and `locks` are the module globals. Each `+=` and `-=` on them is two steps.

| actions | code |
|---|---|
| `StartRequest`, `OpenPage`, `Redirect`, `ReadVictim`, `FinishRequest`, `Teardown`, `Respond` | `pthread.py:48-187`, `context.py:32-45` |
| `CallFunction`, `NewTransaction`, `CallNested`, `ReturnNested`, `Commit`, `Victim`, `CountRetry`, `Retry`, `Fail`, `Unwind`, `ExitCall`, `LeaveCall` | `db/__init__.py:91-160` |
| `PassGate`, `Begin`, `LoadCounter`, `StoreCounter`, `Abort` | `_db.py:201-204`, `transaction.py:26-69`, `basetransaction.py:28-48` |
| `Lock`, `Unlock`, `StoreLocks`, `Drained` | `_db.py:213-224` |

What a function does to objects is left out, except that it may call others,
become a deadlock victim or fail. `raced` is a history variable: two updates of a
counter have overlapped. After that the counters are wrong for ever, so the
exactness properties speak of behaviours before it.

### ItemOperations and ObjectStore

`ItemOperations` has one operator per method of `systemObjects.py`, over a
transaction record: the objects it sees, the ids given out, and whether an
exception was raised. A method gets its object as a record, which may be older
than the stored one, and writes it back when the code does; the order of reads
and writes is that of the code because copies overwrite one another. The event
handlers of shortcuts (`dteventhandlers.py:134-210`, `274-309`) are operators
that the methods call where `_db.handle_update` and `handle_delete` do. `Put`
and `Erase` model the primary tree and the two unique indexes. Children are
visited in key order (`KeyOrder`), which matters because ids are random
(`InTurn`).

`_recycle`, `_undelete`, `_delete` and `_copy` call themselves, on the children
of a folder and on the shortcuts to an object. `RecycleWith` is the body of the
method with the method that it calls as a parameter, a function from the
transaction, the object and the argument to the transaction afterwards;
`RecycleWithin[n]` is the body over `RecycleWithin[n - 1]`, and a call beyond
`CallDepth` raises an exception, as Python does at its recursion limit. The store
is a function over all ids, which is `Nothing` where no object is.

`ObjectStore` has one action per web method. Each is one step (a transaction)
on an object that was just read, or, for `Slow` requests, on the copy that
`Dispatch` took before other requests committed (`pthread.py:90`,
`db/__init__.py:124`). A method that raises changes nothing.

Left out: access rights (the caller is an administrator), properties other than
the name, objects with reference types of their own.

### AsyncServer

The asyncore thread, the workers and the main thread; the clients connect, send
their request or nothing, and may reset. A handler's `conn` is its socket,
`input` its `input_buffer` (whose request it holds), `output` its `output_buffer`
(one element per unit, naming the connection it was written for). `poll` splits
`handle_read` at the end of a request into its blocking `put` (line 336) and the
assignment after it (337), between which a worker may run; `Jammed` and `Deaf`
are the situations this leads to.

| actions | code |
|---|---|
| `Accept`, `Receive`, `ReceiveEnd`, `PutRequest`, `Mark`, `Send`, `SendError`, `Close` | `asyncserver.py:56-86`, `296-364` |
| `Take`, `Stop`, `WriteBuffer`, `Fail` | `asyncserver.py:268-286` |
| `Shutdown`, `PutSentinel`, `Join` | `asyncserver.py:206-224`, `288-293` |
| `EndLoop`, `CloseNext`, `End` | `porcupineserver.py:77-100` |

asyncore is external: an event is handled in one step together with the test of
`readable`/`writable` that led to it, and the events come in any order. (asyncore
evaluates the tests of all handlers before it handles the events; a worker could
close a handler in between. With one write per response that is a handler which
has a request and no output, for which the handlers do nothing.) The variables
`active_connections` and `has_response` have no reader and are left out. One
service owns the socket map; the server has worker threads, not processes.

### SharedQueue and MessageQueue

`slots` is the array in shared memory, `qsize` its fill, `qlock` the lock, and a
thread is `asleep` while it waits for `item_pushed` or `item_popped`. `Putter`
and `Getter` are the code between two waits in `put` and `get`
(`asyncserver.py:389-437`). `MessageQueue` is what the two functions promise: a
sequence of whole messages, each put and got in one step. The refinement maps the
array to the messages whose first chunk it holds. Messages of the same
connection follow each other with the same file number, which is all that the
code has to tell them apart; `BeginPut` (a connection has one request under way,
and all chunks are put under one lock) is what keeps them whole.

### Maintenance

The managers go through `Steps` of a command: `lock_db`, close, work, open,
`unlock_db`, or a notification, in the main process directly and for each
sub-process through its `pipe` (`management.py:94-119`, `services.py:42-64`,
`asyncserver.py:234-258`). `Send` and `Recv` are the two halves of
`BaseServer.send`; nothing matches answers to commands, so two managers whose
exchanges overlap (`crossed`) take each other's answers. `SubManages` is the loop
of `SubProcess._manage` (`asyncserver.py:487-532`).

The transactions of each process go on beside this, one step at a time
(`Clients`, `Home`): `PassGate` is the test of `_locks`, `Begin` the transaction
with its count, `RetryLater` an abort after which the call waits to begin again
without a look at `_locks` (`_db.py:201-204`, `transaction.py:26-40`). `lock()`
returns when none is counted (`NoneCounted`); whoever is past the gate then, to
begin or to be tried again, is `late`. So commands work beside late
transactions, as run `txn_lock` shows, and `WorksOnLockedDatabase` says that
there are no others. A database that is closed with a transaction in it takes it
along (`EndsWithDatabase`); where the thread fails before it has taken it off the
counter, the process is `miscounted` and its next `lock()` does not return.
`Transactions` has the reads and writes of the counters; here a transaction
begins and is counted in one step. That hides no order: what has begun and is
not counted yet is as late as what has not begun.

### Sessions, DbSessions, CookieSessions

`Sessions` has the dictionary (`table`) and the list (`order`) of the in-memory
manager and one step per operation on either (`inmemory/__init__.py:44-79`); a
request that meets a session that another thread removed fails, and the expiry
thread dies of it (`Dies`). `DbSessions` has a transaction per step and the copy
that each request keeps (`visit`): `meant` is what the calls of all requests
amount to, `undone` the sessions over which an older copy was written.
`CookieSessions` has the cookies of a client (`jar`) and requests that carry a
copy of them (`sent`) and of those of their response (`reply`).

### QueryCache and ItemLocks

`QueryCache` splits `execute` at `if script in` (no lock), the fetch, the parse
and the store (`oql/command.py:30-70`, `cache.py:33-59`). `ItemLocks` has
transactions that read items, count them up and write them, in any order and
under the locks that `db/bsddb/__init__.py:228-307` takes, `Detect` for the
deadlock thread and `RetryWork` for the loop in `transactional`.

### Environment

`log` is the sequence of all commits in the log, `flushed` how much of it is on
disk, `first` the oldest one whose file was not removed, `data` what the database
files hold. `StartServer`, `RecoverOffline`, `CommitWrite`, `BeginCheckpoint`,
`EndCheckpoint`, `Crash` and the steps of `backup`, `restore` and `shrink`
(`db/bsddb/__init__.py:385-406`, `backup.py:26-44`), of which `shrink` alone
takes no lock. `broken` records a restore that was cut off, met another command
or was given an incomplete backup.

Transactions are numbers: `passed` is how many are past the gate and not counted,
`active` how many are. `PassLock` looks at `shut`; `BeginTxn`, `RetryLater` and
`CommitWrite` do not, so transactions commit while a backup copies and while a
restore works, as long as the database is open. `CommitsDrained` keeps in the
command what was committed when `lock()` returned (`of`) and how many transactions were
late then (`late`). `BackupsAreWhole` is about these two: a backup is what was
committed then, and beyond it at most one commit for each late transaction;
exactly that if there was none. A backup may then be `"ahead"`: its database
files have a commit of a late transaction that its log files lack, and recovery
makes nothing whole of it. `RestoreBringsBack` speaks of backups that are
`"whole"`. The counters of all processes are one here and in `Maintenance` one
each; a transaction of a closed environment may be tried again here, which fails
in the code, so the model has more behaviours.

### Attachments, Roles, Replication

`Attachments` follows the documents and composites of items through creation,
update, copy, recycling and deletion, with a schema that changes between two runs
of the server (`systemObjects.py:406-447`) and attempts of a transactional
function on deep copies of its arguments. `Roles` has the tree of objects with
their descriptors and requests with copies that may be old; each action is a
method with all its calls of `_apply_security`. In `Replication` a message to a
site is a step, a site that is down is passed over, and a `task` is a management
thread that tells the others.

### The query language

`Grammars`, `LalrTables` and `LrParser` are the parser generator as pure
operators and the parser as a machine: productions, first and follow sets, items,
the DeRemer and Pennello relations, conflicts, and the stack. The input grows
token by token as the parser asks for it, so one behaviour stands for all inputs
with its prefix. `OqlGrammar` lists the rules of `oql/parser.py` in their order;
`Part` cuts a grammar out of it. `Lexer` reads characters that stand for classes.
`GeneratedTables` has the processes that import, build and write the files of
the tables. `Queries` takes a condition as a tree, turns it into the stack that
the parser makes (`Parse`), optimises it (`Prepare`) and runs select (`Run`) on
the `Cursors` of a small store; the answer is compared with the one that the
tree asks for.

## The runs

| run | instance | what it shows |
|---|---|---|
| `txn_safety` | 2 workers, 1 command | exact counter, all or nothing, nothing left open, on every exit |
| `txn_liveness` | 2 workers, 1 command, fair | requests end, `lock()` returns: gate and counter do not deadlock |
| `txn_lock` | 2 workers, 1 command | violation: a transaction is open after `lock()` returned |
| `store_bin` | 5 ids, 1 slow request | the bin: levels, links, restoring, deletability |
| `store_tree` | 4 ids, all ten methods | the tree stays a tree, deletion is closed under containment |
| `store_copied` | 4 ids | violation: copying steals the shortcuts of the original |
| `store_resurrected` | 3 ids, 1 slow request | violation: a deleted folder comes back |
| `async_server` | 2 workers, 3 connections | handlers are exclusive, responses go where they belong, whole |
| `async_ends` | 1 worker, 3 connections, fair | connections end, shutdown ends |
| `async_reuse` | 1 worker, 2 connections, 2 writes | violation: a handler is reused while a worker writes into it |
| `services` | see [bounds](#bounds) | the shared queue, sessions in memory, maintenance commands, the query cache and item locks, each under fair threads |
| `data_language` | see [bounds](#bounds) | from a query to its rows; sessions in the database and in cookies; documents, roles, files, sites, and two commands at the lock counter |

`services` and `data_language` check modules that share no variables in one run:
the initial state chooses a part, the others rest. A resting part of `services`
is in a state in which nothing of it is enabled, so that its weak fairness asks
for nothing and the liveness of the part that runs is that of its module alone;
invariants and action properties of resting parts hold trivially and those of
the running part are checked in all its states, as if it were alone.

What a module has to keep is one property where it is one idea, a conjunction of
parts that are defined and explained before it:

| property | parts |
|---|---|
| `TreeStaysWhole` (`ObjectStore`) | `Rooted`: every object leads to the root; `HiddenWithParent`: what is in a hidden folder is hidden |
| `EverybodyGoesOn` (`Transactions`) | `RequestsEnd`, `LockReturns` |
| `MaintenanceSafe` (`Maintenance`) | `WorksOnLockedDatabase`: commands work where all gates are closed and no transaction is open but those that were past the gate when `lock()` returned; `AnswersAddUp`: no command or answer is lost over a pipe; `GatesAreReleased`: at the end of a command |
| `SessionsKept` (`Sessions`) | `ListAgrees`: dictionary and list; `NotExpiredInUse`: what a request uses does not expire under it |
| `CacheKeepsOrder` (`QueryCache`) | `CacheIsConsistent`, `LockLostToEviction`: the lock is lost in one way only; `LeastRecentlyUsedGoes` |
| `WorkEnds` (`MCServices`) | `PutsEnd`, `PutsAreReceived`, `IdleSessionsEnd`, `CommandsEnd`, `ExecutionsEnd`, `TransactionsEnd`, `OldestGoesOn`: liveness of each part of `services` |
| `QueriesAnswered` (`Queries`) | `EvaluatesAsWritten`: the stack means the tree; `FindsWhatIsAsked`: with and without indexes; `GivesTheRange` |
| `ParsesAsDeclared` (`LrParser`) | `LookaheadsAreLalr`, `VerdictIsRight`, `ShiftedCanBeCompleted`, `ParserGetsOn`: the tables and the stack; `OperandsBindTighter`, `BareNamesAreFields`: the precedences of OQL |
| `LexesEverything` (`Lexer`) | `TokensAreLongest`, `NothingIsLost` |
| `TablesCanBeShared` (`GeneratedTables`) | `ParsesWithItsGrammar`, `FilesAreWhole` |
| `SitesAgree` (`Replication`) | `MembersKnowEachOther`, `OneMaster`, once all messages have arrived and where no two announcements overlapped |
| `AttachmentsStayTogether` (`Attachments`) | `DocumentsMatch`, `PartsMatch`, `PartsCanBeRemoved`; `RetriesStoreAll` |
| `RolesGoDown` (`Roles`) | `InheritedRolesMatch`; `RolesChangedByCoordinators`, `OwnRolesStay` as steps |
| `StoredSessionsLast` (`DbSessions`) | `ChangesStay`, `UsedStoredStay` |
| `CommitsStay` (`Environment`) | `SyncedSurvive`, `LogsReachFiles`; `BackupsAreWhole`: a backup is what was committed at its lock, and at most the late transactions; `ClosedWithoutThreads`; `RestoreBringsBack` as steps |

Every part of a property of a passing run has a mutant: a changed definition, kept next to
the original in the module, under which the run fails. The mutants are the
mistakes one would fear: an abort counted twice, a retry not counted, a cascade
that stops early, a bin entry that stays, a handler read twice, a missing
sentinel.

## Bounds

*Transactions.* Two workers suffice for a lost update and for one thread in the
way of another; `MaxRetries = 2` (12 in the code) has a first attempt, a retry
and exhaustion; `MaxDepth = 1` has a nested call; `MaxRedirects = 1` one redirect
in a request. `MaxDrift = 0` stops new transactions and locks once races or leaks
have made a counter wrong: what follows is the same with other numbers. The
proofs have none of these bounds.

*ObjectStore.* Five ids hold a folder, one in it, a shortcut and two entries of
the bin, which is a nested recycling; each id is used once. A method calls itself
at most once per object, so that `CallDepth = 8` is never met and no call fails
for it; the proofs have calls that fail so as well. `Down5` sorts ids
against the order of creation and `Up4` with it, because the order of children
and shortcuts decides which copy is written last. `SelfLinks` and `MaxCount`
exclude known wrong behaviour ([findings](#findings)) from the runs that check
something else: shortcuts created in their own target lose the link, and moves
let the counters grow without end. `Operations` selects the web methods of a run
and `Overtaken` those that a slow request may call. `store_bin` has no `move`,
`copy` or `restoreTo`, and no slow `create` and `rename`, which violate its
properties in the ways listed below. It has folders and shortcuts only; documents
behave as shortcuts without a target, and `store_tree` has them.

*AsyncServer.* Three connections with one worker fill the queue of size two and
let a handler serve a second connection; two workers may have handlers at once.
`Size = 2` makes partial sends. `Writes = 1` is what the mod_python and wsgi
interfaces do, which write the whole response in one call; `Writes = 2` stands
for the cgi interface and for redirects.

*services.* Two putters and two getters at an array of two chunks carry the
messages of two connections, one of which has two, and the sentinel, each of one
to three chunks, so that some fit exactly and one never does. Two requests and
the expiry thread share two sessions with `Timeout = 0`, `Revive = 1`
(`SessionsBound`: with two sessions, one request at a time). Two managers give
two commands to two sub-processes, one of which may fail; a restore does all
that a backup does, so it stands for both. Two threads run transactions, one in
the main process and one in a sub-process (`Homes`), with one retry
(`TransTries = 2`), one of them at a time and, where both commands are restores,
only that of the sub-process (`MaintenanceBound`); so a transaction is late for
either command, in either kind of process, before its first try and before its
second. Two callers and three scripts share a
cache of two. Two transactions take two items in any order, or three one item,
with one retry.

*data_language.* Integers have three bits, so that packing and comparing bytes
meets its ends. The stores have four items in one container, and seven in three
levels of folders with one deleted and one unreadable; the conditions are all
combinations of two and of three of a few, the ranges the first row and the
second. The grammars are four of the textbook that separate SLR, LALR and LR(1)
and that have empty and left-recursive rules, 1296 small ones, read to three
tokens, and three parts of OQL to nine. The texts are those of four characters
of twelve classes and those of six that make up numbers or strings. Two
processes share the table files, with one upgrade of the grammar and one crash.
Three sites join twice, elect twice, and one stops. One client has two requests
under way and up to three chunks. Two requests share a session in the database,
which is changed three times. Two users and three descriptors meet four objects
in four calls; `StaysInTree` leaves out that a folder is restored into one below
it ([findings](#findings)). The files see two
commits, with the transactions on their way to one counted in, two commands and
one crash; a transaction that is late for a backup and another that is late for
its restore need no more. An
attachment has two contents, a class one change of its schema, a call two
attempts.

Runs set `CHECK_DEADLOCK FALSE` because the systems may stop: a worker that has
no request waits, ids run out, and a server that was shut down is finished.

## Fairness

The operating system schedules every thread, so each thread has weak fairness on
what it can do. In `Transactions` three things need strong fairness: a request
handler finishes, and a transactional function returns (neither calls others
for ever); and a thread that polls the gate five times a second passes it in the
end although commands shut it again and again, as an operator does not issue
commands in a loop timed to miss it. Nothing makes clients or operators act. The
retries of a call need no fairness: they are counted. `CalmSpec` is the
specification without overlapping counter updates; with one, `lock()` can wait
for ever, which is a consequence of the lost update and shown in no run.

In `services` each thread has weak fairness on what it does next: those that put
and get, a request under way and the expiry thread (and time passes), managers,
sub-processes and transactions that must end, callers, writers and the deadlock
detector, and a transaction that is past the gate (`TransGoesOn`). Nothing makes
a request, a command, a transaction or a message begin. None of it is strong: a
thread that waits for a lock is woken by the step that frees it, and a transaction
that is tried again ends because the tries are counted.
The properties say that what is under way comes to rest, and are written as
`[]<>` of the rest: `A ~> ~A \/ B` is the same formula as `[]<>(~A \/ B)`.

In `AsyncServer` the asyncore thread, each worker and the main thread have weak
fairness; a request handler therefore ends, by its writes or by an exception.

## Proofs

`TransactionsProofs` proves all safety properties of `Transactions` for every
number of threads, retries, nested calls and redirects, from the assumptions on
the constants alone. The properties are not inductive: `activeTxns` is exact
between two half-done updates only if one knows which of them are pending, and
`AllOrNothing` at the end of a call depends on how the call got there. `IInv`
says for each place of a worker (`At`, which looks through a pending counter
store) what holds of its handle, its call and its frames; `CounterExact` and
`LocksExact` are part of it. The counts are cardinalities: a step of one worker
adds it to `Counted` or removes it, the lemma `WorkerKeepsCount`.

`AsyncServerProofs` proves the types for every instance. For responses written
in one call it proves `HandlerExclusive`, `ServesItsConnection` and
`AnsweredInFull` for any number of workers and connections. The invariant `IInv` adds the notion of a `Ready`
handler (it has a connection, the request of that connection, no response yet,
and is marked or about to be): everything in the queue and at a worker is
`Ready` while the workers live, and no action of the asyncore thread but `Mark`
touches a `Ready` handler. `AnsweredInFull` needs `SentInv` on top of it: the
response of an open connection has not been written, or what was sent and what
waits in `output_buffer` make up the whole response (`Whole`). With two writes the first conjunct fails, as the run
`async_reuse` shows. The premise `Writes = 1` is part of the statements.

`ObjectStoreProofs` proves `TypeOK`, `LinksMatch`, `NothingInBinIsVisible`,
`TreeStaysWhole` and `DeletedForGood`, and `HiddenAsOftenAsRecycled` where entries
of the bin are restored to their own folders, for any number of ids, names and
slow requests, whatever a kind of folder accepts and however deep calls nest.

What makes the level of an object hard to reason about is that many entries of
the bin hide it, through the folders around it and the targets of shortcuts. The
invariant says it locally. The weight of an object (`Own`) is its level less that
of its folder, and one less if it is the shortcut of a hidden object; in a `Valid`
store the weight is the number of the object's own entries in the bin (`Weighed`),
an entry stands for an object that can be deleted (`References`), and every object
is where its kind belongs and leads to objects that are there (`Whole`). That the level is then the number of
all entries that hide the object follows by adding the weights up along the line
of its folders (`LevelCounts`), and a negative level is excluded by the folder
that is nearest to the root (`LevelsNatural`).

Little of this holds in the middle of a method, where the object may be missing,
or its children shown and their folder hidden. There the proof knows only that the
store is `Sound`: the two ends of a stored shortcut agree, and folders and targets
form no cycle, in the form that every set of objects has one whose folder is
outside of it and one whose target is. With this the methods that call themselves
are characterised: `_recycle` raises by one the level of what is in the object
(`Spans`) and of every shortcut whose target was visible and is not any more
(`Rises`), and leaves everything but counters as it is (`Moves`); `_undelete` does
the opposite; `_delete` removes the object, what is in it and the shortcuts to
that, and takes them off the lists of their targets (`Deletes`). The proof is an
induction on the calls that may still be nested, and within a call on the keys
that a cursor has passed (`InTurnRule`). Then each web method is followed from a
valid store to a valid one.

The premise `Calm` is about the constants `Operations`, `Overtaken` and
`SelfLinks`: no copies, no shortcuts in the folder they point to, and slow
requests that recycle, delete, purge, restore or empty the bin. It leaves out
what the runs show to break these properties (`store_copied`,
`store_resurrected`, [findings](#findings)), and the instance of
`store_bin` satisfies it. `Exact` leaves out `restoreTo`, which sets
a level to one and not those below; without `Exact` the weights are lower bounds and
an object has one entry at most (`Single`), for which `Calm` leaves out slow requests
that recycle. So the tree, the links and the bin are proved with moves and
restorations elsewhere.
That a tree stays whole with copies and with shortcuts in their own targets is
checked by `store_tree` in its instance, and does not hold in larger ones
([findings](#findings)).

`ProcessesProofs` proves, for any number of threads, messages and slots, that
`SharedQueue` implements `MessageQueue` (`MessagesStayWhole`) and that its lock is
lost only to a message that fills the array (`LockLostToFullMessage`). The
assumption that no file number is `EndOfFile` is part of the constants. The
invariant describes the array: the chunks of a message are next to each other,
whole and in order (`Chunked`), none is there twice, a connection has one message
in it, and no message in it is still to be put. The mapping needs one more fact:
the abstract queue, which lists the messages by the rank of their first chunk, has
at place n the message whose first chunk has rank n (`Ranked`). With it a put
appends, a get removes the head, and all other steps stutter.

It also proves `MaintenanceSafe` for any number of managers and sub-processes
and any commands. The gate of a process is not what counts, as a
`DB_LOCK` may be on its way in the pipe; `MInv` therefore speaks of the gate once
the first k messages in the pipe are handled (`Gate`), for each k, and says that
it is the number of jobs that hold it (`GateCounts`), where a job is a place in
the steps of its command (`Pos`). Databases that are shut and answers on the way
are likewise those of jobs (`ShutForACommand`, `AnswersLeft`). For the transactions
it takes one function of the state, `entered`: the processes with a transaction
that is not late. Every step but `PassGate` at an open gate leaves a process
outside of it where it was (`NoneEnter`), whatever begins, is tried again, ends or
is closed with its database, and a drain takes its process out
(`DrainingLeaves`). That a job got its own answers holds for one that met no other exchange (`Alone`, `OwnAnswer`); that
is also what the property claims.

`SessionsProofs` has the three session managers.
`SessionsKept` (in memory) rests on `SInv`: how often a session is in the list is
read off the dictionary and the requests that are between their `append` and
their `remove` (`ListedRightly`, a cardinality), a session without an entry in
the list is known to its creator alone, and what the expiry thread holds overdue
is older than the timeout (`OverdueIsOld`), whatever requests did since.
`StoredSessionsLast` (in the database) rests on `UsesWritten`: the stored age of a
session exceeds the time since its last use by the revival threshold at most,
because `FetchStored` revives it otherwise; and on the types, which keep an
outdated copy of a request a content of its own session.
`CookiesMakeASession` rests on `CInv`: a response on its way that changes the
cookies brings its session whole or ends it (`UnderWay`), so that the cookies
make a session again whichever response comes last.

`QueryProofs` proves `CacheKeepsOrder` for any number of callers and scripts and
any size of the cache. It needs that the list of the cache holds each key once
(`Once`), which makes `remove` and `pop(0)` mean what they say; that a caller which
was told that its script is cached finds it unless it was evicted meanwhile
(`Awaited`); and for the step that evicts that the order of the list is the order
of last use (`InOrder`), over the history `usedSince`. Each is used for the
others, so `IInv` has them all. For the generated tables it proves
`TablesCanBeShared` for any number of processes, versions and crashes: a process
that has read or built the tables of the parser has those of its own grammar
(`UsesItsGrammar`), whatever the files hold, because their signature is compared;
and as long as no process crashed every block that a file lacks is still to be
written by somebody (`WillBeWhole`).

`DatabaseProofs` proves `CommitsStay` for any number of commits, crashes, backups,
restores and shrinks: no promised commit is lost, and a backup brings back what was
committed when its command had locked the database, and at most what was late
then. Until two commands got in each other's way, `EInv` says that the log
reaches from the database files to everything that was promised, all of it on
disk (`LogHolds`), what each command has so far (`BackupHolds`, `RestoreHolds`,
`ShrinkHolds`), and that the gate counts the commands that hold it. `OnlyLate`
bounds what can still be added to the log while a command holds the gate: the
commits since its lock, the transactions that are counted and those that may yet
begin are together no more than were late. A commit or a retry moves one from one
place to the other, and none is added because the gate is closed. For the
replication it proves `SitesAgree`: when no announcement is on its way the sites
agree, unless announcements overlapped. `RInv` says what the announcement that is
on its way has still to tell: a site that does not know another, or has not heard
of the new master, is one that it has yet to reach (`JoinHolds`, `ElectHolds`,
`HearHolds`). The assumptions are those on the constants, among them that
`NoSite` is not a site.

`ItemsProofs` proves `NoLostUpdates` of `ItemLocks` for any number of threads,
items, retries and commits: the content of an item is the number of committed
transactions that counted it up. The invariant is the one of two-phase locking:
what a transaction has read is still what is committed (`UpToDate`), because no
other has written it (`Excluded`), and it writes one more. `LocksHold` states
it for any states of the transactions, so that one lemma covers the granting of
locks (`Served`) with which requests for a lock, commits, failures and retries
end.

For `Roles` it proves `RolesTypeOK` and `RolesGoDown` for any number of objects,
users and calls. `Line` and `ApplyBelow` are recursive functions, which mean
something only on a tree, so `RolesInv` says that the objects are one: every set
of them below the root has a member whose parent is outside of it (`Rooted`),
which is "no cycles" in a form that needs no induction. Such a function is shown
to exist by writing it down without recursion, the line of an object as the
least set closed under parents and the roles below an object as those of the
nearest one above it that does not inherit. Facts about all objects then follow
from `Rooted`, applied to the set of those that lack them (`NoLoop`). Moving, copying,
recycling and restoring keep the tree because a target is never below the object
that is moved.

For `Attachments` it proves `AttachmentsTypeOK` and `AttachmentsStayTogether` for
any contents, ids, versions of the schema and attempts. That each document has
one owner is not inductive: a deletion removes documents by their ids alone, so
`Together` also says that no two attributes share an id (`DocsApart`), that what
is stored has ids that were given out (`AllGivenOut`), and which documents and
composites are left behind or shared (`DocsBelong`, `PartsBelong`). A call keeps
its argument from one attempt to the next, while the schema stays as it is;
`AttInv` therefore says what a call was given: ids that nothing has (`Unclaimed`),
or composites of its own item as they are stored (`PartsGiven`), which is why
every attempt stores the same and no composite changes its item. What an update
or a new item writes (`Writes`) and what a copy or a mark writes (`Rewrites`) are
each described once, and one lemma shows that such a write leaves everything
together (`WritesTogether`, `RewritesTogether`). `PartsCanBeRemoved` follows from
`PartsThere`: the handlers raise only if a composite is missing.

Model-checked only: liveness and `ENABLED`, which are beyond the prover;
`EverythingCanBeDeleted` and `RestoreUndoesRecycle`, which need that no step of
a method raises an exception (the proofs about `ObjectStore` are about calls
that return), and `CopyItem` and `SelfLinks`; `LrParser`, `Lexer` and
`Queries`, which compute over stacks, items of a grammar and conditions for
every one of a bounded set, where a proof would be an induction over that data;
and `ServicesTypeOK` and `DataTypeOK`, which put the types of all modules of a
run together. Of these conjuncts, those of `SharedQueue`, `Sessions`,
`QueryCache`, `Replication`, `Roles` and `Attachments` are proved; the
invariants of the others have the part of the types that they need (`EnvTyped`,
`Typed`, `MaintenanceTyped`).

## Findings

Each of these runs ends in a violation, with the behaviour as its trace:

* `txn_lock`: `lock()` returns while a thread that had passed the gate, or that
  retries, opens a transaction (`_db.py:201-204`, `transaction.py:37-40`).
  What this does to the commands is in `Maintenance` and `Environment`, below.
* `store_copied`: the copy of an object takes over the shortcuts of the original
  (`systemObjects.py:96`, `dteventhandlers.py:201-207`).
* `store_resurrected`: creating an object in a folder that is deleted meanwhile
  brings the folder back (`pthread.py:90`, `systemObjects.py:615`).
* `async_reuse`: a connection is closed after the first part of a response and
  its handler reused while the worker writes the rest (`asyncserver.py:341-348`,
  `cgi.py:28-44`).

Others came up while modelling. They are in the model as the code has them and
are kept out of the passing runs by the bounds above:

* `move_to` adds to the counter of the target and never takes from that of the
  source (`systemObjects.py:197-214`), also when both are the same folder.
* `recycle` does not count the new entry in the bin while deleting one does
  (`systemObjects.py:240-250`, `380-382`): `_ni` of the bin becomes negative.
* Recycling or restoring a folder that holds an object and a shortcut to it, or
  an object whose shortcut is recycled already, leaves wrong counters
  (`systemObjects.py:282-345`): the folder's own copy is written last.
* Restoring an object that had been recycled inside a recycled folder to another
  folder leaves its content hidden (`systemObjects.py:834-836`).
* A shortcut created in the folder that it points to loses its link: the folder
  is written from two copies (`systemObjects.py:607-615`). The folder can then
  not be deleted permanently (`dteventhandlers.py:296-309`). With seven objects
  the levels go wrong as well, by reasoning and not by a run: let `F` be the folder
  and `s` the shortcut that `F` does not list. Move `s` elsewhere, recycle `F`
  (`s` stays visible), copy `s` into a folder `G`: the hidden `F` lists the copy,
  which is visible. Restoring `F` takes the copy to level -1, and recycling `G`
  makes it visible in a hidden folder.
* A slow `create` or `rename` on an object recycled meanwhile makes it visible
  while its entry is in the bin, and restoring it later takes its level to -1.
* A worker that fails on a request before the asyncore thread has executed line
  337 leaves a handler that is marked but closed; its next connection is never
  read (`Deaf` in `AsyncServer`). The connection stays open until the client
  gives up.
* Requests that complete after the last worker has stopped fill the queue, and
  the asyncore thread waits in `put` for ever, so shutdown does not end
  (`Jammed`).
* An internal redirect loses the transaction of the outer request: it stays open
  and counted, so no later `lock()` returns (`pthread.py:151-158`).

Of the modules written after these:

* *Shared queue*: a message with more chunks than the array waits for ever, and
  takes the notifications meant for others; one that fills it exactly makes
  `get` read past its end, and the exception leaves the lock taken
  (`asyncserver.py:394-422`).
* *Maintenance*: the lock is a counter, so two commands run together and one may
  restore while the other saves (`management.py:101`). Two exchanges over a pipe
  take each other's answers (`asyncserver.py:235`), and a command may start to
  work before a sub-process has drained. A process that cannot open its
  database after a restore stays without (`management.py:112`). A command works
  beside transactions that are late. If one is in the environment when a restore
  closes it, its thread fails where it would have counted it down
  (`transaction.py:58-59`, `68-69`), and no later `lock()` in that process returns
  (`miscounted`).
* *Sessions*: in memory, a session that ends while the expiry thread looks at it
  ends that thread (`inmemory/__init__.py:49`). In the database, reviving a
  session or changing its user writes back what the request read, undoing the
  changes of others and bringing ended sessions back (`indb/schema.py:67`); the
  session of the request is a copy that `set_value` does not change, because
  transactional functions get deep copies. In cookies, a session that is made
  and ended in one request stays, and `remove_session` sets the cookie `_sid` to
  a path instead of setting its path (`incookie/__init__.py:61-63`).
* *Query cache*: a query that is evicted between the look and the fetch raises
  with the lock taken, and nobody else enters again (`cache.py:33-42`).
* *Files*: in Python 3 `shrink` adds bytes to a string (`bsddb/__init__.py:405`);
  restoring a file that is no backup removes the store first; a crash in a
  restore loses it. A late transaction commits while a backup copies: if a
  checkpoint brings the commit to the database files before they are copied, and
  its log file was copied, or not listed, before, the backup has files that are
  ahead of its log. `open_db` fails on a service list without database.
* *Objects*: a copy shares the composites of the original (`systemObjects.py:76`);
  copying an object with an empty document raises in Python 3
  (`datatypes.py:468`); deleting an object whose class has dropped an attribute
  leaves its documents and composites behind; `create` removes the uploaded file
  inside the transaction, so that a second attempt fails (`basecontainer.py:116`).
* *Roles*: a coordinator's outdated copy of an object brings old roles back. A
  slow `create` in a folder that was recycled meanwhile makes this folder
  visible again, in the bin; the folder around it can then be restored into it,
  because `restore_to` does not look (`systemObjects.py:744-846`), and neither is
  in the tree any more.
* *Replication*: the list of sites that a joining site gets was taken before the
  others were told of it, so that two that join at once do not learn of each
  other (`management.py:212`); overlapping announcements of masters leave sites
  with different ones.
* *Queries*: negative integers are packed above positive ones
  (`utils/db/__init__.py:48`); two cursors of the same size in a join are
  compared with each other, which raises in Python 3 (`cursor.py:271`); an empty
  index or a reversed range beyond its end raises (`cursor.py:119-138`);
  `x BETWEEN a OR b AND c` is rejected; a name that begins with `true` or `false`
  is cut (`oql/parser.py:147`).
* *Parser generator*: items with an empty tail are followed from the wrong state
  (`yacc.py:2207`); the SLR method starts the follow sets at the first production
  instead of the start symbol (`yacc.py:1718`); the table of the lexer has no
  signature of its rules, so that an older file is used after an upgrade
  (`GeneratedTables`).

## Not modelled

The components with the status `not_modelled` in `PROJECT.json`, with the reason
for each. The crash of a process is modelled where files are written
(`Environment`, `GeneratedTables`); elsewhere a restart is `Init` with an
unchanged store.
