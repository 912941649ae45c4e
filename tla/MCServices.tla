----------------------------- MODULE MCServices -----------------------------
(***************************************************************************)
(* Instances for TLC of the services of a server that share no variables,  *)
(* checked side by side: a behaviour runs one of the parts while the       *)
(* others rest in a state in which none of their threads can go on, so     *)
(* that their fairness asks for nothing.                                   *)
(***************************************************************************)
EXTENDS SharedQueue, Sessions, Maintenance, QueryCache, ItemLocks

CONSTANTS
  Parts,      \* the parts to run
  Bystander,  \* a writer that is idle in the instance with several items
  OnlyItem    \* the item of the instance in which all writers work

VARIABLE part

AllParts == {"queue", "sessions", "maintenance", "cache", "locks"}

\* The messages of two connections, one of which makes a second request, and
\* the sentinel.
FilesOfQueue == <<5, 7, 5, EndOfFile>>

\* A restore does all that a backup does.
CommandsGiven == {"restore", "notify"}

\* One thread runs transactions in the main process, one in a sub-process.
Homes == [c \in {"c1", "c2"} |-> IF c = "c1" THEN Main ELSE 1]

\* Two writers take two items in any order, or all writers take one item.
Works ==
  {[w \in Writers |-> IF w = Bystander THEN {} ELSE LockedItems],
   [w \in Writers |-> {OnlyItem}]}

servicesVars ==
  <<part, queueVars, sessionVars, maintenanceVars, cacheVars, lockVars>>

QueueAtRest ==
  /\ size = [m \in Messages |-> 1]
  /\ unsent = Messages /\ putting = [p \in Putters |-> NoMessage]
  /\ slots = [i \in 1 .. Capacity |-> Blank]
  /\ qsize = 0 /\ qlock = "free" /\ received = <<>>
  /\ qstate = [t \in Putters \cup Getters |->
                IF t \in Putters THEN "idle" ELSE "asleep"]

SessionsAtRest ==
  /\ issued = 0 /\ table = {} /\ order = <<>> /\ overdue = {}
  /\ age = [s \in Sids |-> 0] /\ idleFor = [s \in Sids |-> 0]
  /\ request = [r \in Requests |-> [at |-> "idle", sid |-> NoSid]]
  /\ expiry = [Asleep EXCEPT !.at = "dead"]

\* Every writer has made its commits.
LocksAtRest ==
  /\ nowait = TRUE /\ worksOn = [w \in Writers |-> {OnlyItem}]
  /\ begun = <<>>
  /\ txn = [w \in Writers |-> NoTxn("idle")]
  /\ tries = [w \in Writers |-> 0]
  /\ landed = [w \in Writers |->
       [i \in LockedItems |-> IF i = OnlyItem THEN MaxCommits ELSE 0]]
  /\ content = [i \in LockedItems |->
       IF i = OnlyItem THEN MaxCommits * Cardinality(Writers) ELSE 0]

\* Bound: two requests are served at the same time only while there is one
\* session; a request that is served alone meets two and the expiry thread.
SessionsBound ==
  issued > 1 => Cardinality({r \in Requests : request[r].at # "idle"}) <= 1

\* Bound: one transaction at a time, and beside two restores only in a
\* sub-process.
MaintenanceBound ==
  LET busy == {c \in Clients : trans[c] # Idle} IN
  /\ Cardinality(busy) <= 1
  /\ (\A m \in Managers : manager[m].cmd = "restore") =>
       \A c \in busy : Home[c] # Main

ServicesInit ==
  /\ part \in Parts
  /\ IF part = "queue" THEN QueueInit ELSE QueueAtRest
  /\ IF part = "sessions" THEN SessionsInit ELSE SessionsAtRest
  /\ IF part = "locks" THEN LocksInit ELSE LocksAtRest
  /\ MaintenanceInit /\ CacheInit

ServicesNext ==
  /\ UNCHANGED part
  /\ \/ /\ part = "queue" /\ QueueNext
        /\ UNCHANGED <<sessionVars, maintenanceVars, cacheVars, lockVars>>
     \/ /\ part = "sessions" /\ SessionsNext /\ SessionsBound'
        /\ UNCHANGED <<queueVars, maintenanceVars, cacheVars, lockVars>>
     \/ /\ part = "maintenance" /\ MaintenanceNext /\ MaintenanceBound'
        /\ UNCHANGED <<queueVars, sessionVars, cacheVars, lockVars>>
     \/ /\ part = "cache" /\ CacheNext
        /\ UNCHANGED <<queueVars, sessionVars, maintenanceVars, lockVars>>
     \/ /\ part = "locks" /\ LocksNext
        /\ UNCHANGED <<queueVars, sessionVars, maintenanceVars, cacheVars>>

ServicesSpec ==
  /\ ServicesInit /\ [][ServicesNext]_servicesVars
  /\ QueueFairness /\ SessionsFairness /\ MaintenanceFairness /\ CacheFairness
  /\ LocksFairness
-----------------------------------------------------------------------------
\* Every variable of the services keeps its type.
ServicesTypeOK ==
  QueueTypeOK /\ SessionsTypeOK /\ MaintenanceTypeOK /\ CacheTypeOK
  /\ LocksTypeOK

\* Whatever a service began ends: a put and what it put, a session that nobody
\* uses, a command, a query and a transaction, unless the lock of the queue or
\* of the cache is lost or a sub-process or the expiry thread died.
WorkEnds ==
  /\ PutsEnd /\ PutsAreReceived
  /\ IdleSessionsEnd
  /\ CommandsEnd
  /\ ExecutionsEnd
  /\ TransactionsEnd /\ OldestGoesOn
=============================================================================
