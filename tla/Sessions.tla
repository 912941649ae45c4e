------------------------------ MODULE Sessions ------------------------------
(***************************************************************************)
(* The sessions in memory (core.session.inmemory) under concurrent         *)
(* requests and the expiry thread.                                         *)
(*                                                                         *)
(* The sessions are kept in a dictionary and, in the order of their last   *)
(* access, in a list.  Nothing is locked: a step is one operation on the   *)
(* dictionary or the list, which the interpreter does at once.             *)
(*                                                                         *)
(* Times are ages.  They are capped just above the largest number that     *)
(* they are compared with.                                                 *)
(***************************************************************************)
EXTENDS Integers, Sequences, FiniteSets

CONSTANTS
  Requests,      \* the threads that serve requests
  MaxSessions,   \* bound: the sessions that are created
  Timeout,       \* timeout
  Revive         \* revive_threshold

ASSUME SessionsAssumption ==
  /\ IsFiniteSet(Requests) /\ MaxSessions \in Nat
  /\ Timeout \in Nat /\ Revive \in Nat

Sids  == 1 .. MaxSessions   \* numbered in the order they are created
NoSid == 0

VARIABLES
  issued,      \* number of sessions created
  table,       \* _sessions: the ids in it
  order,       \* _list
  age,         \* the time since _last_accessed
  idleFor,     \* the time since a request was last given the session
  request,     \* each request thread: where it is, and its session
  expiry,      \* the expiry thread: where it is, in the list and its session
  overdue      \* the sessions that were last accessed before the threshold

sessionVars ==
  <<issued, table, order, age, idleFor, request, expiry, overdue>>

MaxAge == Timeout + Revive + 1

Asleep == [at |-> "asleep", i |-> 1, sid |-> NoSid]

SessionsTypeOK ==
  /\ issued \in 0 .. MaxSessions
  /\ table \subseteq 1 .. issued
  /\ order \in Seq(1 .. issued)
  /\ age \in [Sids -> 0 .. MaxAge]
  /\ idleFor \in [Sids -> 0 .. MaxAge]
  /\ request \in
       [Requests -> [at : {"idle", "list", "append", "remove", "touch", "serve",
                           "unlist", "delete"},
                     sid : 0 .. issued]]
  /\ expiry \in [at : {"asleep", "next", "check", "unlist", "delete", "dead"},
                 i : Nat, sid : 0 .. issued]
  /\ overdue \subseteq Sids

SessionsInit ==
  /\ issued = 0
  /\ table = {}
  /\ order = <<>>
  /\ age = [s \in Sids |-> 0]
  /\ idleFor = [s \in Sids |-> 0]
  /\ request = [r \in Requests |-> [at |-> "idle", sid |-> NoSid]]
  /\ expiry = Asleep
  /\ overdue = {}

-----------------------------------------------------------------------------
\* list.remove takes out the first occurrence.
Listed(s) == \E i \in DOMAIN order : order[i] = s

Without(s) ==
  LET k == CHOOSE i \in DOMAIN order :
             order[i] = s /\ \A j \in 1 .. i - 1 : order[j] # s
  IN  SubSeq(order, 1, k - 1) \o SubSeq(order, k + 1, Len(order))

Goes(r, place) == request' = [request EXCEPT ![r].at = place]

\* The request ends, or fails with an exception.
Ends(r) == request' = [request EXCEPT ![r] = [at |-> "idle", sid |-> NoSid]]

\* The sessions that are being created: no client knows their ids.
New == {request[r].sid : r \in {q \in Requests : request[q].at = "list"}}

\* _fetch_session and fetch_session.  A request has the id of a session, which
\* may have ended, or none.  The session has been accessed lately,
FetchFresh(r, s) ==
  /\ request[r].at = "idle"
  /\ s \in table \ New
  /\ age[s] <= Revive
  /\ request' = [request EXCEPT ![r] = [at |-> "serve", sid |-> s]]
  /\ idleFor' = [idleFor EXCEPT ![s] = 0]
  /\ UNCHANGED <<issued, table, order, age, expiry, overdue>>

\* is to be revived,
FetchOld(r, s) ==
  /\ request[r].at = "idle"
  /\ s \in table \ New
  /\ age[s] > Revive
  /\ request' = [request EXCEPT ![r] = [at |-> "append", sid |-> s]]
  /\ UNCHANGED <<issued, table, order, age, idleFor, expiry, overdue>>

\* or there is none: create_session.
CreateSession(r) ==
  /\ request[r].at = "idle"
  /\ issued < MaxSessions
  /\ issued' = issued + 1
  /\ table' = table \cup {issued + 1}
  /\ age' = [age EXCEPT ![issued + 1] = 0]
  /\ idleFor' = [idleFor EXCEPT ![issued + 1] = 0]
  /\ request' = [request EXCEPT ![r] = [at |-> "list", sid |-> issued + 1]]
  /\ UNCHANGED <<order, expiry, overdue>>

MutantListSession(r) ==
  /\ request[r].at = "list"
  /\ order' = Append(order, NoSid)
  /\ Goes(r, "serve")
  /\ UNCHANGED <<issued, table, age, idleFor, expiry, overdue>>

ListSession(r) ==
  /\ request[r].at = "list"
  /\ order' = Append(order, request[r].sid)
  /\ Goes(r, "serve")
  /\ UNCHANGED <<issued, table, age, idleFor, expiry, overdue>>

\* revive_session appends the id,
ReviveAppend(r) ==
  /\ request[r].at = "append"
  /\ order' = Append(order, request[r].sid)
  /\ Goes(r, "remove")
  /\ UNCHANGED <<issued, table, age, idleFor, expiry, overdue>>

MutantReviveRemove(r) ==
  /\ request[r].at = "remove"
  /\ Goes(r, "touch")
  /\ UNCHANGED <<issued, table, order, age, idleFor, expiry, overdue>>

\* removes its first occurrence, which raises ValueError if it is gone,
ReviveRemove(r) ==
  LET s == request[r].sid IN
  /\ request[r].at = "remove"
  /\ \/ Listed(s) /\ order' = Without(s) /\ Goes(r, "touch")
     \/ ~Listed(s) /\ Ends(r) /\ UNCHANGED order
  /\ UNCHANGED <<issued, table, age, idleFor, expiry, overdue>>

\* and sets the time of the access.
ReviveTouch(r) ==
  LET s == request[r].sid IN
  /\ request[r].at = "touch"
  /\ age' = [age EXCEPT ![s] = 0]
  /\ idleFor' = [idleFor EXCEPT ![s] = 0]
  /\ overdue' = overdue \ {s}
  /\ Goes(r, "serve")
  /\ UNCHANGED <<issued, table, order, expiry>>

\* The request is served.
Serve(r) ==
  /\ request[r].at = "serve"
  /\ Ends(r)
  /\ UNCHANGED <<issued, table, order, age, idleFor, expiry, overdue>>

\* The logout method ends the session.
Logout(r) ==
  /\ request[r].at = "serve"
  /\ Goes(r, "unlist")
  /\ UNCHANGED <<issued, table, order, age, idleFor, expiry, overdue>>

\* remove_session: list.remove, then del.  Either may raise.
Unlist(r) ==
  LET s == request[r].sid IN
  /\ request[r].at = "unlist"
  /\ \/ Listed(s) /\ order' = Without(s) /\ Goes(r, "delete")
     \/ ~Listed(s) /\ Ends(r) /\ UNCHANGED order
  /\ UNCHANGED <<issued, table, age, idleFor, expiry, overdue>>

Unmap(r) ==
  /\ request[r].at = "delete"
  /\ table' = table \ {request[r].sid}
  /\ Ends(r)
  /\ UNCHANGED <<issued, order, age, idleFor, expiry, overdue>>

-----------------------------------------------------------------------------
(* The expiry thread.  An exception ends it.                               *)

MutantBefore == {s \in 1 .. issued : age[s] > Timeout}

\* The sessions last accessed before expire_threshold.
Before == {s \in 1 .. issued : age[s] > Timeout + Revive}

StartPass ==
  /\ expiry.at = "asleep"
  /\ overdue' = Before
  /\ expiry' = [expiry EXCEPT !.at = "next", !.i = 1]
  /\ UNCHANGED <<issued, table, order, age, idleFor, request>>

Dies == expiry' = [Asleep EXCEPT !.at = "dead"] /\ overdue' = {}

EndPass == expiry' = Asleep /\ overdue' = {}

\* The list is walked by position, while it changes.
NextSession ==
  /\ expiry.at = "next"
  /\ \/ /\ expiry.i \in DOMAIN order
        /\ expiry' = [at |-> "check", i |-> expiry.i + 1,
                      sid |-> order[expiry.i]]
        /\ UNCHANGED overdue
     \/ expiry.i \notin DOMAIN order /\ EndPass
  /\ UNCHANGED <<issued, table, order, age, idleFor, request>>

\* get_session returns None for a session that ended, which has no
\* _last_accessed.
CheckSession ==
  LET s == expiry.sid IN
  /\ expiry.at = "check"
  /\ \/ /\ s \in table \cap overdue
        /\ expiry' = [expiry EXCEPT !.at = "unlist"]
        /\ UNCHANGED overdue
     \/ s \in table \ overdue /\ EndPass
     \/ s \notin table /\ Dies
  /\ UNCHANGED <<issued, table, order, age, idleFor, request>>

ExpireUnlist ==
  LET s == expiry.sid IN
  /\ expiry.at = "unlist"
  /\ \/ /\ Listed(s) /\ order' = Without(s)
        /\ expiry' = [expiry EXCEPT !.at = "delete"]
        /\ UNCHANGED overdue
     \/ ~Listed(s) /\ Dies /\ UNCHANGED order
  /\ UNCHANGED <<issued, table, age, idleFor, request>>

MutantExpireUnmap ==
  /\ expiry.at = "delete"
  /\ expiry' = [expiry EXCEPT !.at = "next"]
  /\ UNCHANGED <<issued, table, order, age, idleFor, request, overdue>>

ExpireUnmap ==
  LET s == expiry.sid IN
  /\ expiry.at = "delete"
  /\ table' = table \ {s}
  /\ \/ /\ s \in table
        /\ expiry' = [expiry EXCEPT !.at = "next"]
        /\ UNCHANGED overdue
     \/ s \notin table /\ Dies
  /\ UNCHANGED <<issued, order, age, idleFor, request>>

-----------------------------------------------------------------------------
Older(t) == IF t = MaxAge THEN t ELSE t + 1

\* Time passes.  The age of a session that has ended is never read.
Tick ==
  /\ \E s \in table : age[s] < MaxAge \/ idleFor[s] < MaxAge
  /\ age' = [s \in Sids |-> IF s \in table THEN Older(age[s]) ELSE age[s]]
  /\ idleFor' =
       [s \in Sids |-> IF s \in table THEN Older(idleFor[s]) ELSE idleFor[s]]
  /\ UNCHANGED <<issued, table, order, request, expiry, overdue>>

Fetch(r) ==
  \/ \E s \in Sids : FetchFresh(r, s) \/ FetchOld(r, s)
  \/ CreateSession(r)

Continue(r) ==
  \/ ListSession(r)
  \/ ReviveAppend(r) \/ ReviveRemove(r) \/ ReviveTouch(r)
  \/ Serve(r) \/ Logout(r) \/ Unlist(r) \/ Unmap(r)

ExpirySteps ==
  StartPass \/ NextSession \/ CheckSession \/ ExpireUnlist \/ ExpireUnmap

SessionsNext ==
  \/ \E r \in Requests : Fetch(r) \/ Continue(r)
  \/ ExpirySteps
  \/ Tick

\* Threads that can go on are run, and time passes.
SessionsFairness ==
  /\ \A r \in Requests : WF_sessionVars(Continue(r))
  /\ WF_sessionVars(ExpirySteps)
  /\ WF_sessionVars(Tick)

SessionsSpec == SessionsInit /\ [][SessionsNext]_sessionVars /\ SessionsFairness
-----------------------------------------------------------------------------
(* Properties.                                                             *)

Occurrences(s) == Cardinality({i \in DOMAIN order : order[i] = s})

Busy(s) ==
  \/ \E r \in Requests : request[r].sid = s /\
       request[r].at \in {"list", "append", "remove", "unlist", "delete"}
  \/ expiry.sid = s /\ expiry.at \in {"unlist", "delete"}

\* Whatever requests and the expiry thread did to a session together, and
\* whichever of them failed: when they are done with it, it is once in the list
\* if it is in the dictionary, and gone from both if not.
ListAgrees ==
  \A s \in 1 .. issued :
    ~Busy(s) => Occurrences(s) = IF s \in table THEN 1 ELSE 0

\* The expiry thread gives no session up that a request was given within the
\* timeout, although not every access is recorded (fetch_session).
NotExpiredInUse ==
  [][expiry.at = "check" /\ expiry'.at = "unlist" =>
       idleFor[expiry.sid] > Timeout]_sessionVars

\* A session that nobody uses ends, unless the expiry thread has: it dies of a
\* session that ends while it looks at it.
IdleSessionsEnd ==
  \A s \in Sids :
    []<>(s \notin table \/ idleFor[s] <= Timeout \/ expiry.at = "dead")

\* The sessions and their list stay together, and a session that is in use
\* stays, however requests and the expiry thread overlap.
SessionsKept == []ListAgrees /\ NotExpiredInUse
=============================================================================
