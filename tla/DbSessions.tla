----------------------------- MODULE DbSessions ------------------------------
(***************************************************************************)
(* The sessions kept in the database (core.session.indb) under concurrent  *)
(* requests and the expiry thread.                                         *)
(*                                                                         *)
(* A request works with the copy of its session that it fetched.  Each     *)
(* method that changes the session is a transaction of its own, so a step; *)
(* some write to the stored session, others write the copy over it.  The   *)
(* transactional decorator gives such a method a copy of the copy, unless  *)
(* the method is called inside a transaction of the request.               *)
(*                                                                         *)
(* Times are ages, capped just above the largest number that they are      *)
(* compared with.                                                          *)
(***************************************************************************)
EXTENDS Integers, FiniteSets

CONSTANTS
  Visitors,      \* the threads that serve requests
  MaxStored,     \* bound: the sessions that are created
  Values,        \* the values of a session variable
  Persons,       \* the users
  Guest,         \* the user of a new session
  MaxChanges,    \* bound: calls that change a session
  SessionTimeout, ReviveAfter   \* timeout and revive_threshold

ASSUME DbSessionsAssumption ==
  /\ IsFiniteSet(Visitors) /\ MaxStored \in Nat /\ MaxChanges \in Nat
  /\ Guest \in Persons
  /\ SessionTimeout \in Nat /\ ReviveAfter \in Nat

VARIABLES
  given,    \* the number of sessions created
  stored,   \* the sessions in the database: user, value of a variable, age
  visit,    \* each request: where it is, its session and the copy of it
  unused,   \* the time since a request was given the session
  changes,  \* the number of calls so far
  meant,    \* what each session is after the calls made on it
  undone    \* the sessions over which an outdated copy was written

dbSessionVars == <<given, stored, visit, unused, changes, meant, undone>>

Ids == 1 .. MaxStored
Unset == "unset"   \* no such variable
Over == SessionTimeout + ReviveAfter + 1
Content == [userid : Persons, value : Values \cup {Unset}]
Gone == [userid |-> Guest, value |-> "gone"]
Away == [at |-> "away", id |-> 0, copy |-> Gone]
ContentOf(s) == [userid |-> s.userid, value |-> s.value]
Record(content) ==
  [userid |-> content.userid, value |-> content.value, age |-> 0]

DbSessionsTypeOK ==
  /\ given \in 0 .. MaxStored
  /\ DOMAIN stored \subseteq 1 .. given
  /\ \A s \in DOMAIN stored :
       ContentOf(stored[s]) \in Content /\ stored[s].age \in 0 .. Over
  /\ \A v \in Visitors :
       /\ visit[v].at \in {"away", "revive", "serve"}
       /\ visit[v].at = "away" <=> visit[v] = Away
  /\ unused \in [Ids -> 0 .. Over]

DbSessionsInit ==
  /\ given = 0 /\ stored = <<>> /\ changes = 0
  /\ visit = [v \in Visitors |-> Away]
  /\ unused = [s \in Ids |-> 0]
  /\ meant = [s \in Ids |-> Gone]
  /\ undone = {}

-----------------------------------------------------------------------------
Put(s, content) ==
  stored' = [t \in DOMAIN stored \cup {s} |->
               IF t = s THEN Record(content) ELSE stored[t]]

Now(s) == IF s \in DOMAIN stored THEN ContentOf(stored[s]) ELSE Gone

\* Writing the copy of the request undoes what was done since it was fetched.
Undoes(v) ==
  undone' = IF Now(visit[v].id) = visit[v].copy THEN undone
            ELSE undone \cup {visit[v].id}

\* _fetch_session and fetch_session: a session of the client, which is revived
\* if it was written long ago,
FetchStored(v, s) ==
  /\ visit[v] = Away /\ s \in DOMAIN stored
  /\ visit' = [visit EXCEPT ![v] =
       [at |-> IF stored[s].age > ReviveAfter THEN "revive" ELSE "serve",
        id |-> s, copy |-> ContentOf(stored[s])]]
  /\ unused' = [unused EXCEPT ![s] =
       IF stored[s].age > ReviveAfter THEN @ ELSE 0]
  /\ UNCHANGED <<given, stored, changes, meant, undone>>

\* or a new one: create_session.
CreateStored(v) ==
  /\ visit[v] = Away /\ given < MaxStored
  /\ LET new == [userid |-> Guest, value |-> Unset] IN
       /\ Put(given + 1, new)
       /\ visit' = [visit EXCEPT ![v] =
            [at |-> "serve", id |-> given + 1, copy |-> new]]
       /\ meant' = [meant EXCEPT ![given + 1] = new]
  /\ unused' = [unused EXCEPT ![given + 1] = 0]
  /\ given' = given + 1
  /\ UNCHANGED <<changes, undone>>

\* revive_session: Session.update writes the copy.
ReviveStored(v) ==
  /\ visit[v].at = "revive"
  /\ Put(visit[v].id, visit[v].copy)
  /\ Undoes(v)
  /\ visit' = [visit EXCEPT ![v].at = "serve"]
  /\ unused' = [unused EXCEPT ![visit[v].id] = 0]
  /\ UNCHANGED <<given, changes, meant>>

Serves(v) ==
  /\ visit[v].at = "serve" /\ changes < MaxChanges
  /\ changes' = changes + 1

\* The copy of the request, after a method that changed the one it was given.
CopyKept(v, nested, copy) ==
  visit' = IF nested THEN [visit EXCEPT ![v].copy = copy] ELSE visit

MutantWriteValue(v, x) ==
  Put(visit[v].id, [visit[v].copy EXCEPT !.value = x])

\* The session is fetched again, and written with the new value.
WriteValue(v, x) ==
  /\ visit[v].id \in DOMAIN stored
  /\ Put(visit[v].id, [Now(visit[v].id) EXCEPT !.value = x])

\* set_value; None has no data, if the session has ended.
SetValue(v, x, nested) ==
  /\ Serves(v)
  /\ WriteValue(v, x)
  /\ CopyKept(v, nested, [visit[v].copy EXCEPT !.value = x])
  /\ meant' = [meant EXCEPT ![visit[v].id].value = x]
  /\ UNCHANGED <<given, unused, undone>>

\* remove_value; the copy keeps it.
RemoveValue(v) ==
  /\ Serves(v)
  /\ Now(visit[v].id).value # Unset
  /\ WriteValue(v, Unset)
  /\ meant' = [meant EXCEPT ![visit[v].id].value = Unset]
  /\ UNCHANGED <<given, visit, unused, undone>>

\* userid = ...: writes the copy with the new user.
SetUser(v, p, nested) ==
  LET copy == [visit[v].copy EXCEPT !.userid = p] IN
  /\ Serves(v)
  /\ Put(visit[v].id, copy)
  /\ Undoes(v)
  /\ CopyKept(v, nested, copy)
  /\ meant' = [meant EXCEPT ![visit[v].id].userid = p]
  /\ UNCHANGED <<given, unused>>

RemoveStored(ended) == stored' = [s \in DOMAIN stored \ ended |-> stored[s]]

\* terminate_session.
EndStored(v) ==
  /\ Serves(v)
  /\ visit[v].id \in DOMAIN stored
  /\ RemoveStored({visit[v].id})
  /\ meant' = [meant EXCEPT ![visit[v].id] = Gone]
  /\ UNCHANGED <<given, visit, unused, undone>>

MutantLeave(v) ==
  /\ visit[v] # Away
  /\ visit' = [visit EXCEPT ![v].at = "away"]
  /\ UNCHANGED <<given, stored, unused, changes, meant, undone>>

\* The request ends, or fails.
Leave(v) ==
  /\ visit[v] # Away
  /\ visit' = [visit EXCEPT ![v] = Away]
  /\ UNCHANGED <<given, stored, unused, changes, meant, undone>>

MutantInactive == {s \in DOMAIN stored : stored[s].age > SessionTimeout}

Inactive == {s \in DOMAIN stored : stored[s].age > SessionTimeout + ReviveAfter}

\* _remove_inactive_sessions: one transaction.
ExpireStored ==
  /\ Inactive # {}
  /\ RemoveStored(Inactive)
  /\ meant' = [s \in Ids |-> IF s \in Inactive THEN Gone ELSE meant[s]]
  /\ UNCHANGED <<given, visit, unused, changes, undone>>

Aged(n) == IF n = Over THEN Over ELSE n + 1

\* Time passes.
Passes ==
  /\ stored' = [s \in DOMAIN stored |-> [stored[s] EXCEPT !.age = Aged(@)]]
  /\ unused' = [s \in Ids |-> Aged(unused[s])]
  /\ UNCHANGED <<given, visit, changes, meant, undone>>

DbSessionsNext ==
  \/ \E v \in Visitors :
       \/ \E s \in Ids : FetchStored(v, s)
       \/ CreateStored(v) \/ ReviveStored(v)
       \/ \E x \in Values, nested \in BOOLEAN : SetValue(v, x, nested)
       \/ \E p \in Persons, nested \in BOOLEAN : SetUser(v, p, nested)
       \/ RemoveValue(v) \/ EndStored(v) \/ Leave(v)
  \/ ExpireStored \/ Passes

DbSessionsSpec == DbSessionsInit /\ [][DbSessionsNext]_dbSessionVars
-----------------------------------------------------------------------------
(* Properties.                                                             *)

\* What was set, removed or ended stays so: only a request that revives its
\* session or changes its user, with a copy fetched earlier, brings values and
\* users back, and sessions that have ended.
ChangesStay == \A s \in 1 .. given : s \notin undone => Now(s) = meant[s]

\* A session that a request was given within the timeout does not expire,
\* although not every use is written: it goes only by a call that ends it.
UsedStoredStay ==
  [][\A s \in DOMAIN stored \ DOMAIN stored' :
       unused[s] > SessionTimeout \/ changes' # changes]_dbSessionVars

\* A session lives as long as it is used, with all that was changed in it.
StoredSessionsLast == []ChangesStay /\ UsedStoredStay
=============================================================================
