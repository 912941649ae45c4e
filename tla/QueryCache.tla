----------------------------- MODULE QueryCache -----------------------------
(***************************************************************************)
(* The cache of prepared queries (core.cache, used by oql.command) under   *)
(* concurrent requests.                                                    *)
(*                                                                         *)
(* A method of the cache holds its lock from its first statement to its    *)
(* last and is one step.  The lock is recursive: a thread that ends a      *)
(* method with an exception keeps it, and can still enter.  Asking whether *)
(* a query is in the cache takes no lock.                                  *)
(***************************************************************************)
EXTENDS Integers, Sequences, FiniteSets

CONSTANTS
  Callers,    \* the threads that execute queries
  Scripts,    \* the queries
  CacheSize   \* size

ASSUME QueryCacheAssumption ==
  /\ IsFiniteSet(Callers) /\ IsFiniteSet(Scripts)
  /\ CacheSize \in Nat \ {0}

Nobody == "nobody"

VARIABLES
  cached,       \* the keys of the dictionary
  accesslist,   \* __accesslist
  holder,       \* the thread that keeps the lock
  calls,        \* each thread: where it is in execute, and with which query
  evicted,      \* the queries that were evicted while their thread was between
                \* the look and the fetch
  usedSince     \* the queries that were used since a query was used

cacheVars == <<cached, accesslist, holder, calls, evicted, usedSince>>

Resting == [at |-> "idle", script |-> "none"]

CacheTypeOK ==
  /\ cached \subseteq Scripts
  /\ accesslist \in Seq(Scripts)
  /\ holder \in Callers \cup {Nobody}
  /\ calls \in [Callers -> {Resting} \cup
                 [at : {"look", "fetch", "parse", "run"}, script : Scripts]]
  /\ evicted \subseteq Callers
  /\ usedSince \in [Scripts -> SUBSET Scripts]

CacheInit ==
  /\ cached = {}
  /\ accesslist = <<>>
  /\ holder = Nobody
  /\ calls = [t \in Callers |-> Resting]
  /\ evicted = {}
  /\ usedSince = [s \in Scripts |-> {}]

-----------------------------------------------------------------------------
\* list.remove: the list has s at most once.
Others(list, s) ==
  IF s \in {list[i] : i \in DOMAIN list}
  THEN LET at == CHOOSE i \in DOMAIN list : list[i] = s
       IN [i \in 1 .. Len(list) - 1 |-> list[IF i < at THEN i ELSE i + 1]]
  ELSE list

MutantMayEnter(t) == holder = Nobody

MayEnter(t) == holder \in {t, Nobody}

GoesTo(t, place) == calls' = [calls EXCEPT ![t].at = place]

Execute(t, s) ==
  /\ calls[t] = Resting
  /\ calls' = [calls EXCEPT ![t] = [at |-> "look", script |-> s]]
  /\ UNCHANGED <<cached, accesslist, holder, evicted, usedSince>>

MutantLookUp(t) ==
  /\ calls[t].at = "look"
  /\ GoesTo(t, IF cached # {} THEN "fetch" ELSE "parse")
  /\ UNCHANGED <<cached, accesslist, holder, evicted, usedSince>>

\* script in _QUERY_CACHE
LookUp(t) ==
  /\ calls[t].at = "look"
  /\ GoesTo(t, IF calls[t].script \in cached THEN "fetch" ELSE "parse")
  /\ UNCHANGED <<cached, accesslist, holder, evicted, usedSince>>

Use(s) ==
  usedSince' = [x \in Scripts |-> IF x = s THEN {} ELSE usedSince[x] \cup {s}]

MutantFetchPrepared(t) ==
  /\ calls[t].at = "fetch" /\ MayEnter(t)
  /\ calls[t].script \in cached
  /\ Use(calls[t].script)
  /\ evicted' = evicted \ {t}
  /\ GoesTo(t, "run")
  /\ UNCHANGED <<cached, accesslist, holder>>

\* __getitem__: the query becomes the last one used.
FetchPrepared(t) ==
  LET s == calls[t].script IN
  /\ calls[t].at = "fetch" /\ MayEnter(t)
  /\ s \in cached
  /\ accesslist' = Append(Others(accesslist, s), s)
  /\ Use(s)
  /\ evicted' = evicted \ {t}
  /\ GoesTo(t, "run")
  /\ UNCHANGED <<cached, holder>>

\* The query is no longer in the cache: KeyError, and the lock is kept.
FetchFails(t) ==
  /\ calls[t].at = "fetch" /\ MayEnter(t)
  /\ calls[t].script \notin cached
  /\ holder' = t
  /\ calls' = [calls EXCEPT ![t] = Resting]
  /\ evicted' = evicted \ {t}
  /\ UNCHANGED <<cached, accesslist, usedSince>>

\* The threads that are about to fetch s, which is evicted.
Waiting(s) == {t \in Callers : calls[t] = [at |-> "fetch", script |-> s]}

MutantStore(t) ==
  LET s == calls[t].script IN
  /\ calls[t].at = "parse" /\ MayEnter(t)
  /\ IF Cardinality(cached) >= CacheSize
     THEN /\ cached' = (cached \ {accesslist[1]}) \cup {s}
          /\ accesslist' = Append(Tail(accesslist), s)
          /\ evicted' = evicted \cup Waiting(accesslist[1])
     ELSE /\ cached' = cached \cup {s}
          /\ accesslist' = Append(accesslist, s)
          /\ UNCHANGED evicted
  /\ Use(s)
  /\ GoesTo(t, "run")
  /\ UNCHANGED holder

\* __setitem__, after the query was parsed: it may be in the cache by now.  The
\* query that was not used for the longest time makes room.
Store(t) ==
  LET s == calls[t].script IN
  /\ calls[t].at = "parse" /\ MayEnter(t)
  /\ IF s \notin cached /\ Cardinality(cached) >= CacheSize
     THEN /\ cached' = (cached \ {accesslist[1]}) \cup {s}
          /\ accesslist' = Append(Tail(accesslist), s)
          /\ evicted' = evicted \cup Waiting(accesslist[1])
     ELSE /\ cached' = cached \cup {s}
          /\ accesslist' = Append(Others(accesslist, s), s)
          /\ UNCHANGED evicted
  /\ Use(s)
  /\ GoesTo(t, "run")
  /\ UNCHANGED holder

\* The query does not parse.
ParseFails(t) ==
  /\ calls[t].at = "parse"
  /\ calls' = [calls EXCEPT ![t] = Resting]
  /\ UNCHANGED <<cached, accesslist, holder, evicted, usedSince>>

MutantReturnResult(t) ==
  /\ calls[t].at = "run"
  /\ GoesTo(t, "idle")
  /\ UNCHANGED <<cached, accesslist, holder, evicted, usedSince>>

ReturnResult(t) ==
  /\ calls[t].at = "run"
  /\ calls' = [calls EXCEPT ![t] = Resting]
  /\ UNCHANGED <<cached, accesslist, holder, evicted, usedSince>>

Proceeds(t) ==
  \/ LookUp(t) \/ FetchPrepared(t) \/ FetchFails(t)
  \/ Store(t) \/ ParseFails(t) \/ ReturnResult(t)

CacheNext ==
  \E t \in Callers : Proceeds(t) \/ \E s \in Scripts : Execute(t, s)

CacheFairness == \A t \in Callers : WF_cacheVars(Proceeds(t))

CacheSpec == CacheInit /\ [][CacheNext]_cacheVars /\ CacheFairness
-----------------------------------------------------------------------------
(* Properties.                                                             *)

\* The list of accesses has each cached query once and nothing else, and the
\* cache does not grow beyond its size: there is always a query to evict.
CacheIsConsistent ==
  /\ {accesslist[i] : i \in DOMAIN accesslist} = cached
  /\ Len(accesslist) = Cardinality(cached)
  /\ Cardinality(cached) <= CacheSize

\* A thread keeps the lock only when another one has evicted its query between
\* its look and its fetch.
LockLostToEviction ==
  [][\A t \in Callers : holder # t /\ holder' = t => t \in evicted]_cacheVars

\* A query is evicted only when every other one in the cache was stored or
\* fetched since it was.
LeastRecentlyUsedGoes ==
  [][\A s \in cached \ cached' : cached \ {s} \subseteq usedSince[s]]_cacheVars

\* A query comes to its end as long as no thread keeps the lock.
ExecutionsEnd ==
  \A t \in Callers :
    []<>(calls[t] = Resting \/ holder \notin {t, Nobody})

\* What the cache promises to the threads that execute queries: it forgets the
\* query that was not used for the longest time, and only a thread that meets
\* the eviction of its own query fails and keeps the lock.
CacheKeepsOrder ==
  []CacheIsConsistent /\ LockLostToEviction /\ LeastRecentlyUsedGoes
=============================================================================
