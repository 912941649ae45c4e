----------------------------- MODULE QueryProofs -----------------------------
(***************************************************************************)
(* Proofs about what queries share: the cache of query scripts, for any    *)
(* number of threads, any scripts and any size of the cache; and the tables *)
(* of the parser in their files, for any number of processes, versions and *)
(* crashes.                                                                *)
(*                                                                         *)
(* IInv: the list of the cached scripts is in the order of their last use, *)
(* and a caller that was told its script is cached finds it or it was      *)
(* evicted.                                                                *)
(* TInv: a process that builds or uses the tables of the parser has those of *)
(* its own version, and until a process crashes whatever is missing from a *)
(* file is still to be written.                                            *)
(***************************************************************************)
EXTENDS QueryCache, GeneratedTables, FiniteSetTheorems,
        SequenceTheorems, TLAPS

-----------------------------------------------------------------------------
(* The cache of query scripts. *)

Elements(list) == {list[i] : i \in DOMAIN list}
Once(list) == \A i, j \in DOMAIN list : list[i] = list[j] => i = j

\* What is behind a query in the list was used after it.
InOrder(list, since) ==
  \A i, j \in DOMAIN list : i < j => list[j] \in since[list[i]]

\* A thread that was told that its query is cached finds it, or it was evicted.
Awaited ==
  \A t \in Callers :
    calls[t].at = "fetch" /\ calls[t].script \notin cached => t \in evicted

IInv ==
  /\ CacheTypeOK
  /\ CacheIsConsistent
  /\ Once(accesslist)
  /\ InOrder(accesslist, usedSince)
  /\ Awaited

-----------------------------------------------------------------------------
(* Lists.                                                                  *)

\* Removing an element of a list without repetitions leaves the others, in
\* their order.
LEMMA OthersAreTheRest ==
  ASSUME NEW S, NEW list \in Seq(S), NEW s, Once(list)
  PROVE  /\ Others(list, s) \in Seq(S)
         /\ Once(Others(list, s))
         /\ Elements(Others(list, s)) = Elements(list) \ {s}
         /\ Len(Others(list, s)) =
              IF s \in Elements(list) THEN Len(list) - 1 ELSE Len(list)
         /\ \A i, j \in DOMAIN Others(list, s) : i < j =>
              \E k, l \in DOMAIN list :
                k < l /\ list[k] = Others(list, s)[i]
                      /\ list[l] = Others(list, s)[j]
<1>1. CASE s \notin Elements(list)
  <2>1. Others(list, s) = list
    BY <1>1 DEF Others, Elements
  <2> QED BY <2>1, <1>1 DEF Elements
<1>2. CASE s \in Elements(list)
  <2> DEFINE at == CHOOSE i \in DOMAIN list : list[i] = s
             rest == Others(list, s)
             from(i) == IF i < at THEN i ELSE i + 1
  <2>1. at \in DOMAIN list /\ list[at] = s
    BY <1>2 DEF Elements
  <2>2. rest = [i \in 1 .. Len(list) - 1 |-> list[from(i)]]
    BY <1>2 DEF Others, Elements
  <2>3. Len(list) \in Nat /\ DOMAIN list = 1 .. Len(list) /\ at \in 1 .. Len(list)
    BY <2>1
  <2> HIDE DEF at
  <2>4. \A i \in 1 .. Len(list) - 1 :
          /\ from(i) \in DOMAIN list \ {at}
          /\ list[from(i)] \in S
    BY <2>3
  <2>5. rest \in Seq(S) /\ Len(rest) = Len(list) - 1
        /\ DOMAIN rest = 1 .. Len(list) - 1
    <3>1. rest \in [1 .. Len(list) - 1 -> S]
      BY <2>2, <2>4
    <3>2. Len(list) - 1 \in Nat
      BY <2>3
    <3> QED BY <3>1, <3>2
  <2>6. \A i, j \in 1 .. Len(list) - 1 : i < j => from(i) < from(j)
    BY <2>3
  <2>7. Once(rest)
    <3> SUFFICES ASSUME NEW i \in DOMAIN rest, NEW j \in DOMAIN rest,
                        rest[i] = rest[j]
                 PROVE  i = j
      BY DEF Once
    <3>1. list[from(i)] = list[from(j)]
      BY <2>2, <2>5
    <3>2. from(i) = from(j)
      BY <3>1, <2>4, <2>5 DEF Once
    <3> QED BY <3>2, <2>5, <2>6, <2>3
  <2>8. Elements(rest) = Elements(list) \ {s}
    <3>1. ASSUME NEW i \in DOMAIN rest
          PROVE  rest[i] \in Elements(list) \ {s}
      BY <2>1, <2>2, <2>4, <2>5 DEF Elements, Once
    <3>2. ASSUME NEW k \in DOMAIN list, list[k] # s
          PROVE  \E i \in DOMAIN rest : rest[i] = list[k]
      <4> DEFINE i == IF k < at THEN k ELSE k - 1
      <4>1. k # at
        BY <3>2, <2>1
      <4>2. i \in 1 .. Len(list) - 1 /\ from(i) = k
        BY <4>1, <2>3
      <4>3. rest[i] = list[k]
        BY <4>2, <2>2
      <4> HIDE DEF i
      <4> QED BY <4>2, <4>3, <2>5
    <3> QED BY <3>1, <3>2 DEF Elements
  <2>9. ASSUME NEW i \in DOMAIN rest, NEW j \in DOMAIN rest, i < j
        PROVE  \E k, l \in DOMAIN list :
                 k < l /\ list[k] = rest[i] /\ list[l] = rest[j]
    BY <2>9, <2>2, <2>4, <2>5, <2>6
  <2> QED BY <1>2, <2>5, <2>7, <2>8, <2>9
<1> QED BY <1>1, <1>2

\* An element that the list does not have may be put at its end.
LEMMA AppendOnce ==
  ASSUME NEW S, NEW list \in Seq(S), NEW s \in S, Once(list),
         s \notin Elements(list)
  PROVE  /\ Append(list, s) \in Seq(S)
         /\ Once(Append(list, s))
         /\ Elements(Append(list, s)) = Elements(list) \cup {s}
         /\ Len(Append(list, s)) = Len(list) + 1
<1>1. /\ Append(list, s) \in Seq(S) /\ Len(Append(list, s)) = Len(list) + 1
      /\ DOMAIN Append(list, s) = 1 .. Len(list) + 1
      /\ DOMAIN list = 1 .. Len(list) /\ Len(list) \in Nat
      /\ \A i \in 1 .. Len(list) : Append(list, s)[i] = list[i]
      /\ Append(list, s)[Len(list) + 1] = s
  OBVIOUS
<1>2. Once(Append(list, s))
  BY <1>1 DEF Once, Elements
<1>3. Elements(Append(list, s)) = Elements(list) \cup {s}
  BY <1>1 DEF Elements
<1> QED BY <1>1, <1>2, <1>3

\* The tail of a list without repetitions is without its head.
LEMMA TailIsTheRest ==
  ASSUME NEW S, NEW list \in Seq(S), list # <<>>, Once(list)
  PROVE  /\ Tail(list) \in Seq(S)
         /\ Once(Tail(list))
         /\ Elements(Tail(list)) = Elements(list) \ {list[1]}
         /\ Len(Tail(list)) = Len(list) - 1
         /\ \A since : InOrder(list, since) => InOrder(Tail(list), since)
<1>1. /\ Tail(list) \in Seq(S) /\ Len(Tail(list)) = Len(list) - 1
      /\ Len(list) \in Nat \ {0}
      /\ DOMAIN Tail(list) = 1 .. Len(list) - 1
      /\ DOMAIN list = 1 .. Len(list)
      /\ \A i \in 1 .. Len(list) - 1 : Tail(list)[i] = list[i + 1]
  OBVIOUS
<1>2. Once(Tail(list))
  BY <1>1 DEF Once
<1>3. Elements(Tail(list)) = Elements(list) \ {list[1]}
  <2>1. ASSUME NEW i \in DOMAIN Tail(list)
        PROVE  Tail(list)[i] \in Elements(list) \ {list[1]}
    BY <1>1 DEF Elements, Once
  <2>2. ASSUME NEW k \in DOMAIN list, list[k] # list[1]
        PROVE  k - 1 \in DOMAIN Tail(list) /\ Tail(list)[k - 1] = list[k]
    BY <2>2, <1>1
  <2> QED BY <2>1, <2>2 DEF Elements
<1>4. \A since : InOrder(list, since) => InOrder(Tail(list), since)
  BY <1>1 DEF InOrder
<1> QED BY <1>1, <1>2, <1>3, <1>4

\* A query that is used and put at the end of the list is behind the others in
\* the order of use as well.
LEMMA LastUsedIsLast ==
  ASSUME NEW list \in Seq(Scripts), NEW s \in Scripts, s \notin Elements(list),
         usedSince \in [Scripts -> SUBSET Scripts],
         InOrder(list, usedSince), Use(s)
  PROVE  /\ usedSince' \in [Scripts -> SUBSET Scripts]
         /\ InOrder(Append(list, s), usedSince')
<1>1. /\ usedSince' \in [Scripts -> SUBSET Scripts]
      /\ \A x \in Scripts \ {s} : usedSince'[x] = usedSince[x] \cup {s}
  BY DEF Use
<1>2. /\ DOMAIN Append(list, s) = 1 .. Len(list) + 1
      /\ DOMAIN list = 1 .. Len(list) /\ Len(list) \in Nat
      /\ \A i \in 1 .. Len(list) :
           Append(list, s)[i] = list[i] /\ list[i] \in Scripts \ {s}
      /\ Append(list, s)[Len(list) + 1] = s
  BY DEF Elements
<1>3. ASSUME NEW i \in 1 .. Len(list) + 1, NEW j \in 1 .. Len(list) + 1, i < j
      PROVE  Append(list, s)[j] \in usedSince'[Append(list, s)[i]]
  <2>1. i \in 1 .. Len(list) /\ Append(list, s)[i] = list[i]
    BY <1>2, <1>3
  <2>2. CASE j = Len(list) + 1
    BY <2>1, <2>2, <1>1, <1>2
  <2>3. CASE j \in 1 .. Len(list)
    <3>1. list[j] \in usedSince[list[i]]
      BY <1>2, <1>3, <2>1, <2>3 DEF InOrder
    <3> QED BY <3>1, <2>1, <2>3, <1>1, <1>2
  <2> QED BY <1>2, <2>2, <2>3
<1> QED BY <1>1, <1>2, <1>3 DEF InOrder

\* What a fetch and a store without eviction do to the list: the query is moved,
\* or put, to its end.
LEMMA MovedToTheEnd ==
  ASSUME IInv, NEW s \in Scripts, Use(s),
         accesslist' = Append(Others(accesslist, s), s)
  PROVE  /\ accesslist' \in Seq(Scripts)
         /\ Elements(accesslist') = cached \cup {s}
         /\ Len(accesslist') =
              IF s \in cached THEN Len(accesslist) ELSE Len(accesslist) + 1
         /\ Once(accesslist')
         /\ usedSince' \in [Scripts -> SUBSET Scripts]
         /\ InOrder(accesslist', usedSince')
<1> DEFINE rest == Others(accesslist, s)
<1>1. /\ accesslist \in Seq(Scripts) /\ Once(accesslist)
      /\ Elements(accesslist) = cached
      /\ usedSince \in [Scripts -> SUBSET Scripts]
      /\ InOrder(accesslist, usedSince)
  BY DEF IInv, CacheTypeOK, CacheIsConsistent, Elements
<1>2. /\ rest \in Seq(Scripts) /\ Once(rest)
      /\ Elements(rest) = cached \ {s}
      /\ Len(rest) = IF s \in cached THEN Len(accesslist) - 1 ELSE Len(accesslist)
      /\ \A i, j \in DOMAIN rest : i < j =>
           \E k, l \in DOMAIN accesslist :
             k < l /\ accesslist[k] = rest[i] /\ accesslist[l] = rest[j]
  BY <1>1, OthersAreTheRest
<1>3. InOrder(rest, usedSince)
  BY <1>1, <1>2 DEF InOrder
<1> HIDE DEF rest
<1>4. s \notin Elements(rest)
  BY <1>2
<1>5. /\ accesslist' = Append(rest, s)
      /\ Len(accesslist) \in Nat
  BY <1>1 DEF rest
<1>6. /\ accesslist' \in Seq(Scripts) /\ Once(accesslist')
      /\ Elements(accesslist') = (cached \ {s}) \cup {s}
      /\ Len(accesslist') = Len(rest) + 1
  BY <1>2, <1>4, <1>5, AppendOnce
<1>7. /\ usedSince' \in [Scripts -> SUBSET Scripts]
      /\ InOrder(accesslist', usedSince')
  BY <1>1, <1>2, <1>3, <1>4, <1>5, LastUsedIsLast
<1> QED BY <1>2, <1>5, <1>6, <1>7

\* What a store with eviction does: the head goes, the query comes to the end.
LEMMA HeadMakesRoom ==
  ASSUME IInv, NEW s \in Scripts \ cached, Use(s), cached # {},
         accesslist' = Append(Tail(accesslist), s)
  PROVE  /\ accesslist[1] \in cached
         /\ accesslist' \in Seq(Scripts)
         /\ Elements(accesslist') = (cached \ {accesslist[1]}) \cup {s}
         /\ Len(accesslist') = Len(accesslist)
         /\ Once(accesslist')
         /\ usedSince' \in [Scripts -> SUBSET Scripts]
         /\ InOrder(accesslist', usedSince')
<1> DEFINE rest == Tail(accesslist)
<1>1. /\ accesslist \in Seq(Scripts) /\ Once(accesslist)
      /\ Elements(accesslist) = cached
      /\ usedSince \in [Scripts -> SUBSET Scripts]
      /\ InOrder(accesslist, usedSince)
  BY DEF IInv, CacheTypeOK, CacheIsConsistent, Elements
<1>2. accesslist # <<>> /\ Len(accesslist) \in Nat /\ accesslist[1] \in cached
  BY <1>1 DEF Elements
<1>3. /\ rest \in Seq(Scripts) /\ Once(rest)
      /\ Elements(rest) = cached \ {accesslist[1]}
      /\ Len(rest) = Len(accesslist) - 1
      /\ InOrder(rest, usedSince)
  BY <1>1, <1>2, TailIsTheRest
<1> HIDE DEF rest
<1>4. s \in Scripts /\ s \notin Elements(rest)
  BY <1>3
<1>5. /\ Append(rest, s) \in Seq(Scripts) /\ Once(Append(rest, s))
      /\ Elements(Append(rest, s)) = Elements(rest) \cup {s}
      /\ Len(Append(rest, s)) = Len(rest) + 1
  BY <1>3, <1>4, AppendOnce
<1>6. /\ usedSince' \in [Scripts -> SUBSET Scripts]
      /\ InOrder(Append(rest, s), usedSince')
  BY <1>1, <1>3, <1>4, LastUsedIsLast
<1>7. accesslist' = Append(rest, s)
  BY DEF rest
<1>8. Len(Append(rest, s)) = Len(accesslist)
  BY <1>2, <1>3, <1>5
<1>9. Elements(Append(rest, s)) = (cached \ {accesslist[1]}) \cup {s}
  BY <1>3, <1>5
<1> QED BY <1>2, <1>5, <1>6, <1>7, <1>8, <1>9, Zenon

-----------------------------------------------------------------------------
(* The invariant.                                                          *)

LEMMA InitEstablishes == CacheInit => IInv
<1> SUFFICES ASSUME CacheInit PROVE IInv
  OBVIOUS
<1>1. CacheTypeOK
  BY DEF CacheInit, CacheTypeOK
<1>2. CacheIsConsistent
  BY FS_EmptySet, QueryCacheAssumption DEF CacheInit, CacheIsConsistent
<1>3. Once(accesslist) /\ InOrder(accesslist, usedSince)
  BY DEF CacheInit, Once, InOrder
<1>4. Awaited
  BY DEF CacheInit, Awaited, Resting
<1> QED BY <1>1, <1>2, <1>3, <1>4 DEF IInv

\* Each thread does its step, and what the others wait for does not change.
LEMMA OnlyCallsChange ==
  ASSUME IInv, NEW t \in Callers,
         calls' \in [Callers -> {Resting} \cup
           [at : {"look", "fetch", "parse", "run"}, script : Scripts]],
         \A u \in Callers \ {t} : calls'[u] = calls[u],
         calls'[t].at = "fetch" => calls'[t].script \in cached,
         holder' \in Callers \cup {Nobody},
         evicted' \in SUBSET Callers, evicted \ {t} \subseteq evicted',
         UNCHANGED <<cached, accesslist, usedSince>>
  PROVE  IInv'
<1>1. CacheTypeOK'
  BY DEF IInv, CacheTypeOK
<1>2. CacheIsConsistent'
  BY DEF IInv, CacheIsConsistent
<1>3. (Once(accesslist) /\ InOrder(accesslist, usedSince))'
  BY DEF IInv, Once, InOrder
<1>4. Awaited'
  BY DEF IInv, Awaited
<1> QED BY <1>1, <1>2, <1>3, <1>4 DEF IInv

LEMMA FetchKeeps ==
  ASSUME IInv, NEW t \in Callers, FetchPrepared(t)
  PROVE  IInv'
<1> DEFINE s == calls[t].script
<1>1. /\ s \in Scripts /\ s \in cached /\ Use(s)
      /\ accesslist' = Append(Others(accesslist, s), s)
  BY DEF IInv, CacheTypeOK, FetchPrepared
<1>2. CacheTypeOK'
  <2>1. accesslist' \in Seq(Scripts) /\ usedSince' \in [Scripts -> SUBSET Scripts]
    BY <1>1, MovedToTheEnd
  <2>2. calls' \in [Callers -> {Resting} \cup
                     [at : {"look", "fetch", "parse", "run"}, script : Scripts]]
    BY DEF IInv, CacheTypeOK, FetchPrepared, GoesTo, Resting
  <2> QED BY <2>1, <2>2 DEF IInv, CacheTypeOK, FetchPrepared
<1>3. CacheIsConsistent'
  <2>1. Elements(accesslist') = cached /\ Len(accesslist') = Len(accesslist)
        /\ cached' = cached
    BY <1>1, MovedToTheEnd DEF FetchPrepared
  <2> QED BY <2>1 DEF IInv, CacheIsConsistent, Elements
<1>4. Once(accesslist)' /\ InOrder(accesslist, usedSince)'
  BY <1>1, MovedToTheEnd DEF Once, InOrder
<1>5. Awaited'
  <2>1. /\ calls'[t].at = "run"
        /\ \A u \in Callers \ {t} : calls'[u] = calls[u]
    BY DEF IInv, CacheTypeOK, FetchPrepared, GoesTo, Resting
  <2> QED BY <2>1 DEF IInv, Awaited, FetchPrepared
<1> QED BY <1>2, <1>3, <1>4, <1>5 DEF IInv

LEMMA StoreKeeps ==
  ASSUME IInv, NEW t \in Callers, Store(t)
  PROVE  IInv'
<1> DEFINE s == calls[t].script
           oldest == accesslist[1]
           full == s \notin cached /\ Cardinality(cached) >= CacheSize
<1>1. /\ s \in Scripts /\ Use(s) /\ IsFiniteSet(cached)
      /\ CacheSize \in Nat \ {0} /\ Cardinality(cached) \in Nat
  <2>1. s \in Scripts /\ Use(s)
    BY DEF IInv, CacheTypeOK, Store, Resting
  <2>2. IsFiniteSet(cached)
    BY QueryCacheAssumption, FS_Subset DEF IInv, CacheTypeOK
  <2> QED BY <2>1, <2>2, QueryCacheAssumption, FS_CardinalityType
<1>2. /\ calls' \in [Callers -> {Resting} \cup
                     [at : {"look", "fetch", "parse", "run"}, script : Scripts]]
      /\ calls'[t].at = "run"
      /\ \A u \in Callers \ {t} : calls'[u] = calls[u]
      /\ holder' = holder
  BY DEF IInv, CacheTypeOK, Store, GoesTo, Resting
<1>3. CASE full
  <2>1. /\ cached' = (cached \ {oldest}) \cup {s}
        /\ accesslist' = Append(Tail(accesslist), s)
        /\ evicted' = evicted \cup Waiting(oldest)
    BY <1>3 DEF Store
  <2>2. cached # {}
    BY <1>1, <1>3, FS_EmptySet
  <2>3. /\ oldest \in cached
        /\ accesslist' \in Seq(Scripts)
        /\ Elements(accesslist') = cached'
        /\ Len(accesslist') = Len(accesslist)
        /\ Once(accesslist')
        /\ usedSince' \in [Scripts -> SUBSET Scripts]
        /\ InOrder(accesslist', usedSince')
    BY <1>1, <1>3, <2>1, <2>2, HeadMakesRoom
  <2>4. Cardinality(cached') = Cardinality(cached)
    <3>1. /\ IsFiniteSet(cached \ {oldest})
          /\ Cardinality(cached \ {oldest}) = Cardinality(cached) - 1
      BY <1>1, <2>3, FS_RemoveElement
    <3>2. s \notin cached \ {oldest}
      BY <1>3
    <3>3. Cardinality(cached') = Cardinality(cached \ {oldest}) + 1
      BY <2>1, <3>1, <3>2, FS_AddElement
    <3> QED BY <3>1, <3>3, <1>1
  <2>5. CacheTypeOK'
    <3>1. cached' \subseteq Scripts /\ evicted' \subseteq Callers
      BY <1>1, <2>1 DEF IInv, CacheTypeOK, Waiting
    <3> QED BY <1>2, <2>3, <3>1 DEF IInv, CacheTypeOK
  <2>6. CacheIsConsistent'
    BY <2>3, <2>4 DEF IInv, CacheIsConsistent, Elements
  <2>7. Awaited'
    <3> SUFFICES ASSUME NEW u \in Callers, calls'[u].at = "fetch",
                        calls'[u].script \notin cached'
                 PROVE  u \in evicted'
      BY DEF Awaited
    <3>1. u # t /\ calls'[u] = calls[u]
      BY <1>2
    <3>2. CASE calls[u].script \notin cached
      BY <3>1, <3>2, <2>1 DEF IInv, Awaited
    <3>3. CASE calls[u].script \in cached
      <4>1. calls[u].script = oldest
        BY <3>1, <3>3, <2>1
      <4>2. calls[u] \in
              [at : {"look", "fetch", "parse", "run"}, script : Scripts]
        BY <3>1 DEF IInv, CacheTypeOK, Resting
      <4>3. calls[u] = [at |-> "fetch", script |-> oldest]
        BY <3>1, <4>1, <4>2
      <4> QED BY <4>3, <2>1 DEF Waiting
    <3> QED BY <3>2, <3>3
  <2>8. Once(accesslist)' /\ InOrder(accesslist, usedSince)'
    BY <2>3 DEF Once, InOrder
  <2> QED BY <2>5, <2>6, <2>7, <2>8 DEF IInv
<1>4. CASE ~full
  <2>1. /\ cached' = cached \cup {s}
        /\ accesslist' = Append(Others(accesslist, s), s)
        /\ evicted' = evicted
    BY <1>4 DEF Store
  <2>2. /\ accesslist' \in Seq(Scripts)
        /\ Elements(accesslist') = cached'
        /\ Len(accesslist') =
             IF s \in cached THEN Len(accesslist) ELSE Len(accesslist) + 1
        /\ Once(accesslist')
        /\ usedSince' \in [Scripts -> SUBSET Scripts]
        /\ InOrder(accesslist', usedSince')
    BY <1>1, <2>1, MovedToTheEnd
  <2>3. Cardinality(cached') =
          IF s \in cached THEN Cardinality(cached) ELSE Cardinality(cached) + 1
    BY <1>1, <2>1, FS_AddElement
  <2>4. CacheTypeOK'
    <3>1. cached' \subseteq Scripts
      BY <1>1, <2>1 DEF IInv, CacheTypeOK
    <3> QED BY <1>2, <2>1, <2>2, <3>1 DEF IInv, CacheTypeOK
  <2>5. CacheIsConsistent'
    <3>1. Cardinality(cached') <= CacheSize
      BY <1>1, <1>4, <2>3 DEF IInv, CacheIsConsistent
    <3>2. Len(accesslist') = Cardinality(cached')
      BY <2>2, <2>3 DEF IInv, CacheIsConsistent
    <3> QED BY <2>2, <3>1, <3>2 DEF CacheIsConsistent, Elements
  <2>6. Awaited'
    BY <1>2, <2>1 DEF IInv, Awaited
  <2>7. Once(accesslist)' /\ InOrder(accesslist, usedSince)'
    BY <2>2 DEF Once, InOrder
  <2> QED BY <2>4, <2>5, <2>6, <2>7 DEF IInv
<1> QED BY <1>3, <1>4

LEMMA NextKeeps == IInv /\ [CacheNext]_cacheVars => IInv'
<1> SUFFICES ASSUME IInv, [CacheNext]_cacheVars PROVE IInv'
  OBVIOUS
<1>1. ASSUME NEW t \in Callers, NEW s \in Scripts, Execute(t, s)
      PROVE  IInv'
  BY <1>1, OnlyCallsChange DEF Execute, IInv, CacheTypeOK
<1>2. ASSUME NEW t \in Callers, LookUp(t)
      PROVE  IInv'
  BY <1>2, OnlyCallsChange DEF LookUp, GoesTo, IInv, CacheTypeOK, Resting
<1>3. ASSUME NEW t \in Callers, FetchPrepared(t)
      PROVE  IInv'
  BY <1>3, FetchKeeps
<1>4. ASSUME NEW t \in Callers, FetchFails(t)
      PROVE  IInv'
  BY <1>4, OnlyCallsChange DEF FetchFails, IInv, CacheTypeOK, Resting
<1>5. ASSUME NEW t \in Callers, Store(t)
      PROVE  IInv'
  BY <1>5, StoreKeeps
<1>6. ASSUME NEW t \in Callers, ParseFails(t)
      PROVE  IInv'
  BY <1>6, OnlyCallsChange DEF ParseFails, IInv, CacheTypeOK, Resting
<1>7. ASSUME NEW t \in Callers, ReturnResult(t)
      PROVE  IInv'
  BY <1>7, OnlyCallsChange DEF ReturnResult, IInv, CacheTypeOK, Resting
<1>8. CASE UNCHANGED cacheVars
  <2>1. CacheTypeOK' /\ CacheIsConsistent'
    BY <1>8 DEF IInv, CacheTypeOK, CacheIsConsistent, cacheVars
  <2>2. Once(accesslist)' /\ InOrder(accesslist, usedSince)' /\ Awaited'
    BY <1>8 DEF IInv, Once, InOrder, Awaited, cacheVars
  <2> QED BY <2>1, <2>2 DEF IInv
<1> QED BY <1>1, <1>2, <1>3, <1>4, <1>5, <1>6, <1>7, <1>8
        DEF CacheNext, Proceeds

-----------------------------------------------------------------------------
(* Theorems.                                                               *)

\* In every reachable state each cached query is in the list of accesses once,
\* in the order of use, and a thread that does not find the query it was told
\* is cached has met its eviction.
THEOREM CacheInvariance == CacheSpec => []IInv
BY InitEstablishes, NextKeeps, PTL DEF CacheSpec

\* The variables of the cache keep their types.
THEOREM CacheTypeCorrect == CacheSpec => []CacheTypeOK
<1>1. IInv => CacheTypeOK
  BY DEF IInv
<1> QED BY <1>1, CacheInvariance, PTL

\* The cache stays within its size and consistent with its list, forgets the
\* query that was not used for the longest time, and loses its lock only to a
\* thread whose query was evicted between its look and its fetch.
THEOREM CacheOrderIsKept == CacheSpec => CacheKeepsOrder
<1>1. IInv => CacheIsConsistent
  BY DEF IInv
<1>2. IInv /\ [CacheNext]_cacheVars
      => [\A t \in Callers : holder # t /\ holder' = t => t \in evicted]_cacheVars
  <2> SUFFICES ASSUME IInv, CacheNext, NEW t \in Callers, holder # t, holder' = t
               PROVE  t \in evicted
    OBVIOUS
  <2>1. PICK u \in Callers : Proceeds(u) \/ \E s \in Scripts : Execute(u, s)
    BY DEF CacheNext
  <2>2. FetchFails(u)
    BY <2>1 DEF Proceeds, Execute, LookUp, FetchPrepared, Store, ParseFails,
                ReturnResult
  <2> QED BY <2>2 DEF FetchFails, IInv, Awaited
<1>3. IInv /\ [CacheNext]_cacheVars
      => [\A s \in cached \ cached' :
             cached \ {s} \subseteq usedSince[s]]_cacheVars
  <2> SUFFICES ASSUME IInv, CacheNext, NEW s \in cached, s \notin cached',
                      NEW x \in cached \ {s}
               PROVE  x \in usedSince[s]
    OBVIOUS
  <2>1. PICK u \in Callers : Proceeds(u) \/ \E q \in Scripts : Execute(u, q)
    BY DEF CacheNext
  <2>2. Store(u)
    BY <2>1 DEF Proceeds, Execute, LookUp, FetchPrepared, FetchFails,
       ParseFails,
                ReturnResult
  <2>3. s = accesslist[1]
    BY <2>2 DEF Store
  <2>4. /\ accesslist \in Seq(Scripts)
        /\ cached = {accesslist[i] : i \in DOMAIN accesslist}
    BY DEF IInv, CacheTypeOK, CacheIsConsistent
  <2>5. PICK j \in DOMAIN accesslist : accesslist[j] = x
    BY <2>4
  <2>6. 1 \in DOMAIN accesslist /\ 1 < j
    BY <2>3, <2>4, <2>5
  <2> QED BY <2>3, <2>5, <2>6 DEF IInv, InOrder
<1> QED BY <1>1, <1>2, <1>3, CacheInvariance, PTL
        DEF CacheKeepsOrder, CacheSpec, LockLostToEviction, LeastRecentlyUsedGoes

-----------------------------------------------------------------------------
(* The generated tables. *)

Contents(f) == [1..Blocks(f) -> 0..MaxVersion]
ChangesOf(f)    == {Opening[f], Writing[f]}

TablesTyped ==
  /\ DOMAIN file = Files
  /\ \A f \in Files : file[f] = Missing \/ file[f] \in Contents(f)
  /\ installed \in 1..MaxVersion
  /\ running \in [Processes -> 0..MaxVersion]
  /\ doing \in [Processes -> {"down", "idle", "yacc", "parse"} \cup
                  ChangesOf("lextab") \cup ChangesOf("parsetab")]
  /\ block \in [Processes -> Nat]
  /\ DOMAIN using = Processes
  /\ \A p \in Processes : DOMAIN using[p] = Files
  /\ crashes \in Nat

\* A process that runs has a version, and a place in the file that it writes.
ProcessRuns(p) ==
  /\ doing[p] = "down" \/ running[p] # 0
  /\ \A f \in Files : doing[p] = Writing[f] =>
       file[f] \in Contents(f) /\ block[p] \in 1..Blocks(f)

\* The tables of the parser are those of the process from when it has them.
UsesItsGrammar(p) ==
  doing[p] \in {"parse"} \cup ChangesOf("parsetab") =>
    using[p]["parsetab"] = running[p]

\* Whatever is missing from a file, somebody will write.
WillBeWhole(f) ==
  crashes = 0 /\ file[f] # Missing =>
    \A b \in 1..Blocks(f) : file[f][b] = 0 =>
      \E p \in Processes : doing[p] = Writing[f] /\ block[p] <= b

TInv ==
  /\ TablesTyped
  /\ \A p \in Processes : ProcessRuns(p) /\ UsesItsGrammar(p)
  /\ \A f \in Files : WillBeWhole(f)
-----------------------------------------------------------------------------

LEMMA FileSteps ==
  ASSUME NEW f \in Files, NEW g \in Files
  PROVE  /\ Opening[f] \notin {"down", "idle", "yacc", "parse"}
         /\ Writing[f] \notin {"down", "idle", "yacc", "parse"}
         /\ Opening[f] # Writing[g]
         /\ Opening[f] = Opening[g] => f = g
         /\ Writing[f] = Writing[g] => f = g
         /\ Opening[f] \in ChangesOf("lextab") \cup ChangesOf("parsetab")
         /\ Writing[f] \in ChangesOf("lextab") \cup ChangesOf("parsetab")
         /\ After(f) \in {"yacc", "parse"}
         /\ After(f) = "parse" <=> f = "parsetab"
         /\ Blocks(f) \in {1, 2}
<1>1. /\ Opening["lextab"] = "open lextab" /\ Opening["parsetab"] = "open parsetab"
      /\ Writing["lextab"] = "write lextab" /\ Writing["parsetab"] = "write parsetab"
  BY DEF Opening, Writing
<1> QED BY <1>1 DEF Files, ChangesOf, After, Blocks

LEMMA TInvInit == TablesInit => TInv
<1> SUFFICES ASSUME TablesInit PROVE TInv
  OBVIOUS
<1>1. TablesTyped
  BY GeneratedTablesAssumption DEF TablesInit, TablesTyped
<1>2. \A p \in Processes : doing[p] = "down"
  BY DEF TablesInit
<1>3. \A p \in Processes : ProcessRuns(p) /\ UsesItsGrammar(p)
  BY <1>2, FileSteps DEF ProcessRuns, UsesItsGrammar, ChangesOf, Files
<1>4. \A f \in Files : WillBeWhole(f)
  BY DEF TablesInit, WillBeWhole
<1> QED BY <1>1, <1>3, <1>4 DEF TInv

\* A step of one process that does not write to the files.
LEMMA OneProcess ==
  ASSUME TInv, TablesTyped', NEW p \in Processes, file' = file,
         \A q \in Processes \ {p} :
           /\ running'[q] = running[q] /\ doing'[q] = doing[q]
           /\ block'[q] = block[q] /\ using'[q] = using[q],
         crashes' = 0 =>
           crashes = 0 /\ \A f \in Files : doing[p] # Writing[f],
         ProcessRuns(p)', UsesItsGrammar(p)'
  PROVE  TInv'
<1>1. ASSUME NEW q \in Processes
      PROVE  ProcessRuns(q)' /\ UsesItsGrammar(q)'
  BY DEF TInv, ProcessRuns, UsesItsGrammar
<1>2. ASSUME NEW f \in Files
      PROVE  WillBeWhole(f)'
  <2>1. ASSUME crashes' = 0, file[f] # Missing, NEW b \in 1..Blocks(f),
               file[f][b] = 0
        PROVE  \E q \in Processes : doing'[q] = Writing[f] /\ block'[q] <= b
    <3>1. PICK q \in Processes : doing[q] = Writing[f] /\ block[q] <= b
      BY <2>1 DEF TInv, WillBeWhole
    <3>2. q # p
      BY <2>1, <3>1
    <3> QED BY <3>1, <3>2
  <2> QED BY <2>1 DEF WillBeWhole
<1> QED BY <1>1, <1>2 DEF TInv

LEMMA TInvQuiet ==
  ASSUME TInv, UNCHANGED <<file, running, doing, block, using, crashes>>,
         installed' \in 1..MaxVersion
  PROVE  TInv'
<1>1. TablesTyped'
  BY DEF TInv, TablesTyped
<1>2. \A p \in Processes : ProcessRuns(p)' /\ UsesItsGrammar(p)'
  BY DEF TInv, ProcessRuns, UsesItsGrammar
<1>3. \A f \in Files : WillBeWhole(f)'
  BY DEF TInv, WillBeWhole
<1> QED BY <1>1, <1>2, <1>3 DEF TInv

LEMMA TInvStart ==
  ASSUME TInv, NEW p \in Processes, StartProcess(p)
  PROVE  TInv'
<1>1. /\ doing[p] = "down" /\ running' = [running EXCEPT ![p] = installed]
      /\ doing' = [doing EXCEPT ![p] = "idle"]
      /\ UNCHANGED <<file, installed, imported, block, using, crashes>>
  BY DEF StartProcess
<1>2. installed \in 1..MaxVersion /\ installed # 0 /\ installed \in 0..MaxVersion
  BY GeneratedTablesAssumption DEF TInv, TablesTyped
<1>3. TablesTyped'
  BY <1>1, <1>2 DEF TInv, TablesTyped
<1>4. doing'[p] = "idle" /\ running'[p] = installed
  BY <1>1 DEF TInv, TablesTyped
<1>5. ProcessRuns(p)' /\ UsesItsGrammar(p)'
  BY <1>2, <1>4, FileSteps DEF ProcessRuns, UsesItsGrammar, ChangesOf, Files
<1>6. \A f \in Files : doing[p] # Writing[f]
  BY <1>1, FileSteps
<1> QED BY <1>1, <1>3, <1>5, <1>6, OneProcess DEF TInv, TablesTyped

LEMMA TInvStopped ==
  ASSUME TInv, NEW p \in Processes, Stopped(p),
         \/ crashes' = crashes /\ doing[p] = "idle"
         \/ crashes' = crashes + 1
  PROVE  TInv'
<1>1. /\ running' = [running EXCEPT ![p] = 0]
      /\ doing' = [doing EXCEPT ![p] = "down"]
      /\ block' = [block EXCEPT ![p] = 1]
      /\ using' = [using EXCEPT ![p] = [f \in Files |-> 0]]
      /\ UNCHANGED <<file, installed>>
  BY DEF Stopped
<1>2. crashes \in Nat /\ crashes' \in Nat
  BY DEF TInv, TablesTyped
<1>3. TablesTyped'
  BY <1>1, <1>2, GeneratedTablesAssumption DEF TInv, TablesTyped
<1>4. doing'[p] = "down"
  BY <1>1 DEF TInv, TablesTyped
<1>5. ProcessRuns(p)' /\ UsesItsGrammar(p)'
  BY <1>4, FileSteps DEF ProcessRuns, UsesItsGrammar, ChangesOf, Files
<1>6. doing[p] = "idle" => \A f \in Files : doing[p] # Writing[f]
  BY FileSteps
<1>7. crashes' = 0 => crashes = 0 /\ \A f \in Files : doing[p] # Writing[f]
  BY <1>2, <1>6
<1> QED BY <1>1, <1>3, <1>5, <1>7, OneProcess DEF TInv, TablesTyped

LEMMA TInvRead ==
  ASSUME TInv, NEW p \in Processes, Lex(p) \/ Yacc(p)
  PROVE  TInv'
<1>1. PICK f \in Files :
        /\ ReadTable(p, f)
        /\ doing[p] = IF f = "lextab" THEN "idle" ELSE "yacc"
  BY DEF Lex, Yacc, Files
<1>c. PICK c : c = Import(p, f)
  OBVIOUS
<1>2. /\ UNCHANGED <<file, installed, running, block, crashes>>
      /\ \/ /\ AcceptsTables(p, f, c)
            /\ using' = [using EXCEPT ![p][f] = c[1]]
            /\ doing' = [doing EXCEPT ![p] = After(f)]
         \/ /\ using' = [using EXCEPT ![p][f] = running[p]]
            /\ doing' = [doing EXCEPT ![p] = Opening[f]]
  BY <1>1, <1>c DEF ReadTable
<1>3. TablesTyped'
  <2>1. After(f) \in {"yacc", "parse"} /\
        Opening[f] \in ChangesOf("lextab") \cup ChangesOf("parsetab")
    BY FileSteps
  <2> QED BY <1>2, <2>1 DEF TInv, TablesTyped
<1>4. doing[p] \notin {"down"} /\ \A g \in Files : doing[p] # Writing[g]
  BY <1>1, FileSteps
<1>5. /\ running'[p] = running[p] /\ running[p] # 0
      /\ doing'[p] \in {After(f), Opening[f]}
  BY <1>2, <1>4 DEF TInv, TablesTyped, ProcessRuns
<1>6. ProcessRuns(p)'
  <2>1. \A g \in Files : doing'[p] # Writing[g]
    BY <1>5, FileSteps
  <2> QED BY <2>1, <1>5 DEF ProcessRuns
<1>7. UsesItsGrammar(p)'
  <2>1. CASE f = "parsetab"
    <3>1. \/ AcceptsTables(p, f, c) /\ using'[p]["parsetab"] = c[1]
          \/ using'[p]["parsetab"] = running[p]
      BY <2>1, <1>2 DEF TInv, TablesTyped
    <3>2. AcceptsTables(p, f, c) => c[1] = running[p]
      BY <2>1 DEF AcceptsTables, AcceptsParser
    <3> QED BY <3>1, <3>2, <1>5 DEF UsesItsGrammar
  <2>2. CASE f # "parsetab"
    <3>1. doing'[p] \notin {"parse"} \cup ChangesOf("parsetab")
      BY <2>2, <1>5, FileSteps DEF ChangesOf, Files
    <3> QED BY <3>1 DEF UsesItsGrammar
  <2> QED BY <2>1, <2>2
<1> QED BY <1>2, <1>3, <1>4, <1>6, <1>7, OneProcess DEF TInv, TablesTyped

LEMMA TInvParse ==
  ASSUME TInv, NEW p \in Processes, ParseQuery(p)
  PROVE  TInv'
<1>1. /\ doing[p] = "parse" /\ doing' = [doing EXCEPT ![p] = "idle"]
      /\ UNCHANGED <<file, installed, running, imported, block, using, crashes>>
  BY DEF ParseQuery
<1>2. TablesTyped'
  BY <1>1 DEF TInv, TablesTyped
<1>3. doing'[p] = "idle" /\ running[p] # 0
  BY <1>1 DEF TInv, TablesTyped, ProcessRuns
<1>4. ProcessRuns(p)' /\ UsesItsGrammar(p)'
  BY <1>1, <1>3, FileSteps DEF ProcessRuns, UsesItsGrammar, ChangesOf, Files
<1>5. \A f \in Files : doing[p] # Writing[f]
  BY <1>1, FileSteps
<1> QED BY <1>1, <1>2, <1>4, <1>5, OneProcess DEF TInv, TablesTyped

\* The process that empties a file will write all of it.
LEMMA TInvOpen ==
  ASSUME TInv, NEW p \in Processes, NEW f \in Files, OpenTable(p, f)
  PROVE  TInv'
<1>1. /\ doing[p] = Opening[f]
      /\ file' = [file EXCEPT ![f] = Truncated(f)]
      /\ doing' = [doing EXCEPT ![p] = Writing[f]]
      /\ block' = [block EXCEPT ![p] = 1]
      /\ UNCHANGED <<installed, running, imported, using, crashes>>
  BY DEF OpenTable
<1>2. Truncated(f) \in Contents(f) /\ 1 \in 1..Blocks(f)
  BY FileSteps, GeneratedTablesAssumption DEF Truncated, Contents
<1>3. TablesTyped'
  <2>1. Writing[f] \in ChangesOf("lextab") \cup ChangesOf("parsetab")
    BY FileSteps
  <2> QED BY <1>1, <1>2, <2>1 DEF TInv, TablesTyped
<1>4. /\ doing'[p] = Writing[f] /\ block'[p] = 1 /\ file'[f] = Truncated(f)
      /\ \A g \in Files \ {f} : file'[g] = file[g]
      /\ \A q \in Processes \ {p} : doing'[q] = doing[q] /\ block'[q] = block[q]
  BY <1>1 DEF TInv, TablesTyped
<1>5. ASSUME NEW q \in Processes
      PROVE  ProcessRuns(q)' /\ UsesItsGrammar(q)'
  <2>1. CASE q = p
    <3>1. running'[p] # 0
      BY <1>1, FileSteps DEF TInv, ProcessRuns
    <3>2. ProcessRuns(p)'
      BY <3>1, <1>2, <1>4, FileSteps DEF ProcessRuns
    <3>3. Writing[f] \in {"parse"} \cup ChangesOf("parsetab") =>
            Opening[f] \in {"parse"} \cup ChangesOf("parsetab")
      BY FileSteps DEF ChangesOf, Files
    <3>4. UsesItsGrammar(p)'
      BY <3>3, <1>1, <1>4 DEF TInv, UsesItsGrammar
    <3> QED BY <2>1, <3>2, <3>4
  <2>2. CASE q # p
    BY <2>2, <1>1, <1>2, <1>4 DEF TInv, ProcessRuns, UsesItsGrammar
  <2> QED BY <2>1, <2>2
<1>6. ASSUME NEW g \in Files
      PROVE  WillBeWhole(g)'
  <2>1. CASE g = f
    <3>1. \A b \in 1..Blocks(f) : block'[p] <= b
      BY <1>4, FileSteps
    <3> QED BY <2>1, <3>1, <1>4 DEF WillBeWhole
  <2>2. CASE g # f
    <3>1. ASSUME crashes = 0, file[g] # Missing, NEW b \in 1..Blocks(g),
                 file[g][b] = 0
          PROVE  \E q \in Processes : doing'[q] = Writing[g] /\ block'[q] <= b
      <4>1. PICK q \in Processes : doing[q] = Writing[g] /\ block[q] <= b
        BY <3>1 DEF TInv, WillBeWhole
      <4>2. q # p
        BY <4>1, <1>1, FileSteps
      <4> QED BY <4>1, <4>2, <1>4
    <3> QED BY <3>1, <2>2, <1>1, <1>4 DEF WillBeWhole
  <2> QED BY <2>1, <2>2
<1> QED BY <1>3, <1>5, <1>6 DEF TInv

\* A block that is written is no longer missing.
LEMMA TInvWrite ==
  ASSUME TInv, NEW p \in Processes, NEW f \in Files, WriteTable(p, f)
  PROVE  TInv'
<1>k. PICK k : k = block[p]
  OBVIOUS
<1>1. /\ doing[p] = Writing[f]
      /\ file' = [file EXCEPT ![f][k] = running[p]]
      /\ \/ /\ k < Blocks(f)
            /\ block' = [block EXCEPT ![p] = k + 1] /\ doing' = doing
         \/ /\ ~(k < Blocks(f)) /\ block' = [block EXCEPT ![p] = 1]
            /\ doing' = [doing EXCEPT ![p] = After(f)]
      /\ UNCHANGED <<installed, running, imported, using, crashes>>
  BY <1>k DEF WriteTable
<1>2. /\ running[p] \in 0..MaxVersion /\ running[p] # 0
      /\ k \in 1..Blocks(f) /\ file[f] \in Contents(f) /\ DOMAIN file = Files
  BY <1>1, <1>k, FileSteps DEF TInv, TablesTyped, ProcessRuns
<1>3. /\ file'[f] \in Contents(f) /\ file'[f][k] = running[p]
      /\ \A b \in (1..Blocks(f)) \ {k} : file'[f][b] = file[f][b]
      /\ \A g \in Files \ {f} : file'[g] = file[g]
      /\ DOMAIN file' = Files
  BY <1>1, <1>2 DEF Contents
<1>4. TablesTyped'
  <2>1. /\ After(f) \in {"yacc", "parse"} /\ Blocks(f) \in Nat
        /\ Writing[f] \in ChangesOf("lextab") \cup ChangesOf("parsetab")
    BY FileSteps
  <2>2. k \in Nat /\ k + 1 \in Nat
    BY <1>2, <2>1
  <2> QED BY <1>1, <1>3, <2>1, <2>2 DEF TInv, TablesTyped
<1>5. /\ \A q \in Processes \ {p} : doing'[q] = doing[q] /\ block'[q] = block[q]
      /\ \/ k < Blocks(f) /\ block'[p] = k + 1 /\ doing'[p] = Writing[f]
         \/ ~(k < Blocks(f)) /\ doing'[p] = After(f)
  BY <1>1 DEF TInv, TablesTyped
<1>6. ASSUME NEW q \in Processes
      PROVE  ProcessRuns(q)' /\ UsesItsGrammar(q)'
  <2>1. CASE q = p
    <3>1. CASE k < Blocks(f) /\ block'[p] = k + 1 /\ doing'[p] = Writing[f]
      <4>1. k + 1 \in 1..Blocks(f)
        BY <3>1, <1>2, FileSteps
      <4>2. ProcessRuns(p)'
        BY <4>1, <3>1, <1>1, <1>2, <1>3, FileSteps DEF ProcessRuns
      <4>3. UsesItsGrammar(p)'
        BY <3>1, <1>1 DEF TInv, UsesItsGrammar
      <4> QED BY <2>1, <4>2, <4>3
    <3>2. CASE doing'[p] = After(f)
      <4>1. ProcessRuns(p)'
        BY <3>2, <1>1, <1>2, FileSteps DEF ProcessRuns
      <4>2. UsesItsGrammar(p)'
        <5>1. CASE f = "parsetab"
          <6>1. doing[p] \in {"parse"} \cup ChangesOf("parsetab")
            BY <5>1, <1>1 DEF ChangesOf
          <6> QED BY <6>1, <1>1 DEF TInv, UsesItsGrammar
        <5>2. CASE f # "parsetab"
          <6>1. doing'[p] \notin {"parse"} \cup ChangesOf("parsetab")
            BY <5>2, <3>2, FileSteps DEF ChangesOf, Files
          <6> QED BY <6>1 DEF UsesItsGrammar
        <5> QED BY <5>1, <5>2
      <4> QED BY <2>1, <4>1, <4>2
    <3> QED BY <3>1, <3>2, <1>5
  <2>2. CASE q # p
    <3>1. ProcessRuns(q)'
      <4>1. ProcessRuns(q)
        BY DEF TInv
      <4> QED BY <4>1, <2>2, <1>1, <1>3, <1>5 DEF ProcessRuns
    <3>2. UsesItsGrammar(q)'
      <4>1. UsesItsGrammar(q)
        BY DEF TInv
      <4> QED BY <4>1, <2>2, <1>1, <1>5 DEF UsesItsGrammar
    <3> QED BY <3>1, <3>2
  <2> QED BY <2>1, <2>2
<1>7. ASSUME NEW g \in Files
      PROVE  WillBeWhole(g)'
  <2>1. ASSUME crashes = 0, file'[g] # Missing, NEW b \in 1..Blocks(g),
               file'[g][b] = 0
        PROVE  \E q \in Processes : doing'[q] = Writing[g] /\ block'[q] <= b
    <3>1. file[g] # Missing /\ file[g][b] = 0 /\ (g = f => b # k)
      <4>1. CASE g = f
        <5>1. b # k
          BY <4>1, <2>1, <1>2, <1>3
        <5>2. file[f] # Missing
          BY <1>2 DEF Contents, Missing
        <5> QED BY <4>1, <5>1, <5>2, <2>1, <1>3
      <4>2. CASE g # f
        BY <4>2, <2>1, <1>3
      <4> QED BY <4>1, <4>2
    <3>2. PICK q \in Processes : doing[q] = Writing[g] /\ block[q] <= b
      BY <2>1, <3>1 DEF TInv, WillBeWhole
    <3>3. CASE q # p
      BY <3>2, <3>3, <1>5
    <3>4. CASE q = p
      <4>1. g = f
        BY <3>2, <3>4, <1>1, FileSteps
      <4>2. k < b /\ b <= Blocks(f)
        BY <4>1, <3>1, <3>2, <3>4, <1>k, <1>2, FileSteps
      <4>3. block'[p] = k + 1 /\ doing'[p] = Writing[f]
        BY <4>2, <1>2, <1>5, FileSteps
      <4>4. k + 1 <= b
        BY <4>1, <4>2, <1>2, FileSteps
      <4> QED BY <4>1, <4>3, <4>4
    <3> QED BY <3>3, <3>4
  <2> QED BY <2>1, <1>1 DEF WillBeWhole
<1> QED BY <1>4, <1>6, <1>7 DEF TInv

LEMMA TInvStep == TInv /\ [TablesNext]_tableVars => TInv'
<1> SUFFICES ASSUME TInv, [TablesNext]_tableVars PROVE TInv'
  OBVIOUS
<1>1. CASE Upgrade
  <2>1. installed' \in 1..MaxVersion
    BY <1>1, GeneratedTablesAssumption DEF Upgrade, TInv, TablesTyped
  <2> QED BY <1>1, <2>1, TInvQuiet DEF Upgrade
<1>2. CASE UNCHANGED tableVars
  <2>1. installed' \in 1..MaxVersion
    BY <1>2 DEF tableVars, TInv, TablesTyped
  <2> QED BY <1>2, <2>1, TInvQuiet DEF tableVars
<1>3. ASSUME NEW p \in Processes, StartProcess(p) PROVE TInv'
  BY <1>3, TInvStart
<1>4. ASSUME NEW p \in Processes, StopProcess(p) \/ CrashProcess(p) PROVE TInv'
  BY <1>4, TInvStopped DEF StopProcess, CrashProcess
<1>5. ASSUME NEW p \in Processes, Lex(p) \/ Yacc(p) PROVE TInv'
  BY <1>5, TInvRead
<1>6. ASSUME NEW p \in Processes, ParseQuery(p) PROVE TInv'
  BY <1>6, TInvParse
<1>7. ASSUME NEW p \in Processes, NEW f \in Files, OpenTable(p, f) PROVE TInv'
  BY <1>7, TInvOpen
<1>8. ASSUME NEW p \in Processes, NEW f \in Files, WriteTable(p, f) PROVE TInv'
  BY <1>8, TInvWrite
<1> QED BY <1>1, <1>2, <1>3, <1>4, <1>5, <1>6, <1>7, <1>8 DEF TablesNext

\* The inductive invariant of the tables and of the processes that build them.
THEOREM TablesInvariance == TablesSpec => []TInv
BY TInvInit, TInvStep, PTL DEF TablesSpec

\* A process that parses has the tables of its own grammar, and the files are
\* whole when nobody writes them and nobody crashed, for any number of processes
\* that share them (write_table of lex.py and lr_write_tables of yacc.py).
THEOREM TablesAreShared == TablesSpec => []TablesCanBeShared
<1>1. TInv => ParsesWithItsGrammar
  BY DEF TInv, UsesItsGrammar, ParsesWithItsGrammar
<1>2. TInv => FilesAreWhole
  BY DEF TInv, WillBeWhole, FilesAreWhole
<1> QED BY <1>1, <1>2, TablesInvariance, PTL DEF TablesCanBeShared
=============================================================================
