--------------------------- MODULE DatabaseProofs ---------------------------
(***************************************************************************)
(* Proofs about the database environment and about replication, for any    *)
(* number of commits, crashes, backups and restores, of sites, joins and   *)
(* elections.                                                              *)
(*                                                                         *)
(* EInv: the log reaches from the database files to what was promised, and *)
(* all of it is on disk; a backup holds what was committed when its command *)
(* locked the database, and at most what the transactions committed that   *)
(* were late then: no transaction gets by the gate since, so that the log  *)
(* and all that can still be committed is within that bound (OnlyLate);    *)
(* unless two commands got in each other's way.                            *)
(* RInv: what every announcement under way still has to tell. A site that  *)
(* does not know a new member, or has not heard of a new master, is one    *)
(* that the announcement has yet to reach.                                 *)
(***************************************************************************)
EXTENDS Environment, Replication, FiniteSetTheorems,
        SequenceTheorems, TLAPS

-----------------------------------------------------------------------------
(* The database environment. *)

BackupPlaces ==
  {"lock", "drain", "checkpoint", "list", "addData", "addLog", "unlock"}
RestorePlaces ==
  {"lock", "drain", "close", "join", "remove", "extract", "open", "unlock"}
ShrinkPlaces == {"list", "removeLog"}

Orders ==
  [cmd : {"none", "backup", "restore", "shrink"},
   at : BackupPlaces \cup RestorePlaces \cup ShrinkPlaces \cup {"idle"},
   logs : Nat, last : Nat, of : Histories, late : Nat]

\* A thread is at a place of its command.
InPlace(m) ==
  /\ keeper[m].cmd = "none" => keeper[m] = Resting0
  /\ keeper[m].cmd = "backup" => keeper[m].at \in BackupPlaces
  /\ keeper[m].cmd = "restore" => keeper[m].at \in RestorePlaces
  /\ keeper[m].cmd = "shrink" => keeper[m].at \in ShrinkPlaces

Backups ==
  [state : {"none", "partial", "whole", "ahead"},
   data : Histories \cup {NoData}, log : Histories, first : Nat \ {0},
   of : Histories, late : Nat]

EnvTyped ==
  /\ up \in {"down", "open", "closed"} /\ opened \in BOOLEAN
  /\ thread \in {"off", "asleep", "in"}
  /\ data \in Histories \cup {NoData} /\ log \in Histories
  /\ flushed \in 0 .. Len(log) /\ first \in Nat \ {0}
  /\ keeper \in [Keepers -> Orders] /\ backup \in Backups
  /\ written \in 0 .. MaxWrites /\ promised \in Histories
  /\ passed \in Nat /\ active \in Nat /\ written + passed + active <= MaxWrites
  /\ broken \in BOOLEAN

GateCounted ==
  shut \in Nat /\ shut = Cardinality({m \in Keepers : Inside(m)})

Restores(m, places) == keeper[m].cmd = "restore" /\ keeper[m].at \in places

\* The handle is closed while a restore works on the files.
HandleFollows ==
  /\ up = "down" => ~opened /\ thread = "off" /\ Commanded = {}
  /\ up = "open" => data # NoData
  /\ up # "down" =>
       \/ up = "open" /\ opened /\ thread # "off"
       \/ \E m \in Keepers : Restores(m, {"join", "remove", "extract", "open"})
  /\ \A m \in Keepers :
       /\ Restores(m, {"join"}) => up = "open" /\ ~opened
       /\ Restores(m, {"remove", "extract", "open"}) =>
            up = "closed" /\ ~opened /\ thread = "off"
       /\ Restores(m, {"remove"}) => data = log /\ flushed = Len(log)
       /\ Restores(m, {"lock", "drain", "close", "unlock"}) => up = "open" /\ opened
  /\ \A m, n \in Keepers :
       keeper[m].cmd = "restore" /\ keeper[n].cmd = "restore" => m = n

FilesAreOut == \E m \in Keepers : Restores(m, {"extract", "open"})

\* The log has what the files have, and what was promised, on the disk.
LogHolds ==
  /\ data = NoData => log = <<>>
  /\ data # NoData => first <= Len(data) + 1
  /\ ~FilesAreOut =>
       /\ data # NoData =>
            Len(data) <= flushed /\ Prefixes!IsPrefix(data, log)
       /\ Len(promised) <= flushed /\ Prefixes!IsPrefix(promised, log)

\* What a restore extracts is the backup.
RestoreHolds(m) ==
  keeper[m].cmd = "restore" =>
    /\ \A n \in Keepers : keeper[n].cmd # "none" => n = m
    /\ backup.state = "whole"
    /\ keeper[m].at = "extract" => data = NoData
    /\ keeper[m].at = "open" =>
         data = backup.data /\ log = backup.log /\ first = backup.first

\* Since the lock a late transaction can have committed, and no other one: those
\* that still can are late, too.
OnlyLate(m) ==
  /\ Prefixes!IsPrefix(keeper[m].of, log)
  /\ Len(log) + passed + active <= Len(keeper[m].of) + keeper[m].late

\* What a backup reads is what was committed when it locked the database, and
\* what was late.
BackupHolds(m) ==
  keeper[m].cmd = "backup" =>
    /\ \A n \in Keepers : keeper[n].cmd = "backup" => n = m
    /\ keeper[m].at \in {"checkpoint", "list", "addData", "addLog"} => OnlyLate(m)
    /\ keeper[m].at \in {"list", "addData", "addLog"} =>
         Len(keeper[m].of) <= flushed
    /\ keeper[m].at \in {"addData", "addLog"} =>
         /\ backup.state = "partial"
         /\ Len(keeper[m].of) <= keeper[m].last * LogSize
    /\ keeper[m].at = "addLog" =>
         /\ backup.data # NoData /\ Prefixes!IsPrefix(backup.data, log)
         /\ backup.first <= Len(backup.data) + 1

BackupIsWhole ==
  /\ backup.state = "whole" =>
       /\ backup.data # NoData /\ backup.first <= Len(backup.data) + 1
       /\ AsWhenLocked(Recovered(backup.data, backup.log))
  /\ backup.state = "ahead" => backup.late > 0

\* The log files that a shrink removes are not needed.
ShrinkHolds(m) ==
  Step(m, "shrink", "removeLog") =>
    /\ data # NoData /\ keeper[m].logs \in 1 .. keeper[m].last
    /\ keeper[m].last * LogSize <= Len(data)

Sound ==
  /\ LogHolds /\ BackupIsWhole
  /\ \A m \in Keepers : RestoreHolds(m) /\ BackupHolds(m) /\ ShrinkHolds(m)

EInv ==
  /\ EnvTyped /\ GateCounted /\ HandleFollows
  /\ \A m \in Keepers : InPlace(m)
  /\ ~broken => Sound

-----------------------------------------------------------------------------
(* Prefixes, recovery and the numbers of log files.                        *)

LEMMA Sizes ==
  MaxWrites \in Nat /\ LogSize \in Nat \ {0} /\ IsFiniteSet(Keepers)
BY EnvironmentAssumption

LEMMA PrefixMeans ==
  ASSUME NEW a \in Histories, NEW b \in Histories
  PROVE  Prefixes!IsPrefix(a, b) <=>
           Len(a) <= Len(b) /\ \A i \in 1 .. Len(a) : a[i] = b[i]
<1>1. PICK S : S = 1 .. MaxWrites
  OBVIOUS
<1>2. a \in Seq(S) /\ b \in Seq(S)
  BY <1>1 DEF Histories
<1>3. Prefixes!IsPrefix(a, b) <=>
        Len(a) <= Len(b) /\ SubSeq(a, 1, Len(a)) = SubSeq(b, 1, Len(a))
  BY DEF Prefixes!IsPrefix
<1> QED BY <1>2, <1>3

LEMMA PrefixFacts ==
  ASSUME NEW a \in Histories, NEW b \in Histories
  PROVE  /\ Len(a) \in Nat /\ Len(b) \in Nat
         /\ Prefixes!IsPrefix(a, a) /\ Prefixes!IsPrefix(<<>>, a)
         /\ <<>> \in Histories /\ Len(<<>>) = 0
         /\ Prefixes!IsPrefix(a, b) => Len(a) <= Len(b)
         /\ Len(a) = 0 => a = <<>>
<1>1. a \in Seq(1 .. MaxWrites) /\ b \in Seq(1 .. MaxWrites)
  BY DEF Histories
<1>2. Len(a) \in Nat /\ Len(b) \in Nat /\ (Len(a) = 0 => a = <<>>)
  BY <1>1
<1>3. <<>> \in Histories /\ Len(<<>>) = 0
  BY DEF Histories
<1> QED BY <1>2, <1>3, PrefixMeans

LEMMA PrefixOfLonger ==
  ASSUME NEW a \in Histories, NEW b \in Histories, NEW x \in 1 .. MaxWrites,
         Prefixes!IsPrefix(a, b)
  PROVE  /\ Append(b, x) \in Histories /\ Len(Append(b, x)) = Len(b) + 1
         /\ Prefixes!IsPrefix(a, Append(b, x))
<1>1. PICK S : S = 1 .. MaxWrites
  OBVIOUS
<1>2. a \in Seq(S) /\ b \in Seq(S) /\ x \in S
  BY <1>1 DEF Histories
<1>3. /\ Append(b, x) \in Seq(S) /\ Len(Append(b, x)) = Len(b) + 1
      /\ \A i \in 1 .. Len(b) : Append(b, x)[i] = b[i]
  BY <1>2
<1>4. PICK c : c = Append(b, x)
  OBVIOUS
<1>5. c \in Histories /\ Len(c) = Len(b) + 1 /\ \A i \in 1 .. Len(b) : c[i] = b[i]
  BY <1>1, <1>3, <1>4 DEF Histories
<1>6. Len(a) <= Len(b) /\ \A i \in 1 .. Len(a) : a[i] = b[i]
  BY PrefixMeans
<1>7. Len(a) \in Nat /\ Len(b) \in Nat
  BY PrefixFacts
<1>8. Prefixes!IsPrefix(a, c)
  BY <1>5, <1>6, <1>7, PrefixMeans
<1> QED BY <1>4, <1>5, <1>8

LEMMA PrefixOfShorter ==
  ASSUME NEW a \in Histories, NEW b \in Histories, NEW n \in 0 .. Len(b)
  PROVE  /\ SubSeq(b, 1, n) \in Histories /\ Len(SubSeq(b, 1, n)) = n
         /\ Prefixes!IsPrefix(a, b) /\ Len(a) <= n =>
              Prefixes!IsPrefix(a, SubSeq(b, 1, n))
<1>1. PICK S : S = 1 .. MaxWrites
  OBVIOUS
<1>2. a \in Seq(S) /\ b \in Seq(S) /\ Len(a) \in Nat /\ Len(b) \in Nat
  BY <1>1, PrefixFacts DEF Histories
<1>3. /\ SubSeq(b, 1, n) \in Seq(S) /\ Len(SubSeq(b, 1, n)) = n
      /\ \A i \in 1 .. n : SubSeq(b, 1, n)[i] = b[i]
  BY <1>2
<1>4. PICK c : c = SubSeq(b, 1, n)
  OBVIOUS
<1>5. c \in Histories /\ Len(c) = n /\ \A i \in 1 .. n : c[i] = b[i]
  BY <1>1, <1>3, <1>4 DEF Histories
<1>6. ASSUME Prefixes!IsPrefix(a, b), Len(a) <= n PROVE Prefixes!IsPrefix(a, c)
  <2>1. \A i \in 1 .. Len(a) : a[i] = b[i]
    BY <1>6, PrefixMeans
  <2> QED BY <1>2, <1>5, <1>6, <2>1, PrefixMeans
<1> QED BY <1>4, <1>5, <1>6

LEMMA NoDataIsNoHistory == NoData \notin Histories
<1>1. \A h \in Histories : \A i \in 1 .. Len(h) : h[i] \in 1 .. MaxWrites
  <2>1. PICK S : S = 1 .. MaxWrites
    OBVIOUS
  <2>2. \A h \in Seq(S) : \A i \in 1 .. Len(h) : h[i] \in S
    OBVIOUS
  <2> QED BY <2>1, <2>2 DEF Histories
<1>2. Len(NoData) = 1 /\ NoData[1] = 0
  BY DEF NoData
<1> QED BY <1>1, <1>2, Sizes

\* Recovery gives a history, and all of the log if the files lag behind it.
LEMMA RecoveredFacts ==
  ASSUME NEW d \in Histories \cup {NoData}, NEW r \in Histories
  PROVE  /\ Recovered(d, r) \in Histories /\ Recovered(d, r) # NoData
         /\ d = NoData => Recovered(d, r) = <<>>
         /\ d # NoData =>
              /\ Prefixes!IsPrefix(d, r) => Recovered(d, r) = r
              /\ d \in Histories /\ Len(d) <= Len(Recovered(d, r))
<1>1. <<>> \in Histories /\ NoData \notin Histories
  BY NoDataIsNoHistory, PrefixFacts
<1>2. d # NoData => d \in Histories
  OBVIOUS
<1>3. d # NoData /\ Prefixes!IsPrefix(d, r) => Len(d) <= Len(r)
  BY <1>2, PrefixFacts
<1>4. d # NoData => Len(d) \in Nat
  BY <1>2, PrefixFacts
<1> QED BY <1>1, <1>2, <1>3, <1>4 DEF Recovered

-----------------------------------------------------------------------------
(* The threads and the gate.                                               *)

OthersStay(m) ==
  \A n \in Keepers : n # m => keeper'[n] = keeper[n]

\* The thread m goes to a place of its command, and the other threads stay.
Becomes(m, cmd, at) ==
  /\ keeper' \in [Keepers -> Orders] /\ OthersStay(m)
  /\ keeper'[m].cmd = cmd /\ keeper'[m].at = at

LEMMA Fields ==
  ASSUME EnvTyped, NEW m \in Keepers
  PROVE  /\ keeper[m] \in Orders
         /\ keeper[m].cmd \in {"none", "backup", "restore", "shrink"}
         /\ keeper[m].logs \in Nat /\ keeper[m].last \in Nat
         /\ keeper[m].of \in Histories /\ keeper[m].late \in Nat
BY DEF EnvTyped, Orders

LEMMA RestingIsAnOrder ==
  Resting0 \in Orders /\ Resting0.cmd = "none" /\ Resting0.at = "idle"
BY PrefixFacts DEF Resting0, Orders, Histories

LEMMA GoesTo ==
  ASSUME EnvTyped, NEW m \in Keepers, NEW at, GoTo(m, at),
         at \in BackupPlaces \cup RestorePlaces \cup ShrinkPlaces
  PROVE  /\ Becomes(m, keeper[m].cmd, at)
         /\ keeper'[m].of = keeper[m].of /\ keeper'[m].logs = keeper[m].logs
         /\ keeper'[m].last = keeper[m].last /\ keeper'[m].late = keeper[m].late
BY DEF EnvTyped, GoTo, Becomes, OthersStay, Orders

LEMMA EndsOrder ==
  ASSUME EnvTyped, NEW m \in Keepers, EndOrder(m)
  PROVE  Becomes(m, "none", "idle") /\ keeper'[m] = Resting0
BY RestingIsAnOrder DEF EnvTyped, EndOrder, Becomes, OthersStay

LEMMA InsideShuts ==
  ASSUME GateCounted, NEW m \in Keepers, Inside(m) PROVE shut # 0
<1>1. IsFiniteSet({n \in Keepers : Inside(n)})
  BY Sizes, FS_Subset
<1> QED BY <1>1, FS_EmptySet DEF GateCounted

LEMMA GateStays ==
  ASSUME GateCounted, shut' = shut, \A n \in Keepers : Inside(n)' <=> Inside(n)
  PROVE  GateCounted'
<1>1. {n \in Keepers : Inside(n)}' = {n \in Keepers : Inside(n)}
  OBVIOUS
<1> QED BY <1>1 DEF GateCounted

LEMMA GateRises ==
  ASSUME GateCounted, shut' = shut + 1, NEW m \in Keepers, ~Inside(m),
         Inside(m)', \A n \in Keepers : n # m => (Inside(n)' <=> Inside(n))
  PROVE  GateCounted'
<1> DEFINE I == {n \in Keepers : Inside(n)}
<1>1. {n \in Keepers : Inside(n)}' = I \cup {m} /\ m \notin I
  OBVIOUS
<1>2. IsFiniteSet(I)
  BY Sizes, FS_Subset
<1>3. Cardinality(I \cup {m}) = Cardinality(I) + 1
  BY <1>1, <1>2, FS_AddElement
<1> QED BY <1>1, <1>3 DEF GateCounted

LEMMA GateFalls ==
  ASSUME GateCounted, shut' = shut - 1, NEW m \in Keepers, Inside(m),
         ~Inside(m)', \A n \in Keepers : n # m => (Inside(n)' <=> Inside(n))
  PROVE  GateCounted'
<1> DEFINE I == {n \in Keepers : Inside(n)}
<1>1. {n \in Keepers : Inside(n)}' = I \ {m} /\ m \in I
  OBVIOUS
<1>2. IsFiniteSet(I) /\ IsFiniteSet(I \ {m})
  BY Sizes, FS_Subset
<1>3. /\ Cardinality(I \ {m}) = Cardinality(I) - 1
      /\ Cardinality(I \ {m}) \in Nat /\ Cardinality(I) \in Nat
  BY <1>1, <1>2, FS_RemoveElement, FS_CardinalityType
<1> QED BY <1>1, <1>3 DEF GateCounted

\* A thread that is no further inside than before leaves the gate alone.
LEMMA GateStaysAt ==
  ASSUME GateCounted, shut' = shut, NEW m \in Keepers, OthersStay(m),
         Inside(m)' <=> Inside(m)
  PROVE  GateCounted'
<1>1. \A n \in Keepers : Inside(n)' <=> Inside(n)
  BY DEF OthersStay, Inside
<1> QED BY <1>1, GateStays

LEMMA ThreadsStay ==
  ASSUME keeper' = keeper
  PROVE  /\ \A m \in Keepers : (InPlace(m)' <=> InPlace(m))
                            /\ (Inside(m)' <=> Inside(m))
         /\ (FilesAreOut' <=> FilesAreOut)
         /\ Commanded' = Commanded
BY DEF InPlace, Inside, FilesAreOut, Restores, Commanded

LEMMA NobodyWorks ==
  ASSUME \A m \in Keepers : keeper'[m].cmd = "none"
  PROVE  /\ ~FilesAreOut'
         /\ \A m \in Keepers :
              RestoreHolds(m)' /\ BackupHolds(m)' /\ ShrinkHolds(m)'
BY DEF FilesAreOut, Restores, RestoreHolds, BackupHolds, ShrinkHolds, Step

LEMMA NobodyIsCommanded ==
  ASSUME Commanded = {}
  PROVE  ~FilesAreOut /\ \A m \in Keepers : keeper[m].cmd = "none"
BY DEF Commanded, FilesAreOut, Restores

-----------------------------------------------------------------------------
(* The server, the commits and the checkpoints.                            *)

LEMMA EInvInit == EnvInit => EInv
<1> SUFFICES ASSUME EnvInit PROVE EInv
  OBVIOUS
<1>1. <<>> \in Histories /\ Len(<<>>) = 0 /\ Prefixes!IsPrefix(<<>>, <<>>)
  <2>1. <<>> \in Histories
    BY DEF Histories
  <2> QED BY <2>1, PrefixFacts
<1>2. \A m \in Keepers : keeper[m] = Resting0 /\ keeper[m].cmd = "none"
  BY RestingIsAnOrder DEF EnvInit
<1>3. EnvTyped
  <2>1. keeper \in [Keepers -> Orders]
    BY RestingIsAnOrder DEF EnvInit
  <2>2. backup \in Backups
    BY <1>1 DEF EnvInit, Backups, NoBackup
  <2>3. /\ up = "down" /\ opened = FALSE /\ thread = "off" /\ data = NoData
        /\ log = <<>> /\ flushed = 0 /\ first = 1 /\ written = 0
        /\ promised = <<>> /\ broken = FALSE /\ passed = 0 /\ active = 0
    BY DEF EnvInit
  <2>4. flushed \in 0 .. Len(log) /\ written \in 0 .. MaxWrites
        /\ passed \in Nat /\ active \in Nat
        /\ written + passed + active <= MaxWrites
    BY <1>1, <2>3, Sizes
  <2>5. log \in Histories /\ promised \in Histories /\ broken \in BOOLEAN
    BY <1>1, <2>3
  <2>7. opened \in BOOLEAN
    BY <2>3
  <2>6. /\ up \in {"down", "open", "closed"}
        /\ thread \in {"off", "asleep", "in"} /\ first \in Nat \ {0}
        /\ data \in Histories \cup {NoData}
    BY <2>3
  <2> QED BY <2>1, <2>2, <2>4, <2>5, <2>6, <2>7 DEF EnvTyped
<1>4. GateCounted
  <2>1. {m \in Keepers : Inside(m)} = {}
    BY <1>2 DEF Inside
  <2>2. Cardinality({}) = 0
    BY FS_EmptySet
  <2> QED BY <2>1, <2>2 DEF GateCounted, EnvInit
<1>5. HandleFollows
  BY <1>2 DEF HandleFollows, EnvInit, Commanded, Restores
<1>6. \A m \in Keepers : InPlace(m)
  BY <1>2 DEF InPlace
<1>7. Sound
  <2>1. LogHolds
    BY <1>1 DEF LogHolds, EnvInit
  <2>2. BackupIsWhole
    BY DEF BackupIsWhole, EnvInit, NoBackup
  <2> QED BY <1>2, <2>1, <2>2
          DEF Sound, RestoreHolds, BackupHolds, ShrinkHolds, Step
<1> QED BY <1>3, <1>4, <1>5, <1>6, <1>7 DEF EInv

\* OpenFiles, of files that a log reaches.
LEMMA Opened ==
  ASSUME EnvTyped, OpenFiles
  PROVE  /\ data' \in Histories /\ data' # NoData /\ log' = data'
         /\ data' = Recovered(data, log)
         /\ flushed' = Len(data') /\ flushed' \in 0 .. Len(log')
         /\ first' \in Nat \ {0}
         /\ up' = "open" /\ opened' = TRUE /\ thread' = "asleep"
<1>1. data \in Histories \cup {NoData} /\ log \in Histories
  BY DEF EnvTyped
<1>2. Recovered(data, log) \in Histories /\ Recovered(data, log) # NoData
  BY <1>1, RecoveredFacts
<1>3. Len(Recovered(data, log)) \in Nat
  BY <1>2, PrefixFacts
<1> QED BY <1>2, <1>3 DEF OpenFiles, EnvTyped

LEMMA StartStep == ASSUME EInv, StartServer PROVE EInv'
<1>0. /\ up = "down" /\ OpenFiles /\ keeper' = keeper /\ shut' = shut
      /\ backup' = backup /\ written' = written /\ passed' = passed /\ active' = active /\ promised' = promised
      /\ broken' = broken
  BY DEF StartServer, txnVars
<1>1. /\ EnvTyped /\ GateCounted /\ HandleFollows
      /\ Commanded = {} /\ ~FilesAreOut
      /\ \A m \in Keepers : InPlace(m) /\ keeper[m].cmd = "none"
  BY <1>0, NobodyIsCommanded DEF EInv, HandleFollows
<1>2. /\ data' \in Histories /\ data' # NoData /\ log' = data'
      /\ data' = Recovered(data, log)
      /\ flushed' = Len(data') /\ flushed' \in 0 .. Len(log')
      /\ first' \in Nat \ {0}
      /\ up' = "open" /\ opened' = TRUE /\ thread' = "asleep"
  BY <1>0, <1>1, Opened
<1>3. EnvTyped'
  BY <1>0, <1>1, <1>2 DEF EnvTyped
<1>4. GateCounted'
  BY <1>0, <1>1, GateStays, ThreadsStay
<1>5. HandleFollows'
  BY <1>0, <1>1, <1>2 DEF HandleFollows, Restores
<1>6. \A m \in Keepers : InPlace(m)'
  BY <1>0, <1>1, ThreadsStay
<1>7. ASSUME ~broken PROVE Sound'
  <2>1. LogHolds /\ BackupIsWhole
    BY <1>7 DEF EInv, Sound
  <2>2. data \in Histories \cup {NoData} /\ log \in Histories /\ promised \in Histories
    BY <1>1 DEF EnvTyped
  <2>3. /\ Len(data') \in Nat /\ Prefixes!IsPrefix(data', data')
        /\ Len(<<>>) = 0 /\ \A a \in Histories : Prefixes!IsPrefix(<<>>, a)
    BY <1>2, PrefixFacts
  <2>4. LogHolds'
    <3>1. CASE data = NoData
      <4>1. log = <<>> /\ Len(promised) <= flushed /\ Prefixes!IsPrefix(promised, log)
        BY <1>1, <2>1, <3>1 DEF LogHolds
      <4>2. Len(promised) = 0 /\ promised = <<>>
        BY <2>2, <2>3, <4>1, PrefixFacts
      <4>3. first' = 1
        BY <1>0, <3>1 DEF OpenFiles
      <4> QED BY <1>0, <1>2, <2>3, <4>2, <4>3 DEF LogHolds
    <3>2. CASE data # NoData
      <4>1. /\ Len(data) <= flushed /\ Prefixes!IsPrefix(data, log)
            /\ first <= Len(data) + 1
            /\ Len(promised) <= flushed /\ Prefixes!IsPrefix(promised, log)
        BY <1>1, <2>1, <3>2 DEF LogHolds
      <4>2. log' = log /\ first' = first /\ data' = log
        BY <1>0, <1>2, <2>2, <3>2, <4>1, RecoveredFacts DEF OpenFiles
      <4>3. Len(data) <= Len(log) /\ Len(promised) <= Len(log)
            /\ Len(data) \in Nat /\ Len(log) \in Nat
        BY <2>2, <3>2, <4>1, PrefixFacts
      <4> QED BY <1>0, <1>1, <1>2, <2>3, <4>1, <4>2, <4>3 DEF LogHolds, EnvTyped
    <3> QED BY <3>1, <3>2
  <2>5. BackupIsWhole'
    BY <1>0, <2>1 DEF BackupIsWhole, AsWhenLocked
  <2> QED BY <1>0, <1>1, <2>4, <2>5, NobodyWorks DEF Sound
<1> QED BY <1>0, <1>3, <1>4, <1>5, <1>6, <1>7 DEF EInv

LEMMA LogStays ==
  ASSUME LogHolds, FilesAreOut' <=> FilesAreOut, data' = data, log' = log,
         flushed' = flushed, first' = first, promised' = promised
  PROVE  LogHolds'
BY DEF LogHolds

LEMMA FilesOutOnlyClosed ==
  ASSUME HandleFollows, FilesAreOut
  PROVE  up = "closed" /\ thread = "off" /\ ~opened
BY DEF HandleFollows, FilesAreOut, Restores

\* The files are as long as the log.
LEMMA LogReached ==
  ASSUME EnvTyped, LogHolds, ~FilesAreOut, data # NoData, data' = log,
         flushed' = Len(log), log' = log, first' = first, promised' = promised
  PROVE  /\ LogHolds' /\ data' \in Histories /\ data' # NoData
         /\ flushed' \in 0 .. Len(log') /\ Len(data) <= Len(data')
<1>1. /\ data \in Histories /\ log \in Histories /\ promised \in Histories
      /\ flushed \in 0 .. Len(log) /\ first \in Nat
  BY DEF EnvTyped
<1>2. /\ Len(data) <= flushed /\ Prefixes!IsPrefix(data, log)
      /\ first <= Len(data) + 1
      /\ Len(promised) <= flushed /\ Prefixes!IsPrefix(promised, log)
  BY DEF LogHolds
<1>3. /\ Len(data) \in Nat /\ Len(log) \in Nat /\ Len(promised) \in Nat
      /\ Prefixes!IsPrefix(log, log)
  BY <1>1, PrefixFacts
<1>4. log # NoData
  BY <1>1, NoDataIsNoHistory
<1>5. PICK n : n = Len(log)
  OBVIOUS
<1>6. /\ Len(data) <= n /\ first <= n + 1 /\ Len(promised) <= n
      /\ n \in 0 .. n
  BY <1>1, <1>2, <1>3, <1>5
<1> QED BY <1>1, <1>2, <1>3, <1>4, <1>5, <1>6 DEF LogHolds

LEMMA ShrinkKeeps ==
  ASSUME EnvTyped, NEW m \in Keepers, ShrinkHolds(m), keeper'[m] = keeper[m],
         data # NoData => data' \in Histories /\ data' # NoData /\ Len(data) <= Len(data')
  PROVE  ShrinkHolds(m)'
<1>1. CASE Step(m, "shrink", "removeLog")
  <2>1. /\ data # NoData /\ keeper[m].logs \in 1 .. keeper[m].last
        /\ keeper[m].last * LogSize <= Len(data)
    BY <1>1 DEF ShrinkHolds
  <2>2. data \in Histories
    BY <2>1 DEF EnvTyped
  <2>3. Len(data) \in Nat /\ Len(data') \in Nat /\ keeper[m].last \in Nat
    BY <2>1, <2>2, PrefixFacts, Fields
  <2>4. PICK x \in Nat : x = keeper[m].last * LogSize
    BY <2>3, Sizes
  <2>5. x <= Len(data')
    BY <2>1, <2>3, <2>4
  <2> QED BY <2>1, <2>4, <2>5 DEF ShrinkHolds
<1>2. CASE ~Step(m, "shrink", "removeLog")
  BY <1>2 DEF ShrinkHolds, Step
<1> QED BY <1>1, <1>2

LEMMA WorkersKeep ==
  ASSUME Sound, EnvTyped, ~FilesAreOut, keeper' = keeper, backup' = backup,
         log' = log, passed' = passed, active' = active,
         flushed' \in Nat, flushed <= flushed',
         data # NoData => data' \in Histories /\ data' # NoData /\ Len(data) <= Len(data')
  PROVE  /\ BackupIsWhole'
         /\ \A m \in Keepers :
              RestoreHolds(m)' /\ BackupHolds(m)' /\ ShrinkHolds(m)'
<1>1. BackupIsWhole'
  BY DEF Sound, BackupIsWhole, AsWhenLocked
<1>2. ASSUME NEW m \in Keepers PROVE RestoreHolds(m)'
  BY DEF Sound, RestoreHolds, FilesAreOut, Restores
<1>3. ASSUME NEW m \in Keepers PROVE BackupHolds(m)'
  <2>1. Len(keeper[m].of) \in Nat /\ flushed \in Nat
    BY Fields, PrefixFacts DEF EnvTyped
  <2>2. BackupHolds(m)
    BY DEF Sound
  <2> QED BY <2>1, <2>2 DEF BackupHolds, OnlyLate
<1>4. ASSUME NEW m \in Keepers PROVE ShrinkHolds(m)'
  BY ShrinkKeeps DEF Sound
<1> QED BY <1>1, <1>2, <1>3, <1>4

LEMMA StopStep == ASSUME EInv, StopServer PROVE EInv'
<1>0. /\ up = "open" /\ Commanded = {} /\ data' = log /\ flushed' = Len(log)
      /\ log' = log /\ first' = first /\ up' = "down" /\ ~opened'
      /\ opened' \in BOOLEAN /\ thread' = "off" /\ keeper' = keeper /\ shut' = shut
      /\ backup' = backup /\ written' = written /\ passed' = passed /\ active' = active /\ promised' = promised
      /\ broken' = broken
  BY DEF StopServer, CloseFiles, txnVars
<1>1. /\ EnvTyped /\ GateCounted /\ HandleFollows /\ ~FilesAreOut
      /\ \A m \in Keepers : InPlace(m) /\ keeper[m].cmd = "none"
      /\ data # NoData /\ Commanded' = {}
  <2>1. Commanded' = {}
    BY <1>0, ThreadsStay
  <2>2. ~FilesAreOut /\ \A m \in Keepers : keeper[m].cmd = "none"
    BY <1>0, NobodyIsCommanded
  <2> QED BY <1>0, <2>1, <2>2 DEF EInv, HandleFollows
<1>2. EnvTyped'
  <2>1. log \in Histories /\ Len(log) \in Nat
    BY <1>1, PrefixFacts DEF EnvTyped
  <2> QED BY <1>0, <1>1, <2>1 DEF EnvTyped
<1>3. GateCounted'
  BY <1>0, <1>1, GateStays, ThreadsStay
<1>4. HandleFollows'
  BY <1>0, <1>1 DEF HandleFollows, Restores
<1>5. \A m \in Keepers : InPlace(m)'
  BY <1>0, <1>1, ThreadsStay
<1>6. ASSUME ~broken PROVE Sound'
  <2>1. LogHolds /\ Sound
    BY <1>6 DEF EInv, Sound
  <2>a. flushed' \in Nat /\ flushed <= flushed'
    BY <1>0, <1>1, PrefixFacts DEF EnvTyped
  <2>2. LogHolds' /\ data' \in Histories /\ data' # NoData /\ Len(data) <= Len(data')
    BY <1>0, <1>1, <2>1, LogReached
  <2> QED BY <1>0, <1>1, <2>1, <2>a, <2>2, WorkersKeep DEF Sound
<1> QED BY <1>0, <1>2, <1>3, <1>4, <1>5, <1>6 DEF EInv

LEMMA RecoverStep == ASSUME EInv, RecoverOffline PROVE EInv'
<1>0. /\ up = "down" /\ data # NoData /\ data' = Recovered(data, log)
      /\ log' = Recovered(data, log) /\ flushed' = Len(Recovered(data, log))
      /\ first' = first /\ up' = "down" /\ opened' = opened
      /\ thread' = thread /\ keeper' = keeper /\ shut' = shut
      /\ backup' = backup /\ written' = written /\ passed' = passed /\ active' = active /\ promised' = promised
      /\ broken' = broken
  BY DEF RecoverOffline, txnVars
<1>1. /\ EnvTyped /\ GateCounted /\ HandleFollows /\ Commanded = {} /\ ~FilesAreOut
      /\ \A m \in Keepers : InPlace(m) /\ keeper[m].cmd = "none"
      /\ ~opened /\ thread = "off" /\ Commanded' = {}
  <2>1. HandleFollows
    BY DEF EInv
  <2>2. Commanded = {} /\ ~opened /\ thread = "off"
    BY <1>0, <2>1 DEF HandleFollows
  <2>3. Commanded' = {}
    BY <1>0, <2>2, ThreadsStay
  <2>4. ~FilesAreOut /\ \A m \in Keepers : keeper[m].cmd = "none"
    BY <2>2, NobodyIsCommanded
  <2> QED BY <2>1, <2>2, <2>3, <2>4 DEF EInv
<1>2. data \in Histories \cup {NoData} /\ log \in Histories
  BY <1>1 DEF EnvTyped
<1>3. data' \in Histories /\ data' # NoData /\ Len(data') \in Nat /\ flushed' = Len(data')
      /\ log' = data'
  BY <1>0, <1>2, RecoveredFacts, PrefixFacts
<1>4. EnvTyped'
  <2>1. flushed' \in 0 .. Len(log') /\ log' \in Histories
    BY <1>3
  <2> QED BY <1>0, <1>1, <1>3, <2>1 DEF EnvTyped
<1>5. GateCounted'
  BY <1>0, <1>1, GateStays, ThreadsStay
<1>6. HandleFollows'
  BY <1>0, <1>1 DEF HandleFollows, Restores
<1>7. \A m \in Keepers : InPlace(m)'
  BY <1>0, <1>1, ThreadsStay
<1>8. ASSUME ~broken PROVE Sound'
  <2>1. LogHolds /\ Sound
    BY <1>8 DEF EInv, Sound
  <2>2. Prefixes!IsPrefix(data, log)
    BY <1>0, <1>1, <2>1 DEF LogHolds
  <2>3. data' = log /\ log' = log /\ flushed' = Len(log)
    BY <1>0, <1>2, <2>2, RecoveredFacts
  <2>a. flushed' \in Nat /\ flushed <= flushed'
    BY <1>1, <1>2, <2>3, PrefixFacts DEF EnvTyped
  <2>4. LogHolds' /\ Len(data) <= Len(data')
    BY <1>0, <1>1, <2>1, <2>3, LogReached
  <2> QED BY <1>0, <1>1, <1>3, <2>1, <2>3, <2>a, <2>4, WorkersKeep DEF Sound
<1> QED BY <1>0, <1>4, <1>5, <1>6, <1>7, <1>8 DEF EInv

LEMMA CrashStep == ASSUME EInv, Crash PROVE EInv'
<1>0. /\ up' = "down" /\ ~opened' /\ opened' \in BOOLEAN /\ thread' = "off"
      /\ log' = SubSeq(log, 1, flushed) /\ shut' = 0
      /\ keeper' = [m \in Keepers |-> Resting0]
      /\ data' = data /\ flushed' = flushed /\ first' = first
      /\ backup' = backup /\ written' = written /\ passed' = 0 /\ active' = 0 /\ promised' = promised
      /\ broken' = (\/ broken
                    \/ \E m \in Keepers : keeper[m].at \in {"extract", "open"})
  BY DEF Crash, txnVars
<1>1. EnvTyped /\ GateCounted /\ HandleFollows
  BY DEF EInv
<1>2. \A m \in Keepers : keeper'[m] = Resting0 /\ keeper'[m].cmd = "none"
  BY <1>0, RestingIsAnOrder
<1>3. data \in Histories \cup {NoData} /\ log \in Histories /\ flushed \in 0 .. Len(log)
      /\ promised \in Histories
  BY <1>1 DEF EnvTyped
<1>4. log' \in Histories /\ Len(log') = flushed /\ flushed \in Nat
  <2>1. SubSeq(log, 1, flushed) \in Histories /\ Len(SubSeq(log, 1, flushed)) = flushed
    BY <1>3, PrefixOfShorter
  <2>2. Len(log) \in Nat
    BY <1>3, PrefixFacts
  <2> QED BY <1>0, <1>3, <2>1, <2>2
<1>5. EnvTyped'
  <2>1. keeper' \in [Keepers -> Orders]
    BY <1>0, RestingIsAnOrder
  <2>2. flushed' \in 0 .. Len(log') /\ broken' \in BOOLEAN
    BY <1>0, <1>4
  <2>3. written \in 0 .. MaxWrites /\ written + 0 + 0 <= MaxWrites
    BY <1>1, Sizes DEF EnvTyped
  <2> QED BY <1>0, <1>1, <1>4, <2>1, <2>2, <2>3 DEF EnvTyped
<1>6. GateCounted'
  <2>1. {m \in Keepers : Inside(m)}' = {}
    BY <1>2 DEF Inside
  <2>2. Cardinality({}) = 0
    BY FS_EmptySet
  <2> QED BY <1>0, <2>1, <2>2 DEF GateCounted
<1>7. HandleFollows'
  BY <1>0, <1>2 DEF HandleFollows, Restores, Commanded
<1>8. \A m \in Keepers : InPlace(m)'
  BY <1>2 DEF InPlace
<1>9. ASSUME ~broken' PROVE Sound'
  <2>1. ~broken /\ ~FilesAreOut
    BY <1>0, <1>9 DEF FilesAreOut, Restores
  <2>2. LogHolds /\ BackupIsWhole
    BY <2>1 DEF EInv, Sound
  <2>3. LogHolds'
    <3>1. data = NoData => log' = <<>>
      <4>1. data = NoData => log = <<>> /\ Len(<<>>) = 0
        BY <2>2, <1>3, PrefixFacts DEF LogHolds
      <4>2. data = NoData => Len(log') = 0
        BY <1>3, <1>4, <4>1
      <4> QED BY <1>4, <4>2, PrefixFacts
    <3>2. data # NoData => first' <= Len(data') + 1
      BY <1>0, <2>2 DEF LogHolds
    <3>3. data # NoData => Len(data') <= flushed' /\ Prefixes!IsPrefix(data', log')
      <4>1. data # NoData => Len(data) <= flushed /\ Prefixes!IsPrefix(data, log)
        BY <2>1, <2>2 DEF LogHolds
      <4> QED BY <1>0, <1>3, <4>1, PrefixOfShorter
    <3>4. Len(promised') <= flushed' /\ Prefixes!IsPrefix(promised', log')
      <4>1. Len(promised) <= flushed /\ Prefixes!IsPrefix(promised, log)
        BY <2>1, <2>2 DEF LogHolds
      <4> QED BY <1>0, <1>3, <4>1, PrefixOfShorter
    <3> QED BY <1>0, <3>1, <3>2, <3>3, <3>4 DEF LogHolds
  <2>4. BackupIsWhole'
    BY <1>0, <2>2 DEF BackupIsWhole, AsWhenLocked
  <2> QED BY <1>2, <2>3, <2>4, NobodyWorks DEF Sound
<1> QED BY <1>5, <1>6, <1>7, <1>8, <1>9 DEF EInv

LEMMA CommitStep == ASSUME EInv, NEW sync \in BOOLEAN, CommitWrite(sync) PROVE EInv'
<1>0. /\ up = "open" /\ active > 0 /\ active' = active - 1 /\ passed' = passed
      /\ written' = written + 1
      /\ log' = Append(log, written + 1)
      /\ flushed' = (IF sync THEN Len(log) + 1 ELSE flushed)
      /\ promised' = (IF sync THEN log' ELSE promised)
      /\ up' = up /\ opened' = opened /\ thread' = thread /\ data' = data
      /\ first' = first /\ keeper' = keeper /\ shut' = shut
      /\ backup' = backup /\ broken' = broken
  BY DEF CommitWrite, OnDisk, txnVars
<1>1. /\ EnvTyped /\ GateCounted /\ HandleFollows
      /\ \A m \in Keepers : InPlace(m)
  BY DEF EInv
<1>2. /\ data \in Histories \cup {NoData} /\ log \in Histories /\ flushed \in 0 .. Len(log)
      /\ promised \in Histories /\ passed \in Nat /\ active \in Nat
      /\ backup \in Backups /\ written + 1 \in 1 .. MaxWrites
  BY <1>0, <1>1, Sizes DEF EnvTyped
<1>3. log' \in Histories /\ Len(log') = Len(log) + 1 /\ Len(log) \in Nat
  BY <1>0, <1>2, PrefixOfLonger, PrefixFacts
<1>4. flushed <= flushed' /\ flushed' \in 0 .. Len(log') /\ flushed \in Nat
  BY <1>0, <1>2, <1>3
<1>5. EnvTyped'
  <2>1. promised' \in Histories /\ written' \in 0 .. MaxWrites
    BY <1>0, <1>2, <1>3
  <2>2. /\ passed' \in Nat /\ active' \in Nat
        /\ written' + passed' + active' <= MaxWrites
    BY <1>0, <1>1, Sizes DEF EnvTyped
  <2> QED BY <1>0, <1>1, <1>3, <1>4, <2>1, <2>2 DEF EnvTyped
<1>6. GateCounted'
  BY <1>0, <1>1, GateStays, ThreadsStay
<1>7. ~FilesAreOut /\ \A m \in Keepers : ~Restores(m, {"remove"})
  BY <1>0, <1>1, FilesOutOnlyClosed DEF HandleFollows, Restores
<1>8. HandleFollows'
  BY <1>0, <1>1, <1>7, ThreadsStay DEF HandleFollows, Restores
<1>9. \A m \in Keepers : InPlace(m)'
  BY <1>0, <1>1, ThreadsStay
<1>10. ASSUME ~broken PROVE Sound'
  <2>1. LogHolds /\ Sound
    BY <1>10 DEF EInv, Sound
  <2>2. data # NoData
    BY <1>0, <1>1 DEF HandleFollows
  <2>3. /\ Len(data) <= flushed /\ Prefixes!IsPrefix(data, log)
        /\ first <= Len(data) + 1
        /\ Len(promised) <= flushed /\ Prefixes!IsPrefix(promised, log)
    BY <1>7, <2>1, <2>2 DEF LogHolds
  <2>4. Prefixes!IsPrefix(data, log') /\ Prefixes!IsPrefix(promised, log')
    BY <1>0, <1>2, <2>2, <2>3, PrefixOfLonger
  <2>5. Len(data) \in Nat /\ Len(promised) \in Nat
    BY <1>2, <2>2, PrefixFacts
  <2>6. Len(promised') <= flushed' /\ Prefixes!IsPrefix(promised', log')
    <3>1. CASE sync
      BY <1>0, <1>3, <3>1, PrefixFacts
    <3>2. CASE ~sync
      BY <1>0, <2>3, <2>4, <3>2
    <3> QED BY <3>1, <3>2
  <2>7. LogHolds'
    BY <1>0, <1>4, <2>2, <2>3, <2>4, <2>5, <2>6 DEF LogHolds
  <2>8. BackupIsWhole'
    BY <1>0, <2>1 DEF Sound, BackupIsWhole, AsWhenLocked
  <2>9. ASSUME NEW m \in Keepers PROVE ShrinkHolds(m)'
    BY <1>0, <1>1, <1>2, <2>1, <2>2, <2>5, ShrinkKeeps DEF Sound
  <2>10. ASSUME NEW m \in Keepers PROVE RestoreHolds(m)'
    <3>1. ~Restores(m, {"extract", "open"})
      BY <1>7 DEF FilesAreOut
    <3> QED BY <1>0, <2>1, <3>1 DEF Sound, RestoreHolds, Restores
  <2>11. ASSUME NEW m \in Keepers PROVE BackupHolds(m)'
    <3>1. /\ keeper[m].of \in Histories /\ keeper[m].late \in Nat
          /\ Len(keeper[m].of) \in Nat
      BY <1>1, Fields, PrefixFacts
    <3>2. OnlyLate(m) => OnlyLate(m)'
      <4>1. Prefixes!IsPrefix(keeper[m].of, log) =>
              Prefixes!IsPrefix(keeper[m].of, log')
        BY <1>0, <1>2, <3>1, PrefixOfLonger
      <4>2. Len(log') + passed' + active' = Len(log) + passed + active
        BY <1>0, <1>2, <1>3
      <4> QED BY <1>0, <4>1, <4>2 DEF OnlyLate
    <3>3. Len(keeper[m].of) <= flushed => Len(keeper[m].of) <= flushed'
      BY <1>4, <3>1
    <3>4. backup.data # NoData /\ Prefixes!IsPrefix(backup.data, log) =>
            Prefixes!IsPrefix(backup.data, log')
      <4>1. backup.data # NoData => backup.data \in Histories
        BY <1>2 DEF Backups
      <4> QED BY <1>0, <1>2, <4>1, PrefixOfLonger
    <3>5. BackupHolds(m)
      BY <2>1 DEF Sound
    <3> QED BY <1>0, <3>2, <3>3, <3>4, <3>5 DEF BackupHolds
  <2> QED BY <2>7, <2>8, <2>9, <2>10, <2>11 DEF Sound
<1> QED BY <1>0, <1>5, <1>6, <1>8, <1>9, <1>10 DEF EInv

\* A transaction gets by the gate only while no command is inside; those that
\* are by it come and go, and are no more.
LEMMA TxnStep ==
  ASSUME EInv, PassLock \/ BeginTxn \/ RetryLater \/ EndWithout PROVE EInv'
<1>0. /\ up' = up /\ opened' = opened /\ thread' = thread /\ data' = data
      /\ log' = log /\ flushed' = flushed /\ first' = first
      /\ keeper' = keeper /\ shut' = shut /\ backup' = backup
      /\ written' = written /\ promised' = promised /\ broken' = broken
  BY DEF PassLock, BeginTxn, RetryLater, EndWithout, filesVars
<1>1. /\ EnvTyped /\ GateCounted /\ HandleFollows
      /\ \A m \in Keepers : InPlace(m)
  BY DEF EInv
<1>2. /\ passed \in Nat /\ active \in Nat /\ written \in Nat
      /\ written + passed + active <= MaxWrites
  BY <1>1, Sizes DEF EnvTyped
<1>3. /\ passed' \in Nat /\ active' \in Nat
      /\ written + passed' + active' <= MaxWrites
      /\ shut = 0 \/ passed' + active' <= passed + active
  <2>1. CASE PassLock
    BY <1>2, <2>1, Sizes DEF PassLock
  <2>2. CASE BeginTxn
    BY <1>2, <2>2 DEF BeginTxn
  <2>3. CASE RetryLater
    BY <1>2, <2>3 DEF RetryLater
  <2>4. CASE EndWithout
    BY <1>2, <2>4, Sizes DEF EndWithout
  <2> QED BY <2>1, <2>2, <2>3, <2>4
<1>4. EnvTyped' /\ GateCounted' /\ HandleFollows'
  BY <1>0, <1>1, <1>3, GateStays, ThreadsStay
     DEF EnvTyped, HandleFollows, Restores
<1>5. \A m \in Keepers : InPlace(m)'
  BY <1>0, <1>1, ThreadsStay
<1>6. ASSUME ~broken PROVE Sound'
  <2>1. Sound /\ LogHolds
    BY <1>6 DEF EInv, Sound
  <2>2. LogHolds' /\ BackupIsWhole'
    BY <1>0, <2>1, ThreadsStay, LogStays
       DEF Sound, BackupIsWhole, AsWhenLocked
  <2>3. ASSUME NEW m \in Keepers PROVE RestoreHolds(m)' /\ ShrinkHolds(m)'
    BY <1>0, <2>1 DEF Sound, RestoreHolds, ShrinkHolds, Step
  <2>4. ASSUME NEW m \in Keepers PROVE BackupHolds(m)'
    <3>1. BackupHolds(m)
      BY <2>1 DEF Sound
    <3>2. CASE shut = 0
      <4>1. ~Inside(m)
        BY <1>1, <3>2, InsideShuts
      <4>2. keeper[m].cmd = "backup" => keeper[m].at = "lock"
        BY <4>1 DEF Inside
      <4> QED BY <1>0, <3>1, <4>2 DEF BackupHolds
    <3>3. CASE passed' + active' <= passed + active
      <4>1. /\ Len(log) \in Nat /\ Len(keeper[m].of) \in Nat
            /\ keeper[m].late \in Nat
        BY <1>1, Fields, PrefixFacts DEF EnvTyped
      <4>2. OnlyLate(m) => OnlyLate(m)'
        <5>1. /\ keeper'[m].of = keeper[m].of /\ keeper'[m].late = keeper[m].late
              /\ log' = log
          BY <1>0
        <5>2. PICK n \in Nat, k \in Nat :
                n = Len(log) /\ k = Len(keeper[m].of) + keeper[m].late
          BY <4>1
        <5>4. PICK p0 \in Nat, a0 \in Nat, p1 \in Nat, a1 \in Nat :
                p0 = passed /\ a0 = active /\ p1 = passed' /\ a1 = active'
          BY <1>2, <1>3
        <5>5. p1 + a1 <= p0 + a0
          BY <3>3, <5>4
        <5>6. n + p0 + a0 <= k => n + p1 + a1 <= k
          BY <5>5
        <5>3. n + passed + active <= k => n + passed' + active' <= k
          BY <5>4, <5>6
        <5> QED BY <5>1, <5>2, <5>3 DEF OnlyLate
      <4> QED BY <1>0, <3>1, <4>2 DEF BackupHolds
    <3> QED BY <1>3, <3>2, <3>3
  <2> QED BY <2>2, <2>3, <2>4 DEF Sound
<1> QED BY <1>0, <1>4, <1>5, <1>6 DEF EInv

LEMMA BeginStep == ASSUME EInv, BeginCheckpoint \/ EndThread PROVE EInv'
<1>0. /\ thread = "asleep"
      /\ (opened /\ thread' = "in") \/ (~opened /\ thread' = "off")
      /\ up' = up /\ opened' = opened /\ data' = data /\ log' = log
      /\ flushed' = flushed /\ first' = first /\ keeper' = keeper
      /\ shut' = shut /\ backup' = backup /\ written' = written /\ passed' = passed /\ active' = active
      /\ promised' = promised /\ broken' = broken
  BY DEF BeginCheckpoint, EndThread, filesVars, txnVars
<1>1. /\ EnvTyped /\ GateCounted /\ HandleFollows
      /\ \A m \in Keepers : InPlace(m)
  BY DEF EInv
<1>2. ~FilesAreOut
  BY <1>0, <1>1, FilesOutOnlyClosed
<1>3. EnvTyped'
  <2>1. thread' \in {"off", "asleep", "in"}
    BY <1>0
  <2> QED BY <1>0, <1>1, <2>1 DEF EnvTyped
<1>4. GateCounted'
  BY <1>0, <1>1, GateStays, ThreadsStay
<1>5. HandleFollows'
  BY <1>0, <1>1, ThreadsStay DEF HandleFollows, Restores
<1>6. \A m \in Keepers : InPlace(m)'
  BY <1>0, <1>1, ThreadsStay
<1>7. ASSUME ~broken PROVE Sound'
  <2>1. LogHolds /\ Sound
    BY <1>7 DEF EInv, Sound
  <2>2. LogHolds'
    BY <1>0, <2>1, ThreadsStay DEF LogHolds
  <2>3. data # NoData => data' \in Histories /\ data' # NoData /\ Len(data) <= Len(data')
    BY <1>0, <1>1, PrefixFacts DEF EnvTyped
  <2>4. flushed' \in Nat /\ flushed <= flushed'
    BY <1>0, <1>1 DEF EnvTyped
  <2> QED BY <1>0, <1>1, <1>2, <2>1, <2>2, <2>3, <2>4, WorkersKeep DEF Sound
<1> QED BY <1>0, <1>3, <1>4, <1>5, <1>6, <1>7 DEF EInv

LEMMA EndCheckpointStep == ASSUME EInv, EndCheckpoint PROVE EInv'
<1>0. /\ thread = "in" /\ thread' = "asleep" /\ data' = log
      /\ flushed' = Len(log) /\ up' = up /\ opened' = opened
      /\ log' = log /\ first' = first /\ keeper' = keeper
      /\ shut' = shut /\ backup' = backup /\ written' = written /\ passed' = passed /\ active' = active
      /\ promised' = promised /\ broken' = broken
  BY DEF EndCheckpoint, Checkpointed, txnVars
<1>1. /\ EnvTyped /\ GateCounted /\ HandleFollows
      /\ \A m \in Keepers : InPlace(m)
  BY DEF EInv
<1>2. ~FilesAreOut /\ \A m \in Keepers : ~Restores(m, {"remove"})
  BY <1>0, <1>1, FilesOutOnlyClosed DEF HandleFollows, Restores
<1>3. log \in Histories /\ Len(log) \in Nat /\ log # NoData
  BY <1>1, PrefixFacts, NoDataIsNoHistory DEF EnvTyped
<1>4. up # "closed" /\ data # NoData
  BY <1>0, <1>1 DEF HandleFollows, Restores, EnvTyped
<1>5. EnvTyped'
  BY <1>0, <1>1, <1>3 DEF EnvTyped
<1>6. GateCounted'
  BY <1>0, <1>1, GateStays, ThreadsStay
<1>7. HandleFollows'
  BY <1>0, <1>1, <1>2, <1>3, ThreadsStay DEF HandleFollows, Restores
<1>8. \A m \in Keepers : InPlace(m)'
  BY <1>0, <1>1, ThreadsStay
<1>9. ASSUME ~broken PROVE Sound'
  <2>1. LogHolds /\ Sound
    BY <1>9 DEF EInv, Sound
  <2>2. LogHolds' /\ data' \in Histories /\ data' # NoData /\ Len(data) <= Len(data')
    BY <1>0, <1>1, <1>2, <1>4, <2>1, LogReached
  <2>3. flushed' \in Nat /\ flushed <= flushed'
    BY <1>0, <1>1, <1>3 DEF EnvTyped
  <2> QED BY <1>0, <1>1, <1>2, <2>1, <2>2, <2>3, WorkersKeep DEF Sound
<1> QED BY <1>0, <1>5, <1>6, <1>7, <1>8, <1>9 DEF EInv

-----------------------------------------------------------------------------
(* The commands.                                                           *)

\* What a thread does whose restore, if it has one, is not at the files.
LEMMA ThreadStep ==
  ASSUME EInv, NEW m \in Keepers, NEW cmd \in {keeper[m].cmd, "none"}, NEW at,
         Becomes(m, cmd, at), InPlace(m)', keeper[m].cmd # "none",
         keeper[m].cmd = "restore" => keeper[m].at \in {"lock", "drain", "close", "unlock"},
         cmd = "restore" => at \in {"lock", "drain", "close", "unlock"},
         up' = up, opened' = opened, thread' = thread, log' = log,
         written' = written, passed' = passed, active' = active,
         promised' = promised, broken' = broken,
         first' \in Nat \ {0}, backup' \in Backups,
         \/ data' = data /\ flushed' = flushed
         \/ up = "open" /\ data' = log /\ flushed' = Len(log)
  PROVE  /\ EnvTyped' /\ HandleFollows' /\ (FilesAreOut' <=> FilesAreOut)
         /\ \A n \in Keepers : InPlace(n)'
<1>1. EnvTyped /\ HandleFollows /\ \A n \in Keepers : InPlace(n)
  BY DEF EInv
<1>2. log \in Histories /\ Len(log) \in Nat /\ log # NoData
  BY <1>1, PrefixFacts, NoDataIsNoHistory DEF EnvTyped
<1>3. data' \in Histories \cup {NoData} /\ flushed' \in 0 .. Len(log')
  BY <1>1, <1>2 DEF EnvTyped
<1>4. EnvTyped'
  BY <1>1, <1>3 DEF EnvTyped, Becomes
<1>5. \A n \in Keepers : n # m => keeper'[n] = keeper[n]
  BY DEF Becomes, OthersStay
<1>6. /\ ~Restores(m, {"join", "remove", "extract", "open"})
      /\ ~Restores(m, {"join", "remove", "extract", "open"})'
  BY DEF Restores, Becomes
<1>7. FilesAreOut' <=> FilesAreOut
  BY <1>5, <1>6 DEF FilesAreOut, Restores
<1>8. up # "down"
  BY <1>1 DEF HandleFollows, Commanded
<1>9. \A n \in Keepers : keeper'[n].cmd = "restore" => keeper[n].cmd = "restore"
  BY <1>5 DEF Becomes
<1>10. HandleFollows'
  <2>1. up' = "open" => data' # NoData
    BY <1>1, <1>2 DEF HandleFollows
  <2>2. \/ up' = "open" /\ opened' /\ thread' # "off"
        \/ \E n \in Keepers : Restores(n, {"join", "remove", "extract", "open"})'
    BY <1>1, <1>5, <1>6, <1>8 DEF HandleFollows, Restores
  <2>3. ASSUME NEW n \in Keepers
        PROVE  /\ Restores(n, {"join"})' => up' = "open" /\ ~opened'
               /\ Restores(n, {"remove", "extract", "open"})' =>
                    up' = "closed" /\ ~opened' /\ thread' = "off"
    BY <1>1, <1>5, <1>6 DEF HandleFollows, Restores
  <2>4. ASSUME NEW n \in Keepers, Restores(n, {"remove"})'
        PROVE  data' = log' /\ flushed' = Len(log')
    BY <1>1, <1>5, <1>6, <2>4 DEF HandleFollows, Restores
  <2>5. ASSUME NEW n \in Keepers, Restores(n, {"lock", "drain", "close", "unlock"})'
        PROVE  up' = "open" /\ opened'
    <3>1. keeper[m].cmd = "restore" => Restores(m, {"lock", "drain", "close", "unlock"})
      BY DEF Restores
    <3>2. n = m => keeper[m].cmd = "restore"
      BY <1>9, <2>5 DEF Restores
    <3>3. n # m => Restores(n, {"lock", "drain", "close", "unlock"})
      BY <1>5, <2>5 DEF Restores
    <3> QED BY <1>1, <3>1, <3>2, <3>3 DEF HandleFollows
  <2> QED BY <1>1, <1>8, <1>9, <2>1, <2>2, <2>3, <2>4, <2>5 DEF HandleFollows
<1>11. \A n \in Keepers : InPlace(n)'
  BY <1>1, <1>5 DEF InPlace
<1> QED BY <1>4, <1>7, <1>10, <1>11

LEMMA OthersHold ==
  ASSUME Sound, NEW m \in Keepers, OthersStay(m), backup' = backup, log' = log,
         data' = data, flushed' = flushed, first' = first, passed' = passed,
         active' = active,
         keeper'[m].cmd \in {keeper[m].cmd, "none"}
  PROVE  /\ BackupIsWhole'
         /\ \A n \in Keepers : n # m =>
              RestoreHolds(n)' /\ BackupHolds(n)' /\ ShrinkHolds(n)'
<1>1. \A n \in Keepers : n # m => keeper'[n] = keeper[n]
  BY DEF OthersStay
<1>2. \A n \in Keepers : /\ keeper'[n].cmd # "none" => keeper[n].cmd # "none"
                         /\ keeper'[n].cmd = "backup" => keeper[n].cmd = "backup"
  BY <1>1
<1>3. BackupIsWhole'
  BY DEF Sound, BackupIsWhole, AsWhenLocked
<1>4. ASSUME NEW n \in Keepers, n # m PROVE RestoreHolds(n)'
  BY <1>1, <1>2, <1>4 DEF Sound, RestoreHolds
<1>5. ASSUME NEW n \in Keepers, n # m PROVE BackupHolds(n)'
  BY <1>1, <1>2, <1>5 DEF Sound, BackupHolds, OnlyLate
<1>6. ASSUME NEW n \in Keepers, n # m PROVE ShrinkHolds(n)'
  BY <1>1, <1>6 DEF Sound, ShrinkHolds, Step
<1> QED BY <1>3, <1>4, <1>5, <1>6

\* While a backup goes well, no other one and no restore runs.
LEMMA BackupIsAlone ==
  ASSUME Sound, NEW m \in Keepers, keeper[m].cmd = "backup"
  PROVE  /\ ~FilesAreOut
         /\ \A n \in Keepers : keeper[n].cmd # "restore"
         /\ \A n \in Keepers : n # m => keeper[n].cmd # "backup"
<1>1. \A n \in Keepers : n # m => keeper[n].cmd # "backup"
  BY DEF Sound, BackupHolds
<1>2. \A n \in Keepers : keeper[n].cmd # "restore"
  BY DEF Sound, RestoreHolds
<1> QED BY <1>1, <1>2 DEF FilesAreOut, Restores

LEMMA LockStep ==
  ASSUME EInv, NEW m \in Keepers, LockCommits(m) PROVE EInv'
<1>0. /\ keeper[m].at = "lock" /\ shut' = shut + 1
      /\ GoTo(m, "drain")
      /\ up' = up /\ opened' = opened /\ thread' = thread /\ data' = data
      /\ log' = log /\ flushed' = flushed /\ first' = first /\ backup' = backup
      /\ written' = written /\ passed' = passed /\ active' = active /\ promised' = promised /\ broken' = broken
  BY DEF LockCommits, Gate, filesVars, txnVars
<1>1. /\ EnvTyped /\ GateCounted /\ InPlace(m) /\ keeper[m] \in Orders
      /\ log \in Histories /\ first \in Nat \ {0} /\ backup \in Backups
  BY Fields DEF EInv, EnvTyped
<1>2. keeper[m].cmd \in {"backup", "restore"}
  <2>1. keeper[m].cmd \in {"none", "backup", "restore", "shrink"}
    BY <1>1 DEF Orders
  <2> QED BY <1>0, <1>1, <2>1 DEF InPlace, Resting0, ShrinkPlaces
<1>3. Becomes(m, keeper[m].cmd, "drain")
  <2>1. "drain" \in BackupPlaces \cup RestorePlaces \cup ShrinkPlaces
    BY DEF BackupPlaces
  <2> QED BY <1>0, <1>1, <2>1, GoesTo
<1>4. InPlace(m)'
  BY <1>2, <1>3 DEF InPlace, Becomes, BackupPlaces, RestorePlaces
<1>5. /\ EnvTyped' /\ HandleFollows' /\ (FilesAreOut' <=> FilesAreOut)
      /\ \A n \in Keepers : InPlace(n)'
  BY <1>0, <1>1, <1>2, <1>3, <1>4, ThreadStep
<1>6. GateCounted'
  <2>1. ~Inside(m) /\ Inside(m)'
    BY <1>0, <1>2, <1>3 DEF Inside, Becomes
  <2>2. \A n \in Keepers : n # m => (Inside(n)' <=> Inside(n))
    BY <1>3 DEF Inside, Becomes, OthersStay
  <2> QED BY <1>0, <1>1, <2>1, <2>2, GateRises
<1>7. ASSUME ~broken PROVE Sound'
  <2>1. Sound /\ LogHolds
    BY <1>7 DEF EInv, Sound
  <2>2. LogHolds'
    BY <1>0, <1>5, <2>1, LogStays
  <2>3. OthersStay(m) /\ keeper'[m].cmd = keeper[m].cmd /\ keeper'[m].at = "drain"
    BY <1>3 DEF Becomes
  <2>4. /\ BackupIsWhole'
        /\ \A n \in Keepers : n # m =>
             RestoreHolds(n)' /\ BackupHolds(n)' /\ ShrinkHolds(n)'
    BY <1>0, <2>1, <2>3, OthersHold
  <2>5. \A n \in Keepers : keeper'[n].cmd = keeper[n].cmd
    BY <2>3 DEF OthersStay
  <2>6. RestoreHolds(m)'
    BY <1>0, <2>1, <2>3, <2>5 DEF Sound, RestoreHolds
  <2>7. BackupHolds(m)'
    BY <1>0, <1>3, <2>1, <2>3, <2>5 DEF Sound, BackupHolds
  <2>8. ShrinkHolds(m)'
    BY <1>2, <2>3 DEF ShrinkHolds, Step
  <2> QED BY <2>2, <2>4, <2>6, <2>7, <2>8 DEF Sound
<1> QED BY <1>0, <1>5, <1>6, <1>7 DEF EInv

LEMMA DrainedStep ==
  ASSUME EInv, NEW m \in Keepers, CommitsDrained(m) PROVE EInv'
<1>0. /\ keeper[m].at = "drain" /\ active = 0 /\ shut' = shut
      /\ keeper' = [keeper EXCEPT ![m] =
           [@ EXCEPT !.at = IF keeper[m].cmd = "backup" THEN "checkpoint"
                            ELSE "close",
                     !.of = log, !.late = passed]]
      /\ up' = up /\ opened' = opened /\ thread' = thread /\ data' = data
      /\ log' = log /\ flushed' = flushed /\ first' = first /\ backup' = backup
      /\ written' = written /\ passed' = passed /\ active' = active /\ promised' = promised /\ broken' = broken
  BY DEF CommitsDrained, filesVars, txnVars
<1>1. /\ EnvTyped /\ GateCounted /\ InPlace(m) /\ keeper[m] \in Orders
      /\ passed \in Nat /\ log \in Histories /\ first \in Nat \ {0} /\ backup \in Backups
  BY Fields DEF EInv, EnvTyped
<1>2. keeper[m].cmd \in {"backup", "restore"}
  <2>1. keeper[m].cmd \in {"none", "backup", "restore", "shrink"}
    BY <1>1 DEF Orders
  <2> QED BY <1>0, <1>1, <2>1 DEF InPlace, Resting0, ShrinkPlaces
<1> DEFINE at == IF keeper[m].cmd = "backup" THEN "checkpoint" ELSE "close"
<1>3. /\ Becomes(m, keeper[m].cmd, at) /\ keeper'[m].of = log
      /\ keeper'[m].late = passed
  <2>1. keeper \in [Keepers -> Orders]
    BY <1>1 DEF EnvTyped
  <2>2. PICK x : x = [keeper[m] EXCEPT !.at = at, !.of = log, !.late = passed]
    OBVIOUS
  <2>3. /\ x \in Orders /\ x.cmd = keeper[m].cmd /\ x.at = at /\ x.of = log
        /\ x.late = passed
    BY <1>1, <2>2 DEF Orders, BackupPlaces, RestorePlaces
  <2>4. keeper'[m] = x /\ keeper' \in [Keepers -> Orders] /\ OthersStay(m)
    BY <1>0, <2>1, <2>2, <2>3 DEF OthersStay
  <2> QED BY <2>3, <2>4 DEF Becomes
<1>4. InPlace(m)'
  BY <1>2, <1>3 DEF InPlace, Becomes, BackupPlaces, RestorePlaces
<1>5. /\ EnvTyped' /\ HandleFollows' /\ (FilesAreOut' <=> FilesAreOut)
      /\ \A n \in Keepers : InPlace(n)'
  BY <1>0, <1>1, <1>2, <1>3, <1>4, ThreadStep
<1>6. GateCounted'
  <2>1. OthersStay(m) /\ (Inside(m)' <=> Inside(m))
    BY <1>0, <1>2, <1>3 DEF Inside, Becomes
  <2> QED BY <1>0, <1>1, <2>1, GateStaysAt
<1>7. ASSUME ~broken PROVE Sound'
  <2>1. Sound /\ LogHolds
    BY <1>7 DEF EInv, Sound
  <2>2. LogHolds'
    BY <1>0, <1>5, <2>1, LogStays
  <2>3. OthersStay(m) /\ keeper'[m].cmd = keeper[m].cmd /\ keeper'[m].at = at
    BY <1>3 DEF Becomes
  <2>4. /\ BackupIsWhole'
        /\ \A n \in Keepers : n # m =>
             RestoreHolds(n)' /\ BackupHolds(n)' /\ ShrinkHolds(n)'
    BY <1>0, <2>1, <2>3, OthersHold
  <2>5. \A n \in Keepers : keeper'[n].cmd = keeper[n].cmd
    BY <2>3 DEF OthersStay
  <2>6. RestoreHolds(m)'
    BY <1>0, <2>1, <2>3, <2>5 DEF Sound, RestoreHolds
  <2>7. BackupHolds(m)'
    <3>1. OnlyLate(m)'
      <4>1. Prefixes!IsPrefix(log, log) /\ Len(log) \in Nat
        BY <1>1, PrefixFacts
      <4> QED BY <1>0, <1>1, <1>3, <4>1 DEF OnlyLate
    <3>2. keeper[m].cmd = "backup" => keeper'[m].at = "checkpoint"
      BY <2>3
    <3>3. \A n \in Keepers :
            keeper[m].cmd = "backup" /\ keeper'[n].cmd = "backup" => n = m
      BY <2>1, <2>5 DEF Sound, BackupHolds
    <3> QED BY <2>3, <3>1, <3>2, <3>3 DEF BackupHolds
  <2>8. ShrinkHolds(m)'
    BY <1>2, <2>3 DEF ShrinkHolds, Step
  <2> QED BY <2>2, <2>4, <2>6, <2>7, <2>8 DEF Sound
<1> QED BY <1>0, <1>5, <1>6, <1>7 DEF EInv

LEMMA UnlockStep ==
  ASSUME EInv, NEW m \in Keepers, UnlockCommits(m) PROVE EInv'
<1>0. /\ keeper[m].at = "unlock" /\ shut' = shut - 1 /\ EndOrder(m)
      /\ up' = up /\ opened' = opened /\ thread' = thread /\ data' = data
      /\ log' = log /\ flushed' = flushed /\ first' = first /\ backup' = backup
      /\ written' = written /\ passed' = passed /\ active' = active /\ promised' = promised /\ broken' = broken
  BY DEF UnlockCommits, filesVars, txnVars
<1>1. /\ EnvTyped /\ GateCounted /\ InPlace(m)
      /\ first \in Nat \ {0} /\ backup \in Backups
  BY DEF EInv, EnvTyped
<1>2. keeper[m].cmd \in {"backup", "restore"}
  <2>1. keeper[m].cmd \in {"none", "backup", "restore", "shrink"}
    BY <1>1, Fields
  <2> QED BY <1>0, <1>1, <2>1 DEF InPlace, Resting0, ShrinkPlaces
<1>3. Becomes(m, "none", "idle") /\ keeper'[m] = Resting0
  BY <1>0, <1>1, EndsOrder
<1>4. InPlace(m)'
  BY <1>3, RestingIsAnOrder DEF InPlace
<1>5. /\ EnvTyped' /\ HandleFollows' /\ (FilesAreOut' <=> FilesAreOut)
      /\ \A n \in Keepers : InPlace(n)'
  BY <1>0, <1>1, <1>2, <1>3, <1>4, ThreadStep
<1>6. GateCounted'
  <2>1. Inside(m) /\ ~Inside(m)'
    BY <1>0, <1>2, <1>3 DEF Inside, Becomes
  <2>2. \A n \in Keepers : n # m => (Inside(n)' <=> Inside(n))
    BY <1>3 DEF Inside, Becomes, OthersStay
  <2> QED BY <1>0, <1>1, <2>1, <2>2, GateFalls
<1>7. ASSUME ~broken PROVE Sound'
  <2>1. Sound /\ LogHolds
    BY <1>7 DEF EInv, Sound
  <2>2. LogHolds'
    BY <1>0, <1>5, <2>1, LogStays
  <2>3. OthersStay(m) /\ keeper'[m].cmd = "none"
    BY <1>3 DEF Becomes
  <2>4. /\ BackupIsWhole'
        /\ \A n \in Keepers : n # m =>
             RestoreHolds(n)' /\ BackupHolds(n)' /\ ShrinkHolds(n)'
    BY <1>0, <2>1, <2>3, OthersHold
  <2>5. RestoreHolds(m)' /\ BackupHolds(m)' /\ ShrinkHolds(m)'
    BY <2>3 DEF RestoreHolds, BackupHolds, ShrinkHolds, Step
  <2> QED BY <2>2, <2>4, <2>5 DEF Sound
<1> QED BY <1>0, <1>5, <1>6, <1>7 DEF EInv

\* What a backup does to the rest, if it goes well.
LEMMA OthersHoldInBackup ==
  ASSUME Sound, NEW m \in Keepers, keeper[m].cmd = "backup", NEW at,
         Becomes(m, "backup", at), EnvTyped,
         data # NoData => data' \in Histories /\ data' # NoData /\ Len(data) <= Len(data')
  PROVE  /\ RestoreHolds(m)' /\ ShrinkHolds(m)'
         /\ \A n \in Keepers : keeper'[n].cmd = "backup" => n = m
         /\ \A n \in Keepers : n # m =>
              RestoreHolds(n)' /\ BackupHolds(n)' /\ ShrinkHolds(n)'
<1>1. /\ \A n \in Keepers : keeper[n].cmd # "restore"
      /\ \A n \in Keepers : n # m => keeper[n].cmd # "backup"
  BY BackupIsAlone
<1>2. /\ \A n \in Keepers : n # m => keeper'[n] = keeper[n]
      /\ keeper'[m].cmd = "backup"
  BY DEF Becomes, OthersStay
<1>3. \A n \in Keepers : RestoreHolds(n)'
  BY <1>1, <1>2 DEF RestoreHolds
<1>4. \A n \in Keepers : n # m => BackupHolds(n)'
  BY <1>1, <1>2 DEF BackupHolds
<1>5. ASSUME NEW n \in Keepers, n # m PROVE ShrinkHolds(n)'
  BY <1>2, <1>5, ShrinkKeeps DEF Sound
<1>6. ShrinkHolds(m)'
  BY <1>2 DEF ShrinkHolds, Step
<1>7. \A n \in Keepers : keeper'[n].cmd = "backup" => n = m
  BY <1>1, <1>2
<1> QED BY <1>3, <1>4, <1>5, <1>6, <1>7

\* While the log stays, the same transactions are late.
LEMMA OnlyLateStays ==
  ASSUME NEW m \in Keepers, OnlyLate(m), keeper'[m].of = keeper[m].of,
         keeper'[m].late = keeper[m].late, log' = log, passed' = passed,
         active' = active
  PROVE  OnlyLate(m)'
BY DEF OnlyLate

LEMMA OnlyLateBounds ==
  ASSUME EnvTyped, NEW m \in Keepers, OnlyLate(m)
  PROVE  /\ Len(keeper[m].of) \in Nat /\ Len(log) \in Nat
         /\ Len(keeper[m].of) <= Len(log)
         /\ Len(log) <= Len(keeper[m].of) + keeper[m].late
<1>1. /\ keeper[m].of \in Histories /\ keeper[m].late \in Nat
      /\ log \in Histories /\ passed \in Nat /\ active \in Nat
  BY Fields DEF EnvTyped
<1>2. Len(keeper[m].of) \in Nat /\ Len(log) \in Nat
  BY <1>1, PrefixFacts
<1>3. Len(keeper[m].of) <= Len(log)
  BY <1>1, PrefixFacts DEF OnlyLate
<1>4. Len(log) + passed + active <= Len(keeper[m].of) + keeper[m].late
  BY DEF OnlyLate
<1> QED BY <1>1, <1>2, <1>3, <1>4

LEMMA BackupCheckpointStep ==
  ASSUME EInv, NEW m \in Keepers, BackupCheckpoint(m) PROVE EInv'
<1>0. /\ keeper[m].cmd = "backup" /\ keeper[m].at = "checkpoint"
      /\ \/ /\ up = "open" /\ data' = log /\ flushed' = Len(log)
            /\ GoTo(m, "list")
         \/ data' = data /\ flushed' = flushed /\ GoTo(m, "unlock")
      /\ log' = log /\ first' = first
      /\ up' = up /\ opened' = opened /\ thread' = thread /\ shut' = shut
      /\ backup' = backup /\ written' = written /\ passed' = passed /\ active' = active /\ promised' = promised
      /\ broken' = broken
  BY DEF BackupCheckpoint, Step, Checkpointed, filesVars, txnVars
<1>1. /\ EnvTyped /\ GateCounted /\ HandleFollows
      /\ first \in Nat \ {0} /\ backup \in Backups
      /\ data \in Histories \cup {NoData}
  BY DEF EInv, EnvTyped
<1>2. PICK at \in {"list", "unlock"} :
        GoTo(m, at) /\ (at = "list" => flushed' = Len(log))
  BY <1>0
<1>3. /\ Becomes(m, "backup", at) /\ keeper'[m].of = keeper[m].of
      /\ keeper'[m].last = keeper[m].last /\ keeper'[m].late = keeper[m].late
  <2>1. at \in BackupPlaces \cup RestorePlaces \cup ShrinkPlaces
    BY DEF BackupPlaces
  <2> QED BY <1>0, <1>1, <1>2, <2>1, GoesTo
<1>4. InPlace(m)'
  BY <1>3 DEF InPlace, Becomes, BackupPlaces
<1>5. /\ EnvTyped' /\ HandleFollows' /\ (FilesAreOut' <=> FilesAreOut)
      /\ \A n \in Keepers : InPlace(n)'
  BY <1>0, <1>1, <1>3, <1>4, ThreadStep
<1>6. GateCounted'
  <2>1. OthersStay(m) /\ (Inside(m)' <=> Inside(m))
    BY <1>0, <1>3 DEF Inside, Becomes
  <2> QED BY <1>0, <1>1, <2>1, GateStaysAt
<1>7. ASSUME ~broken PROVE Sound'
  <2>1. Sound /\ LogHolds /\ ~FilesAreOut
    BY <1>0, <1>7, BackupIsAlone DEF EInv, Sound
  <2>2. LogHolds' /\ (data # NoData => data' \in Histories /\ data' # NoData
                                       /\ Len(data) <= Len(data'))
    <3>1. CASE up = "open" /\ data' = log /\ flushed' = Len(log)
      <4>1. data # NoData /\ ~FilesAreOut
        BY <1>1, <2>1, <3>1 DEF HandleFollows
      <4>2. LogHolds' /\ data' \in Histories /\ data' # NoData /\ Len(data) <= Len(data')
        BY <1>0, <1>1, <2>1, <3>1, <4>1, LogReached
      <4> QED BY <4>2
    <3>2. CASE data' = data /\ flushed' = flushed
      <4>1. LogHolds'
        BY <1>0, <1>5, <2>1, <3>2, LogStays
      <4> QED BY <1>1, <3>2, <4>1, PrefixFacts
    <3> QED BY <1>0, <3>1, <3>2
  <2>3. /\ RestoreHolds(m)' /\ ShrinkHolds(m)'
        /\ \A n \in Keepers : keeper'[n].cmd = "backup" => n = m
        /\ \A n \in Keepers : n # m =>
             RestoreHolds(n)' /\ BackupHolds(n)' /\ ShrinkHolds(n)'
    BY <1>0, <1>1, <1>3, <2>1, <2>2, OthersHoldInBackup
  <2>4. BackupIsWhole'
    BY <1>0, <2>1 DEF Sound, BackupIsWhole, AsWhenLocked
  <2>5. OnlyLate(m)
    BY <1>0, <2>1 DEF Sound, BackupHolds
  <2>6. BackupHolds(m)'
    <3>1. OnlyLate(m)'
      BY <1>0, <1>3, <2>5, OnlyLateStays
    <3>2. at = "list" => Len(keeper'[m].of) <= flushed'
      BY <1>1, <1>2, <1>3, <2>5, OnlyLateBounds
    <3>3. keeper'[m].at = at
      BY <1>3 DEF Becomes
    <3> QED BY <2>3, <3>1, <3>2, <3>3 DEF BackupHolds
  <2> QED BY <2>2, <2>3, <2>4, <2>6 DEF Sound
<1> QED BY <1>0, <1>5, <1>6, <1>7 DEF EInv

\* The log ends in the current file.
LEMMA CurrentFileHolds ==
  ASSUME log \in Histories
  PROVE  CurrentFile * LogSize \in Nat /\ Len(log) <= CurrentFile * LogSize
<1>1. PICK n \in Nat : n = Len(log)
  BY PrefixFacts
<1>2. PICK L \in Nat \ {0} : L = LogSize
  BY Sizes
<1>3. PICK q \in Nat : q = n \div L
  BY <1>2
<1>4. n < (q + 1) * L
  BY <1>3
<1>5. n + 1 - 1 = n
  OBVIOUS
<1>6. CurrentFile = q + 1
  <2>1. CurrentFile = ((n + 1 - 1) \div L) + 1
    BY <1>1, <1>2 DEF CurrentFile, LogFile
  <2> QED BY <1>3, <1>5, <2>1
<1>7. (q + 1) * L \in Nat
  BY <1>2
<1> QED BY <1>1, <1>2, <1>4, <1>6, <1>7

LEMMA BackupListStep ==
  ASSUME EInv, NEW m \in Keepers, BackupList(m) PROVE EInv'
<1>0. /\ keeper[m].cmd = "backup" /\ keeper[m].at = "list"
      /\ keeper' = [keeper EXCEPT ![m] =
           [@ EXCEPT !.at = "addData", !.logs = LogFile(first),
                     !.last = CurrentFile]]
      /\ backup' = [NoBackup EXCEPT !.state = "partial"]
      /\ data' = data /\ flushed' = flushed /\ log' = log /\ first' = first
      /\ up' = up /\ opened' = opened /\ thread' = thread /\ shut' = shut
      /\ written' = written /\ passed' = passed /\ active' = active /\ promised' = promised /\ broken' = broken
  BY DEF BackupList, Step, filesVars, txnVars
<1>1. /\ EnvTyped /\ GateCounted /\ first \in Nat \ {0}
      /\ data \in Histories \cup {NoData} /\ log \in Histories
  BY DEF EInv, EnvTyped
<1>2. backup' \in Backups /\ backup'.state = "partial"
  <2>1. <<>> \in Histories
    BY <1>1, PrefixFacts
  <2> QED BY <1>0, <2>1 DEF NoBackup, Backups
<1>3. /\ Becomes(m, "backup", "addData") /\ keeper'[m].of = keeper[m].of
      /\ keeper'[m].late = keeper[m].late /\ keeper'[m].last = CurrentFile
  <2>1. LogFile(first) \in Nat /\ CurrentFile \in Nat
    <3>1. Len(log) \in Nat
      BY <1>1, PrefixFacts
    <3> QED BY <1>1, <3>1, Sizes DEF LogFile, CurrentFile
  <2>2. keeper \in [Keepers -> Orders] /\ "addData" \in BackupPlaces
    BY <1>1 DEF EnvTyped, BackupPlaces
  <2>3. [keeper[m] EXCEPT !.at = "addData", !.logs = LogFile(first),
                          !.last = CurrentFile] \in Orders
    BY <2>1, <2>2 DEF Orders
  <2>4. /\ keeper'[m] = [keeper[m] EXCEPT !.at = "addData", !.logs = LogFile(first),
                                          !.last = CurrentFile]
        /\ keeper' \in [Keepers -> Orders] /\ OthersStay(m)
    BY <1>0, <2>2, <2>3 DEF OthersStay
  <2>5. keeper[m] \in Orders
    BY <2>2
  <2>6. /\ keeper'[m].cmd = keeper[m].cmd /\ keeper'[m].at = "addData"
        /\ keeper'[m].of = keeper[m].of /\ keeper'[m].late = keeper[m].late
        /\ keeper'[m].last = CurrentFile
    BY <2>4, <2>5 DEF Orders
  <2> QED BY <1>0, <2>4, <2>6 DEF Becomes
<1>4. InPlace(m)'
  BY <1>3 DEF InPlace, Becomes, BackupPlaces
<1>5. /\ EnvTyped' /\ HandleFollows' /\ (FilesAreOut' <=> FilesAreOut)
      /\ \A n \in Keepers : InPlace(n)'
  BY <1>0, <1>1, <1>2, <1>3, <1>4, ThreadStep
<1>6. GateCounted'
  <2>1. OthersStay(m) /\ (Inside(m)' <=> Inside(m))
    BY <1>0, <1>3 DEF Inside, Becomes
  <2> QED BY <1>0, <1>1, <2>1, GateStaysAt
<1>7. ASSUME ~broken PROVE Sound'
  <2>1. Sound /\ LogHolds
    BY <1>7 DEF EInv, Sound
  <2>2. LogHolds'
    BY <1>0, <1>5, <2>1, LogStays
  <2>3. data # NoData => data' \in Histories /\ data' # NoData /\ Len(data) <= Len(data')
    BY <1>0, <1>1, PrefixFacts
  <2>4. /\ RestoreHolds(m)' /\ ShrinkHolds(m)'
        /\ \A n \in Keepers : keeper'[n].cmd = "backup" => n = m
        /\ \A n \in Keepers : n # m =>
             RestoreHolds(n)' /\ BackupHolds(n)' /\ ShrinkHolds(n)'
    BY <1>0, <1>1, <1>3, <2>1, <2>3, OthersHoldInBackup
  <2>5. BackupIsWhole'
    BY <1>2 DEF BackupIsWhole, AsWhenLocked
  <2>6. OnlyLate(m) /\ Len(keeper[m].of) <= flushed
    BY <1>0, <2>1 DEF Sound, BackupHolds
  <2>7. BackupHolds(m)'
    <3>1. OnlyLate(m)'
      BY <1>0, <1>3, <2>6, OnlyLateStays
    <3>2. Len(keeper[m].of) <= CurrentFile * LogSize
      <4>1. /\ Len(keeper[m].of) \in Nat /\ Len(log) \in Nat
            /\ Len(keeper[m].of) <= Len(log)
        BY <1>1, <2>6, OnlyLateBounds
      <4>2. CurrentFile * LogSize \in Nat /\ Len(log) <= CurrentFile * LogSize
        BY <1>1, CurrentFileHolds
      <4> QED BY <4>1, <4>2
    <3>3. keeper'[m].at = "addData"
      BY <1>3 DEF Becomes
    <3> QED BY <1>0, <1>2, <1>3, <2>4, <2>6, <3>1, <3>2, <3>3 DEF BackupHolds
  <2> QED BY <2>2, <2>4, <2>5, <2>7 DEF Sound
<1> QED BY <1>0, <1>5, <1>6, <1>7 DEF EInv

LEMMA BackupDataStep ==
  ASSUME EInv, NEW m \in Keepers, BackupData(m) PROVE EInv'
<1>0. /\ keeper[m].cmd = "backup" /\ keeper[m].at = "addData"
      /\ \/ backup' = backup /\ GoTo(m, "unlock")
         \/ /\ data # NoData /\ GoTo(m, "addLog")
            /\ backup' = [backup EXCEPT !.data = data, !.first = first]
      /\ data' = data /\ flushed' = flushed /\ log' = log /\ first' = first
      /\ up' = up /\ opened' = opened /\ thread' = thread /\ shut' = shut
      /\ written' = written /\ passed' = passed /\ active' = active /\ promised' = promised /\ broken' = broken
  BY DEF BackupData, Step, filesVars, txnVars
<1>1. /\ EnvTyped /\ GateCounted /\ first \in Nat \ {0} /\ backup \in Backups
      /\ data \in Histories \cup {NoData} /\ log \in Histories
  BY DEF EInv, EnvTyped
<1>2. PICK at \in {"addLog", "unlock"} : GoTo(m, at)
  BY <1>0
<1>3. /\ Becomes(m, "backup", at) /\ keeper'[m].of = keeper[m].of
      /\ keeper'[m].last = keeper[m].last /\ keeper'[m].late = keeper[m].late
  <2>1. at \in BackupPlaces \cup RestorePlaces \cup ShrinkPlaces
    BY DEF BackupPlaces
  <2> QED BY <1>0, <1>1, <1>2, <2>1, GoesTo
<1>a. /\ backup' \in Backups /\ backup'.state = backup.state
      /\ \/ at = "unlock" /\ backup' = backup
         \/ data # NoData /\ backup'.data = data /\ backup'.first = first
  <2>1. GoTo(m, "addLog") => at = "addLog"
    BY <1>1, <1>2, GoesTo, <1>3 DEF Becomes, BackupPlaces
  <2>2. GoTo(m, "unlock") => at = "unlock"
    BY <1>1, <1>2, GoesTo, <1>3 DEF Becomes, BackupPlaces
  <2>3. CASE backup' = backup /\ GoTo(m, "unlock")
    BY <1>1, <2>2, <2>3
  <2>4. CASE /\ data # NoData
             /\ backup' = [backup EXCEPT !.data = data, !.first = first]
    BY <1>1, <2>4 DEF Backups
  <2> QED BY <1>0, <2>3, <2>4
<1>4. InPlace(m)'
  BY <1>3 DEF InPlace, Becomes, BackupPlaces
<1>5. /\ EnvTyped' /\ HandleFollows' /\ (FilesAreOut' <=> FilesAreOut)
      /\ \A n \in Keepers : InPlace(n)'
  BY <1>0, <1>1, <1>a, <1>3, <1>4, ThreadStep
<1>6. GateCounted'
  <2>1. OthersStay(m) /\ (Inside(m)' <=> Inside(m))
    BY <1>0, <1>3 DEF Inside, Becomes
  <2> QED BY <1>0, <1>1, <2>1, GateStaysAt
<1>7. ASSUME ~broken PROVE Sound'
  <2>1. Sound /\ LogHolds /\ ~FilesAreOut
    BY <1>0, <1>7, BackupIsAlone DEF EInv, Sound
  <2>2. LogHolds'
    BY <1>0, <1>5, <2>1, LogStays
  <2>3. data # NoData => data' \in Histories /\ data' # NoData /\ Len(data) <= Len(data')
    BY <1>0, <1>1, PrefixFacts
  <2>4. /\ RestoreHolds(m)' /\ ShrinkHolds(m)'
        /\ \A n \in Keepers : keeper'[n].cmd = "backup" => n = m
        /\ \A n \in Keepers : n # m =>
             RestoreHolds(n)' /\ BackupHolds(n)' /\ ShrinkHolds(n)'
    BY <1>0, <1>1, <1>3, <2>1, <2>3, OthersHoldInBackup
  <2>5. /\ OnlyLate(m) /\ Len(keeper[m].of) <= flushed
        /\ backup.state = "partial"
        /\ Len(keeper[m].of) <= keeper[m].last * LogSize
    BY <1>0, <2>1 DEF Sound, BackupHolds
  <2>6. BackupIsWhole'
    BY <1>a, <2>5 DEF BackupIsWhole, AsWhenLocked
  <2>7. at = "addLog" => /\ backup'.data # NoData /\ backup'.first <= Len(backup'.data) + 1
                         /\ Prefixes!IsPrefix(backup'.data, log)
    BY <1>a, <2>1 DEF LogHolds
  <2>8. BackupHolds(m)'
    <3>1. OnlyLate(m)'
      BY <1>0, <1>3, <2>5, OnlyLateStays
    <3>2. keeper'[m].at = at
      BY <1>3 DEF Becomes
    <3> QED BY <1>0, <1>a, <1>3, <2>4, <2>5, <2>7, <3>1, <3>2 DEF BackupHolds
  <2> QED BY <2>2, <2>4, <2>6, <2>8 DEF Sound
<1> QED BY <1>0, <1>5, <1>6, <1>7 DEF EInv

LEMMA BackupLogStep ==
  ASSUME EInv, NEW m \in Keepers, BackupLog(m) PROVE EInv'
<1> DEFINE f == keeper[m].logs
<1> DEFINE end == IF flushed < f * LogSize THEN flushed ELSE f * LogSize
<1>0. /\ keeper[m].cmd = "backup" /\ keeper[m].at = "addLog"
      /\ \/ backup' = backup /\ GoTo(m, "unlock")
         \/ /\ backup' = backup
            /\ keeper' = [keeper EXCEPT ![m].logs = keeper[m].logs + 1]
         \/ /\ GoTo(m, "unlock") /\ ~(f < keeper[m].last)
            /\ backup' = [backup EXCEPT
                 !.state = IF Len(backup.data) <= end THEN "whole" ELSE "ahead",
                 !.log = SubSeq(log, 1, end), !.of = keeper[m].of,
                 !.late = keeper[m].late]
      /\ data' = data /\ flushed' = flushed /\ log' = log /\ first' = first
      /\ up' = up /\ opened' = opened /\ thread' = thread /\ shut' = shut
      /\ written' = written /\ passed' = passed /\ active' = active /\ promised' = promised /\ broken' = broken
  BY DEF BackupLog, Step, filesVars, txnVars
<1>1. /\ EnvTyped /\ GateCounted /\ first \in Nat \ {0} /\ backup \in Backups
      /\ data \in Histories \cup {NoData} /\ log \in Histories
      /\ keeper[m].of \in Histories /\ f \in Nat /\ keeper[m].last \in Nat
      /\ keeper[m].late \in Nat /\ flushed \in 0 .. Len(log)
  BY Fields DEF EInv, EnvTyped
<1>2. PICK at \in {"addLog", "unlock"} :
        /\ Becomes(m, "backup", at) /\ keeper'[m].of = keeper[m].of
        /\ keeper'[m].last = keeper[m].last /\ keeper'[m].late = keeper[m].late
  <2>1. CASE GoTo(m, "unlock")
    <3>1. "unlock" \in BackupPlaces \cup RestorePlaces \cup ShrinkPlaces
      BY DEF BackupPlaces
    <3> QED BY <1>0, <1>1, <2>1, <3>1, GoesTo
  <2>2. CASE keeper' = [keeper EXCEPT ![m].logs = keeper[m].logs + 1]
    <3>1. keeper \in [Keepers -> Orders] /\ keeper[m] \in Orders
      BY <1>1, Fields DEF EnvTyped
    <3>2. [keeper[m] EXCEPT !.logs = keeper[m].logs + 1] \in Orders
      BY <1>1, <3>1 DEF Orders
    <3>3. /\ keeper' \in [Keepers -> Orders] /\ OthersStay(m)
          /\ keeper'[m] = [keeper[m] EXCEPT !.logs = keeper[m].logs + 1]
      BY <2>2, <3>1, <3>2 DEF OthersStay
    <3>4. /\ keeper'[m].cmd = keeper[m].cmd /\ keeper'[m].at = keeper[m].at
          /\ keeper'[m].of = keeper[m].of /\ keeper'[m].last = keeper[m].last
          /\ keeper'[m].late = keeper[m].late
      BY <3>1, <3>3 DEF Orders
    <3> QED BY <1>0, <3>3, <3>4 DEF Becomes
  <2> QED BY <1>0, <2>1, <2>2
<1>b. /\ end \in 0 .. Len(log) /\ end \in Nat /\ (end = flushed \/ end = f * LogSize)
      /\ SubSeq(log, 1, end) \in Histories /\ Len(SubSeq(log, 1, end)) = end
  <2>1. PICK x \in Nat : x = f * LogSize
    BY <1>1, Sizes
  <2>2. Len(log) \in Nat
    BY <1>1, PrefixFacts
  <2>3. end \in 0 .. Len(log) /\ end \in Nat
    BY <1>1, <2>1, <2>2
  <2> QED BY <1>1, <2>3, PrefixOfShorter
<1> DEFINE Copied ==
             /\ backup'.state = (IF Len(backup.data) <= end THEN "whole" ELSE "ahead")
             /\ backup'.log = SubSeq(log, 1, end) /\ ~(f < keeper[m].last)
             /\ backup'.of = keeper[m].of /\ backup'.late = keeper[m].late
             /\ backup'.data = backup.data /\ backup'.first = backup.first
             /\ keeper'[m].at = "unlock"
<1>a. backup' \in Backups /\ (backup' = backup \/ Copied)
  <2>2. CASE /\ GoTo(m, "unlock") /\ ~(f < keeper[m].last)
             /\ backup' = [backup EXCEPT
                  !.state = IF Len(backup.data) <= end THEN "whole" ELSE "ahead",
                  !.log = SubSeq(log, 1, end), !.of = keeper[m].of,
                  !.late = keeper[m].late]
    <3>1. keeper'[m].at = "unlock"
      <4>1. "unlock" \in BackupPlaces \cup RestorePlaces \cup ShrinkPlaces
        BY DEF BackupPlaces
      <4> QED BY <1>1, <2>2, <4>1, GoesTo DEF Becomes
    <3>2. PICK st \in {"whole", "ahead"}, h \in Histories :
            /\ st = (IF Len(backup.data) <= end THEN "whole" ELSE "ahead")
            /\ h = SubSeq(log, 1, end)
      BY <1>b
    <3>3. backup' = [backup EXCEPT !.state = st, !.log = h, !.of = keeper[m].of,
                                   !.late = keeper[m].late]
      BY <2>2, <3>2
    <3>4. /\ backup' \in Backups /\ backup'.state = st /\ backup'.log = h
          /\ backup'.of = keeper[m].of /\ backup'.late = keeper[m].late
          /\ backup'.data = backup.data /\ backup'.first = backup.first
      BY <1>1, <3>3 DEF Backups
    <3>5. Copied
      BY <2>2, <3>1, <3>2, <3>4
    <3> HIDE DEF Copied
    <3> QED BY <3>4, <3>5
  <2>3. \/ backup' = backup
        \/ /\ GoTo(m, "unlock") /\ ~(f < keeper[m].last)
           /\ backup' = [backup EXCEPT
                !.state = IF Len(backup.data) <= end THEN "whole" ELSE "ahead",
                !.log = SubSeq(log, 1, end), !.of = keeper[m].of,
                !.late = keeper[m].late]
    BY <1>0, Zenon
  <2>4. backup' = backup => backup' \in Backups
    BY <1>1
  <2> DEFINE Moved == /\ GoTo(m, "unlock") /\ ~(f < keeper[m].last)
                      /\ backup' = [backup EXCEPT
                           !.state = IF Len(backup.data) <= end THEN "whole"
                                     ELSE "ahead",
                           !.log = SubSeq(log, 1, end), !.of = keeper[m].of,
                           !.late = keeper[m].late]
  <2>5. Moved => backup' \in Backups /\ (backup' = backup \/ Copied)
    BY <2>2, Zenon
  <2>6. backup' = backup \/ Moved
    BY <2>3, Zenon
  <2> HIDE DEF Copied, Moved
  <2> QED BY <2>4, <2>5, <2>6
<1> HIDE DEF Copied
<1>4. InPlace(m)'
  BY <1>2 DEF InPlace, Becomes, BackupPlaces
<1>5. /\ EnvTyped' /\ HandleFollows' /\ (FilesAreOut' <=> FilesAreOut)
      /\ \A n \in Keepers : InPlace(n)'
  <2>1. /\ data' = data /\ flushed' = flushed /\ log' = log /\ first' = first
        /\ up' = up /\ opened' = opened /\ thread' = thread
        /\ written' = written /\ passed' = passed /\ active' = active
        /\ promised' = promised /\ broken' = broken
        /\ keeper[m].cmd = "backup" /\ keeper[m].cmd # "none"
        /\ keeper[m].cmd # "restore"
    BY <1>0
  <2>2. first' \in Nat \ {0} /\ backup' \in Backups
    BY <1>1, <1>a, <2>1
  <2>3. Becomes(m, keeper[m].cmd, at)
    BY <1>2, <2>1
  <2> HIDE DEF f, end
  <2> QED BY <1>4, <2>1, <2>2, <2>3, ThreadStep
<1>6. GateCounted'
  <2>1. OthersStay(m) /\ (Inside(m)' <=> Inside(m))
    BY <1>0, <1>2 DEF Inside, Becomes
  <2> QED BY <1>0, <1>1, <2>1, GateStaysAt
<1>7. ASSUME ~broken PROVE Sound'
  <2>1. Sound /\ LogHolds
    BY <1>7 DEF EInv, Sound
  <2>2. LogHolds'
    BY <1>0, <1>5, <2>1, LogStays
  <2>3. data # NoData => data' \in Histories /\ data' # NoData /\ Len(data) <= Len(data')
    BY <1>0, <1>1, PrefixFacts
  <2>4. /\ RestoreHolds(m)' /\ ShrinkHolds(m)'
        /\ \A n \in Keepers : keeper'[n].cmd = "backup" => n = m
        /\ \A n \in Keepers : n # m =>
             RestoreHolds(n)' /\ BackupHolds(n)' /\ ShrinkHolds(n)'
    BY <1>0, <1>1, <1>2, <2>1, <2>3, OthersHoldInBackup
  <2>5. /\ OnlyLate(m) /\ Len(keeper[m].of) <= flushed
        /\ backup.state = "partial"
        /\ Len(keeper[m].of) <= keeper[m].last * LogSize
        /\ backup.data # NoData /\ Prefixes!IsPrefix(backup.data, log)
        /\ backup.first <= Len(backup.data) + 1
    BY <1>0, <2>1 DEF Sound, BackupHolds
  <2>6. ASSUME ~(f < keeper[m].last), backup'.log = SubSeq(log, 1, end),
               backup'.of = keeper[m].of, backup'.late = keeper[m].late,
               backup'.data = backup.data
        PROVE  /\ Len(backup.data) <= end =>
                    AsWhenLocked(Recovered(backup.data, backup.log))'
               /\ ~(Len(backup.data) <= end) => backup'.late > 0
    <3>1. backup.data \in Histories /\ Len(backup.data) \in Nat
      BY <1>1, <2>5, PrefixFacts DEF Backups
    <3>2. /\ Len(keeper[m].of) \in Nat /\ Len(log) \in Nat
          /\ Len(keeper[m].of) <= Len(log)
          /\ Len(log) <= Len(keeper[m].of) + keeper[m].late
      BY <1>1, <2>5, OnlyLateBounds
    <3>3. Len(keeper[m].of) <= end
      <4>1. PICK l \in Nat, L \in Nat \ {0}, g \in Nat :
              l = keeper[m].last /\ L = LogSize /\ g = f
        BY <1>1, Sizes
      <4>2. l <= g => l * L <= g * L
        OBVIOUS
      <4>3. l * L \in Nat /\ g * L \in Nat
        OBVIOUS
      <4>5. l <= g
        BY <2>6, <4>1
      <4>6. Len(keeper[m].of) <= l * L
        BY <2>5, <4>1
      <4>4. Len(keeper[m].of) <= g * L
        BY <3>2, <4>2, <4>3, <4>5, <4>6
      <4> QED BY <1>b, <2>5, <4>1, <4>4
    <3>4. PICK c \in Histories : c = SubSeq(log, 1, end) /\ Len(c) = end
      BY <1>b
    <3>5. Prefixes!IsPrefix(keeper[m].of, c)
      BY <1>1, <1>b, <2>5, <3>3, <3>4, PrefixOfShorter DEF OnlyLate
    <3>6. ASSUME Len(backup.data) <= end
          PROVE  AsWhenLocked(Recovered(backup.data, backup.log))'
      <4>1. Prefixes!IsPrefix(backup.data, c)
        BY <1>1, <1>b, <2>5, <3>1, <3>4, <3>6, PrefixOfShorter
      <4>2. Recovered(backup.data, c) = c
        BY <2>5, <3>1, <4>1, RecoveredFacts
      <4>3. Recovered(backup.data, backup.log)' = c
        BY <2>6, <3>4, <4>2 DEF Recovered
      <4>4. Len(c) <= Len(keeper[m].of) + keeper[m].late
        BY <1>1, <1>b, <3>2, <3>4
      <4> QED BY <2>6, <3>5, <4>3, <4>4 DEF AsWhenLocked
    <3>7. ~(Len(backup.data) <= end) => keeper[m].late > 0
      <4>1. Len(backup.data) <= Len(log)
        BY <1>1, <2>5, <3>1, PrefixFacts
      <4> QED BY <1>1, <1>b, <3>1, <3>2, <3>3, <4>1
    <3> QED BY <2>6, <3>6, <3>7
  <2>7. BackupIsWhole'
    <3>1. CASE backup' = backup
      BY <2>5, <3>1 DEF BackupIsWhole
    <3>2. CASE backup' # backup
      <4>1. /\ backup'.state = (IF Len(backup.data) <= end THEN "whole" ELSE "ahead")
            /\ backup'.log = SubSeq(log, 1, end) /\ ~(f < keeper[m].last)
            /\ backup'.of = keeper[m].of /\ backup'.late = keeper[m].late
            /\ backup'.data = backup.data /\ backup'.first = backup.first
        BY <1>a, <3>2 DEF Copied
      <4>2. /\ Len(backup.data) <= end =>
                 AsWhenLocked(Recovered(backup.data, backup.log))'
            /\ ~(Len(backup.data) <= end) => backup'.late > 0
        BY <2>6, <4>1
      <4>3. CASE Len(backup.data) <= end
        <5>1. backup'.state = "whole"
          BY <4>1, <4>3
        <5> QED BY <2>5, <4>1, <4>2, <4>3, <5>1 DEF BackupIsWhole
      <4>4. CASE ~(Len(backup.data) <= end)
        <5>1. backup'.state = "ahead"
          BY <4>1, <4>4
        <5> QED BY <4>2, <4>4, <5>1 DEF BackupIsWhole
      <4> QED BY <4>3, <4>4
    <3> QED BY <3>1, <3>2
  <2>8. BackupHolds(m)'
    <3>1. OnlyLate(m)'
      BY <1>0, <1>2, <2>5, OnlyLateStays
    <3>2. keeper'[m].at = at
      BY <1>2 DEF Becomes
    <3>3. at = "addLog" => backup' = backup
      BY <1>a, <3>2 DEF Copied
    <3> QED BY <1>0, <1>2, <2>4, <2>5, <3>1, <3>2, <3>3 DEF BackupHolds
  <2> QED BY <2>2, <2>4, <2>7, <2>8 DEF Sound
<1> QED BY <1>0, <1>5, <1>6, <1>7 DEF EInv

\* What a restore leaves to the others, if it goes well: there are none.
LEMMA OthersHoldInRestore ==
  ASSUME Sound, NEW m \in Keepers, keeper[m].cmd = "restore", OthersStay(m)
  PROVE  /\ \A n \in Keepers : keeper'[n].cmd # "none" => n = m
         /\ \A n \in Keepers : n # m =>
              RestoreHolds(n)' /\ BackupHolds(n)' /\ ShrinkHolds(n)'
         /\ backup.state = "whole"
<1>1. /\ \A n \in Keepers : n # m => keeper[n].cmd = "none"
      /\ backup.state = "whole"
  BY DEF Sound, RestoreHolds
<1>2. \A n \in Keepers : n # m => keeper'[n].cmd = "none"
  BY <1>1 DEF OthersStay
<1> QED BY <1>1, <1>2 DEF RestoreHolds, BackupHolds, ShrinkHolds, Step

LEMMA RestoreMoves ==
  ASSUME EInv, NEW m \in Keepers, keeper[m].cmd = "restore", keeper[m].at # "lock",
         NEW at \in RestorePlaces \ {"lock"}, GoTo(m, at), shut' = shut
  PROVE  /\ Becomes(m, "restore", at) /\ GateCounted'
         /\ \A n \in Keepers : InPlace(n)'
<1>1. /\ EnvTyped /\ GateCounted
      /\ \A n \in Keepers : InPlace(n)
  BY DEF EInv
<1>2. Becomes(m, "restore", at)
  <2>1. at \in BackupPlaces \cup RestorePlaces \cup ShrinkPlaces
    OBVIOUS
  <2> QED BY <1>1, <2>1, GoesTo
<1>3. OthersStay(m) /\ (Inside(m)' <=> Inside(m))
  BY <1>2 DEF Inside, Becomes
<1>4. \A n \in Keepers : InPlace(n)'
  BY <1>1, <1>2 DEF InPlace, Becomes, OthersStay
<1> QED BY <1>1, <1>2, <1>3, <1>4, GateStaysAt

LEMMA RestoreCloseStep ==
  ASSUME EInv, NEW m \in Keepers, RestoreClose(m) PROVE EInv'
<1>0. /\ keeper[m].cmd = "restore" /\ keeper[m].at = "close"
      /\ IF opened THEN opened' = FALSE /\ GoTo(m, "join")
         ELSE UNCHANGED opened /\ GoTo(m, "remove")
      /\ data' = data /\ flushed' = flushed /\ log' = log /\ first' = first
      /\ up' = up /\ thread' = thread /\ shut' = shut /\ backup' = backup
      /\ written' = written /\ passed' = passed /\ active' = active /\ promised' = promised /\ broken' = broken
  BY DEF RestoreClose, Step, filesVars, txnVars
<1>1. EnvTyped /\ HandleFollows
  BY DEF EInv
<1>2. up = "open" /\ opened /\ data # NoData
  BY <1>0, <1>1 DEF HandleFollows, Restores
<1>3. ~opened' /\ opened' \in BOOLEAN /\ GoTo(m, "join")
  BY <1>0, <1>2
<1>4. /\ Becomes(m, "restore", "join") /\ GateCounted'
      /\ \A n \in Keepers : InPlace(n)'
  <2>1. "join" \in RestorePlaces \ {"lock"}
    BY DEF RestorePlaces
  <2> QED BY <1>0, <1>3, <2>1, RestoreMoves
<1>5. EnvTyped'
  BY <1>0, <1>1, <1>3, <1>4 DEF EnvTyped, Becomes
<1>6. /\ \A n \in Keepers : n # m => keeper'[n] = keeper[n] /\ keeper[n].cmd # "restore"
      /\ keeper'[m].cmd = "restore" /\ keeper'[m].at = "join"
  BY <1>0, <1>1, <1>4 DEF Becomes, OthersStay, HandleFollows
<1>7. HandleFollows' /\ ~FilesAreOut /\ ~FilesAreOut'
  BY <1>0, <1>1, <1>2, <1>3, <1>6 DEF HandleFollows, Restores, FilesAreOut
<1>8. ASSUME ~broken PROVE Sound'
  <2>1. Sound /\ LogHolds
    BY <1>8 DEF EInv, Sound
  <2>2. /\ \A n \in Keepers : keeper'[n].cmd # "none" => n = m
        /\ \A n \in Keepers : n # m =>
             RestoreHolds(n)' /\ BackupHolds(n)' /\ ShrinkHolds(n)'
        /\ backup.state = "whole"
    BY <1>0, <1>4, <2>1, OthersHoldInRestore DEF Becomes
  <2>3. LogHolds'
    BY <1>0, <1>7, <2>1, LogStays
  <2>4. BackupIsWhole'
    BY <1>0, <2>1 DEF Sound, BackupIsWhole, AsWhenLocked
  <2>5. RestoreHolds(m)' /\ BackupHolds(m)' /\ ShrinkHolds(m)'
    BY <1>0, <1>6, <2>2 DEF RestoreHolds, BackupHolds, ShrinkHolds, Step
  <2> QED BY <2>2, <2>3, <2>4, <2>5 DEF Sound
<1> QED BY <1>0, <1>4, <1>5, <1>7, <1>8 DEF EInv

LEMMA RestoreJoinStep ==
  ASSUME EInv, NEW m \in Keepers, RestoreJoin(m) PROVE EInv'
<1>0. /\ keeper[m].cmd = "restore" /\ keeper[m].at = "join" /\ thread = "off"
      /\ data' = log /\ flushed' = Len(log) /\ log' = log /\ first' = first
      /\ up' = "closed" /\ GoTo(m, "remove")
      /\ opened' = opened /\ thread' = thread /\ shut' = shut
      /\ backup' = backup /\ written' = written /\ passed' = passed /\ active' = 0 /\ promised' = promised
      /\ broken' = broken
  BY DEF RestoreJoin, Joined, CloseFiles, Step, txnVars
<1>1. EnvTyped /\ HandleFollows
  BY DEF EInv
<1>2. up = "open" /\ ~opened /\ data # NoData
  BY <1>0, <1>1 DEF HandleFollows, Restores
<1>3. log \in Histories /\ Len(log) \in Nat
  BY <1>1, PrefixFacts DEF EnvTyped
<1>4. /\ Becomes(m, "restore", "remove") /\ GateCounted'
      /\ \A n \in Keepers : InPlace(n)'
  <2>1. "remove" \in RestorePlaces \ {"lock"}
    BY DEF RestorePlaces
  <2> QED BY <1>0, <2>1, RestoreMoves
<1>5. EnvTyped'
  <2>1. written + passed + 0 <= MaxWrites
    BY <1>1, Sizes DEF EnvTyped
  <2> QED BY <1>0, <1>1, <1>3, <1>4, <2>1 DEF EnvTyped, Becomes
<1>6. /\ \A n \in Keepers : n # m => keeper'[n] = keeper[n] /\ keeper[n].cmd # "restore"
      /\ keeper'[m].cmd = "restore" /\ keeper'[m].at = "remove"
  BY <1>0, <1>1, <1>4 DEF Becomes, OthersStay, HandleFollows
<1>7. HandleFollows' /\ ~FilesAreOut /\ ~FilesAreOut'
  BY <1>0, <1>1, <1>2, <1>6 DEF HandleFollows, Restores, FilesAreOut
<1>8. ASSUME ~broken PROVE Sound'
  <2>1. Sound /\ LogHolds
    BY <1>8 DEF EInv, Sound
  <2>2. /\ \A n \in Keepers : keeper'[n].cmd # "none" => n = m
        /\ \A n \in Keepers : n # m =>
             RestoreHolds(n)' /\ BackupHolds(n)' /\ ShrinkHolds(n)'
        /\ backup.state = "whole"
    BY <1>0, <1>4, <2>1, OthersHoldInRestore DEF Becomes
  <2>3. LogHolds'
    BY <1>0, <1>1, <1>2, <1>7, <2>1, LogReached
  <2>4. BackupIsWhole'
    BY <1>0, <2>1 DEF Sound, BackupIsWhole, AsWhenLocked
  <2>5. RestoreHolds(m)' /\ BackupHolds(m)' /\ ShrinkHolds(m)'
    BY <1>0, <1>6, <2>2 DEF RestoreHolds, BackupHolds, ShrinkHolds, Step
  <2> QED BY <2>2, <2>3, <2>4, <2>5 DEF Sound
<1> QED BY <1>0, <1>4, <1>5, <1>7, <1>8 DEF EInv

LEMMA RestoreRemoveStep ==
  ASSUME EInv, NEW m \in Keepers, RestoreRemove(m) PROVE EInv'
<1>1. EnvTyped /\ HandleFollows /\ keeper[m].cmd = "restore" /\ keeper[m].at = "remove"
  BY DEF EInv, RestoreRemove, Step
<1>2. data = log /\ up = "closed" /\ ~opened /\ thread = "off"
  BY <1>1 DEF HandleFollows, Restores
<1>3. data # NoData
  BY <1>1, <1>2, NoDataIsNoHistory DEF EnvTyped
<1>0. /\ data' = NoData /\ log' = <<>> /\ flushed' = 0 /\ first' = 1
      /\ GoTo(m, "extract") /\ up' = up /\ opened' = opened
      /\ thread' = thread /\ shut' = shut
      /\ backup' = backup /\ written' = written /\ passed' = passed /\ active' = active /\ promised' = promised
      /\ broken' = broken
  BY <1>3 DEF RestoreRemove, Removed, txnVars
<1>4. /\ Becomes(m, "restore", "extract") /\ GateCounted'
      /\ \A n \in Keepers : InPlace(n)'
  <2>1. "extract" \in RestorePlaces \ {"lock"}
    BY DEF RestorePlaces
  <2> QED BY <1>0, <1>1, <2>1, RestoreMoves
<1>5. EnvTyped'
  <2>1. <<>> \in Histories /\ 0 \in 0 .. Len(<<>>)
    BY <1>1, PrefixFacts DEF EnvTyped
  <2>2. log' \in Histories /\ flushed' \in 0 .. Len(log') /\ first' \in Nat \ {0}
        /\ data' \in Histories \cup {NoData}
    BY <1>0, <2>1
  <2> QED BY <1>0, <1>1, <1>4, <2>2 DEF EnvTyped, Becomes
<1>6. /\ \A n \in Keepers : n # m => keeper'[n] = keeper[n] /\ keeper[n].cmd # "restore"
      /\ keeper'[m].cmd = "restore" /\ keeper'[m].at = "extract"
  BY <1>1, <1>4 DEF Becomes, OthersStay, HandleFollows
<1>7. HandleFollows' /\ FilesAreOut'
  BY <1>0, <1>1, <1>2, <1>6 DEF HandleFollows, Restores, FilesAreOut
<1>8. ASSUME ~broken PROVE Sound'
  <2>1. Sound
    BY <1>8 DEF EInv
  <2>2. /\ \A n \in Keepers : keeper'[n].cmd # "none" => n = m
        /\ \A n \in Keepers : n # m =>
             RestoreHolds(n)' /\ BackupHolds(n)' /\ ShrinkHolds(n)'
        /\ backup.state = "whole"
    BY <1>1, <1>4, <2>1, OthersHoldInRestore DEF Becomes
  <2>3. LogHolds'
    BY <1>0, <1>7 DEF LogHolds
  <2>4. BackupIsWhole'
    BY <1>0, <2>1 DEF Sound, BackupIsWhole, AsWhenLocked
  <2>5. RestoreHolds(m)' /\ BackupHolds(m)' /\ ShrinkHolds(m)'
    BY <1>0, <1>6, <2>2 DEF RestoreHolds, BackupHolds, ShrinkHolds, Step
  <2> QED BY <2>2, <2>3, <2>4, <2>5 DEF Sound
<1> QED BY <1>0, <1>4, <1>5, <1>7, <1>8 DEF EInv

LEMMA RestoreExtractStep ==
  ASSUME EInv, NEW m \in Keepers, RestoreExtract(m) PROVE EInv'
<1>1. EnvTyped /\ HandleFollows /\ backup \in Backups
  BY DEF EInv, EnvTyped
<1>0. /\ keeper[m].cmd = "restore" /\ keeper[m].at = "extract"
      /\ data' = backup.data
      /\ log' = (IF Len(log) > Len(backup.log) THEN log ELSE backup.log)
      /\ flushed' = Len(log') /\ first' = backup.first
      /\ GoTo(m, "open") /\ up' = up /\ opened' = opened
      /\ thread' = thread /\ shut' = shut
      /\ backup' = backup /\ written' = written /\ passed' = passed /\ active' = active /\ promised' = promised
      /\ broken' = broken
  BY DEF RestoreExtract, Step, txnVars
<1>2. up = "closed" /\ ~opened /\ thread = "off"
  BY <1>0, <1>1 DEF HandleFollows, Restores
<1>3. /\ backup.data \in Histories \cup {NoData} /\ backup.log \in Histories
      /\ backup.first \in Nat \ {0} /\ log \in Histories
  BY <1>1 DEF EnvTyped, Backups
<1>4. /\ Becomes(m, "restore", "open") /\ GateCounted'
      /\ \A n \in Keepers : InPlace(n)'
  <2>1. "open" \in RestorePlaces \ {"lock"}
    BY DEF RestorePlaces
  <2> QED BY <1>0, <1>1, <2>1, RestoreMoves
<1>5. EnvTyped'
  <2>1. log' \in Histories
    BY <1>0, <1>3
  <2>2. Len(log') \in Nat
    BY <2>1, PrefixFacts
  <2>3. flushed' \in 0 .. Len(log')
    BY <1>0, <2>2
  <2> QED BY <1>0, <1>1, <1>3, <1>4, <2>1, <2>3 DEF EnvTyped, Becomes
<1>6. /\ \A n \in Keepers : n # m => keeper'[n] = keeper[n] /\ keeper[n].cmd # "restore"
      /\ keeper'[m].cmd = "restore" /\ keeper'[m].at = "open"
  BY <1>0, <1>1, <1>4 DEF Becomes, OthersStay, HandleFollows
<1>7. HandleFollows' /\ FilesAreOut' /\ FilesAreOut
  BY <1>0, <1>1, <1>2, <1>6 DEF HandleFollows, Restores, FilesAreOut
<1>8. ASSUME ~broken PROVE Sound'
  <2>1. Sound /\ LogHolds
    BY <1>8 DEF EInv, Sound
  <2>2. /\ \A n \in Keepers : keeper'[n].cmd # "none" => n = m
        /\ \A n \in Keepers : n # m =>
             RestoreHolds(n)' /\ BackupHolds(n)' /\ ShrinkHolds(n)'
        /\ backup.state = "whole"
    BY <1>0, <1>4, <2>1, OthersHoldInRestore DEF Becomes
  <2>3. log = <<>>
    BY <1>0, <2>1 DEF Sound, RestoreHolds, LogHolds
  <2>4. log' = backup.log
    <3>1. Len(log) = 0 /\ Len(backup.log) \in Nat
      BY <1>3, <2>3, PrefixFacts
    <3> QED BY <1>0, <3>1
  <2>5. backup.data # NoData /\ backup.first <= Len(backup.data) + 1
    BY <2>1, <2>2 DEF Sound, BackupIsWhole
  <2>6. LogHolds'
    BY <1>0, <1>7, <2>5 DEF LogHolds
  <2>7. BackupIsWhole'
    BY <1>0, <2>1 DEF Sound, BackupIsWhole, AsWhenLocked
  <2>8. RestoreHolds(m)' /\ BackupHolds(m)' /\ ShrinkHolds(m)'
    BY <1>0, <1>6, <2>2, <2>4 DEF RestoreHolds, BackupHolds, ShrinkHolds, Step
  <2> QED BY <2>2, <2>6, <2>7, <2>8 DEF Sound
<1> QED BY <1>0, <1>4, <1>5, <1>7, <1>8 DEF EInv

LEMMA RestoreOpenStep ==
  ASSUME EInv, NEW m \in Keepers, RestoreOpen(m)
  PROVE  EInv' /\ (~broken => AsWhenLocked(log'))
<1>1. /\ EnvTyped /\ HandleFollows
      /\ keeper[m].cmd = "restore" /\ keeper[m].at = "open"
      /\ data \in Histories \cup {NoData} /\ log \in Histories
  BY DEF EInv, RestoreOpen, Step, EnvTyped
<1>2. up = "closed" /\ ~opened /\ thread = "off"
  BY <1>1 DEF HandleFollows, Restores
<1>0. /\ OpenFiles /\ promised' = log' /\ GoTo(m, "unlock") /\ shut' = shut
      /\ backup' = backup /\ written' = written /\ passed' = passed /\ active' = active /\ broken' = broken
  BY <1>2 DEF RestoreOpen, txnVars
<1>3. /\ data' \in Histories /\ data' # NoData /\ log' = data'
      /\ data' = Recovered(data, log)
      /\ flushed' = Len(data') /\ flushed' \in 0 .. Len(log')
      /\ first' \in Nat \ {0}
      /\ up' = "open" /\ opened' = TRUE /\ thread' = "asleep"
  BY <1>0, <1>1, Opened
<1>4. /\ Becomes(m, "restore", "unlock") /\ GateCounted'
      /\ \A n \in Keepers : InPlace(n)'
  <2>1. "unlock" \in RestorePlaces \ {"lock"}
    BY DEF RestorePlaces
  <2> QED BY <1>0, <1>1, <2>1, RestoreMoves
<1>5. EnvTyped'
  <2>1. log' \in Histories /\ promised' \in Histories
    BY <1>0, <1>3
  <2> QED BY <1>0, <1>1, <1>3, <1>4, <2>1 DEF EnvTyped, Becomes
<1>6. /\ \A n \in Keepers : n # m => keeper'[n] = keeper[n] /\ keeper[n].cmd # "restore"
      /\ keeper'[m].cmd = "restore" /\ keeper'[m].at = "unlock"
  BY <1>1, <1>4 DEF Becomes, OthersStay, HandleFollows
<1>7. HandleFollows' /\ ~FilesAreOut'
  BY <1>1, <1>2, <1>3, <1>6 DEF HandleFollows, Restores, FilesAreOut
<1>8. ASSUME ~broken PROVE Sound' /\ AsWhenLocked(log')
  <2>1. Sound
    BY <1>8 DEF EInv
  <2>2. /\ \A n \in Keepers : keeper'[n].cmd # "none" => n = m
        /\ \A n \in Keepers : n # m =>
             RestoreHolds(n)' /\ BackupHolds(n)' /\ ShrinkHolds(n)'
        /\ backup.state = "whole"
    BY <1>1, <1>4, <2>1, OthersHoldInRestore DEF Becomes
  <2>3. /\ data = backup.data /\ log = backup.log /\ first = backup.first
        /\ data # NoData /\ first <= Len(data) + 1
        /\ AsWhenLocked(Recovered(data, log))
    BY <1>1, <2>1, <2>2 DEF Sound, RestoreHolds, BackupIsWhole
  <2>4. first' = first
    BY <1>0, <2>3 DEF OpenFiles
  <2>5. Len(data) <= Len(data') /\ Len(data') \in Nat /\ Len(data) \in Nat
        /\ Prefixes!IsPrefix(data', data')
    BY <1>1, <1>3, <2>3, RecoveredFacts, PrefixFacts
  <2>6. first \in Nat
    BY <1>1 DEF EnvTyped
  <2>7. LogHolds'
    <3>1. first' <= Len(data') + 1
      BY <2>3, <2>4, <2>5, <2>6
    <3>2. Len(data') <= flushed' /\ Prefixes!IsPrefix(data', log')
      BY <1>3, <2>5
    <3>3. Len(promised') <= flushed' /\ Prefixes!IsPrefix(promised', log')
      BY <1>0, <1>3, <2>5
    <3> QED BY <1>3, <3>1, <3>2, <3>3 DEF LogHolds
  <2>8. BackupIsWhole'
    BY <1>0, <2>1 DEF Sound, BackupIsWhole, AsWhenLocked
  <2>9. RestoreHolds(m)' /\ BackupHolds(m)' /\ ShrinkHolds(m)'
    BY <1>0, <1>6, <2>2 DEF RestoreHolds, BackupHolds, ShrinkHolds, Step
  <2> QED BY <1>3, <2>2, <2>3, <2>7, <2>8, <2>9 DEF Sound
<1> QED BY <1>0, <1>4, <1>5, <1>7, <1>8 DEF EInv

LEMMA OthersHoldInShrink ==
  ASSUME Sound, NEW m \in Keepers, keeper[m].cmd = "shrink", OthersStay(m),
         keeper'[m].cmd \in {"shrink", "none"},
         backup' = backup, log' = log, data' = data, flushed' = flushed,
         passed' = passed, active' = active
  PROVE  /\ BackupIsWhole' /\ ~FilesAreOut
         /\ RestoreHolds(m)' /\ BackupHolds(m)'
         /\ \A n \in Keepers : n # m =>
              RestoreHolds(n)' /\ BackupHolds(n)' /\ ShrinkHolds(n)'
<1>1. \A n \in Keepers : keeper[n].cmd # "restore"
  BY DEF Sound, RestoreHolds
<1>2. \A n \in Keepers : n # m => keeper'[n] = keeper[n]
  BY DEF OthersStay
<1>3. BackupIsWhole' /\ ~FilesAreOut
  BY <1>1 DEF Sound, BackupIsWhole, AsWhenLocked, FilesAreOut, Restores
<1>4. \A n \in Keepers : RestoreHolds(n)'
  BY <1>1, <1>2 DEF RestoreHolds
<1>5. \A n \in Keepers : keeper'[n].cmd = "backup" => keeper[n].cmd = "backup"
  BY <1>2
<1>6. BackupHolds(m)'
  BY DEF BackupHolds
<1>7. ASSUME NEW n \in Keepers, n # m PROVE BackupHolds(n)' /\ ShrinkHolds(n)'
  BY <1>2, <1>5, <1>7 DEF Sound, BackupHolds, OnlyLate, ShrinkHolds, Step
<1> QED BY <1>3, <1>4, <1>6, <1>7

\* The files of the log are numbered from 1, and those up to Unneeded have only
\* what the database files have.
LEMMA LogFiles ==
  ASSUME EnvTyped
  PROVE  /\ Len(data) \in Nat /\ LogFile(first) \in Nat \ {0}
         /\ Unneeded \in Nat /\ Unneeded * LogSize <= Len(data)
<1>1. Len(data) \in Nat
  <2>1. data \in Histories => Len(data) \in Nat
    BY PrefixFacts
  <2>2. data = NoData => Len(data) \in Nat
    BY DEF NoData
  <2> QED BY <2>1, <2>2 DEF EnvTyped
<1>2. PICK n \in Nat : n = Len(data)
  BY <1>1
<1>3. PICK f \in Nat : f = first - 1
  BY DEF EnvTyped
<1>4. PICK L \in Nat \ {0} : L = LogSize
  BY Sizes
<1>5. n \div L \in Nat /\ (n \div L) * L <= n /\ f \div L \in Nat
  OBVIOUS
<1>6. n + 1 - 1 = n
  OBVIOUS
<1>7. Unneeded = n \div L
  <2>1. Unneeded = ((n + 1 - 1) \div L) + 1 - 1
    BY <1>2, <1>4 DEF Unneeded, LogFile
  <2> QED BY <1>5, <1>6, <2>1
<1>8. LogFile(first) = (f \div L) + 1
  BY <1>3, <1>4 DEF LogFile
<1> QED BY <1>1, <1>2, <1>4, <1>5, <1>7, <1>8

LEMMA ShrinkListStep ==
  ASSUME EInv, NEW m \in Keepers, ShrinkList(m) PROVE EInv'
<1>0. /\ keeper[m].cmd = "shrink" /\ keeper[m].at = "list"
      /\ \/ /\ up = "open" /\ LogFile(first) <= Unneeded
            /\ keeper' = [keeper EXCEPT ![m] =
                 [@ EXCEPT !.at = "removeLog", !.logs = LogFile(first),
                           !.last = Unneeded]]
         \/ EndOrder(m)
      /\ data' = data /\ flushed' = flushed /\ log' = log /\ first' = first
      /\ up' = up /\ opened' = opened /\ thread' = thread /\ shut' = shut
      /\ backup' = backup /\ written' = written /\ passed' = passed /\ active' = active /\ promised' = promised
      /\ broken' = broken
  BY DEF ShrinkList, Step, filesVars, txnVars
<1>1. /\ EnvTyped /\ GateCounted /\ HandleFollows
      /\ first \in Nat \ {0} /\ backup \in Backups
  BY DEF EInv, EnvTyped
<1>2. /\ Len(data) \in Nat /\ LogFile(first) \in Nat \ {0}
      /\ Unneeded \in Nat /\ Unneeded * LogSize <= Len(data)
  BY <1>1, LogFiles
<1>3. PICK cmd \in {"shrink", "none"}, at \in {"removeLog", "idle"} :
        /\ Becomes(m, cmd, at) /\ InPlace(m)'
        /\ at = "removeLog" =>
             /\ up = "open" /\ keeper'[m].last = Unneeded
             /\ keeper'[m].logs \in 1 .. Unneeded
  <2>1. CASE EndOrder(m)
    <3>1. Becomes(m, "none", "idle") /\ keeper'[m] = Resting0
      BY <1>1, <2>1, EndsOrder
    <3>2. InPlace(m)'
      BY <3>1, RestingIsAnOrder DEF InPlace
    <3> QED BY <3>1, <3>2
  <2>2. CASE /\ up = "open" /\ LogFile(first) <= Unneeded
             /\ keeper' = [keeper EXCEPT ![m] =
                  [@ EXCEPT !.at = "removeLog", !.logs = LogFile(first),
                            !.last = Unneeded]]
    <3>1. keeper \in [Keepers -> Orders] /\ keeper[m] \in Orders
      BY <1>1, Fields DEF EnvTyped
    <3>2. PICK x : x = [keeper[m] EXCEPT !.at = "removeLog", !.logs = LogFile(first),
                                         !.last = Unneeded]
      OBVIOUS
    <3>3. /\ x \in Orders /\ x.cmd = keeper[m].cmd /\ x.at = "removeLog"
          /\ x.logs = LogFile(first) /\ x.last = Unneeded
      BY <1>2, <3>1, <3>2 DEF Orders, ShrinkPlaces
    <3>4. keeper'[m] = x /\ keeper' \in [Keepers -> Orders] /\ OthersStay(m)
      BY <2>2, <3>1, <3>2, <3>3 DEF OthersStay
    <3>5. Becomes(m, "shrink", "removeLog")
      BY <1>0, <3>3, <3>4 DEF Becomes
    <3>6. InPlace(m)'
      BY <3>5 DEF Becomes, InPlace, ShrinkPlaces
    <3>7. LogFile(first) \in 1 .. Unneeded
      BY <1>2, <2>2
    <3> QED BY <2>2, <3>3, <3>4, <3>5, <3>6, <3>7
  <2> QED BY <1>0, <2>1, <2>2
<1>4. /\ EnvTyped' /\ HandleFollows' /\ (FilesAreOut' <=> FilesAreOut)
      /\ \A n \in Keepers : InPlace(n)'
  <2>1. cmd \in {keeper[m].cmd, "none"} /\ cmd # "restore" /\ keeper[m].cmd # "none"
    BY <1>0
  <2> QED BY <1>0, <1>1, <1>3, <2>1, ThreadStep
<1>5. GateCounted'
  <2>1. OthersStay(m) /\ (Inside(m)' <=> Inside(m))
    BY <1>0, <1>3 DEF Inside, Becomes
  <2> QED BY <1>0, <1>1, <2>1, GateStaysAt
<1>6. ASSUME ~broken PROVE Sound'
  <2>1. Sound /\ LogHolds
    BY <1>6 DEF EInv, Sound
  <2>2. OthersStay(m) /\ keeper'[m].cmd \in {"shrink", "none"} /\ keeper'[m].at = at
    BY <1>3 DEF Becomes
  <2>3. /\ BackupIsWhole' /\ RestoreHolds(m)' /\ BackupHolds(m)'
        /\ \A n \in Keepers : n # m =>
             RestoreHolds(n)' /\ BackupHolds(n)' /\ ShrinkHolds(n)'
    BY <1>0, <2>1, <2>2, OthersHoldInShrink
  <2>4. LogHolds'
    BY <1>0, <1>4, <2>1, LogStays
  <2>5. ShrinkHolds(m)'
    <3>1. CASE at = "removeLog"
      <4>1. /\ data' # NoData /\ keeper'[m].logs \in 1 .. keeper'[m].last
            /\ keeper'[m].last = Unneeded
        BY <1>0, <1>1, <1>3, <3>1 DEF HandleFollows
      <4>2. keeper'[m].last * LogSize <= Len(data')
        BY <1>0, <1>2, <4>1
      <4> QED BY <4>1, <4>2 DEF ShrinkHolds
    <3>2. CASE at = "idle"
      BY <2>2, <3>2 DEF ShrinkHolds, Step
    <3> QED BY <3>1, <3>2
  <2> QED BY <2>3, <2>4, <2>5 DEF Sound
<1> QED BY <1>0, <1>4, <1>5, <1>6 DEF EInv

LEMMA ShrinkRemoveStep ==
  ASSUME EInv, NEW m \in Keepers, ShrinkRemove(m) PROVE EInv'
<1> DEFINE f == keeper[m].logs
<1>0. /\ keeper[m].cmd = "shrink" /\ keeper[m].at = "removeLog"
      /\ \/ first' = first /\ EndOrder(m)
         \/ /\ first' = (IF f * LogSize < Len(log) THEN f * LogSize + 1
                         ELSE Len(log) + 1)
            /\ \/ EndOrder(m)
               \/ /\ f # keeper[m].last
                  /\ keeper' = [keeper EXCEPT ![m].logs = f + 1]
      /\ data' = data /\ flushed' = flushed /\ log' = log
      /\ up' = up /\ opened' = opened /\ thread' = thread /\ shut' = shut
      /\ backup' = backup /\ written' = written /\ passed' = passed /\ active' = active /\ promised' = promised
      /\ broken' = broken
  BY DEF ShrinkRemove, Step, txnVars
<1>1. /\ EnvTyped /\ GateCounted /\ HandleFollows
      /\ first \in Nat \ {0} /\ backup \in Backups
      /\ f \in Nat /\ keeper[m].last \in Nat
      /\ data \in Histories \cup {NoData} /\ log \in Histories
  BY Fields DEF EInv, EnvTyped
<1>2. PICK n \in Nat : n = Len(log)
  BY <1>1, PrefixFacts
<1>3. PICK x \in Nat : x = f * LogSize
  BY <1>1, Sizes
<1>4. \/ first' = first
      \/ first' = x + 1 /\ x < n
      \/ first' = n + 1 /\ n <= x
  BY <1>0, <1>2, <1>3
<1>5. first' \in Nat \ {0}
  BY <1>1, <1>4
<1>6. PICK cmd \in {"shrink", "none"}, at \in {"removeLog", "idle"} :
        /\ Becomes(m, cmd, at) /\ InPlace(m)'
        /\ at = "removeLog" =>
             /\ keeper'[m].last = keeper[m].last
             /\ keeper'[m].logs = f + 1 /\ f # keeper[m].last
  <2>1. CASE EndOrder(m)
    <3>1. Becomes(m, "none", "idle") /\ keeper'[m] = Resting0
      BY <1>1, <2>1, EndsOrder
    <3>2. InPlace(m)'
      BY <3>1, RestingIsAnOrder DEF InPlace
    <3> QED BY <3>1, <3>2
  <2>2. CASE f # keeper[m].last /\ keeper' = [keeper EXCEPT ![m].logs = f + 1]
    <3>1. keeper \in [Keepers -> Orders] /\ keeper[m] \in Orders
      BY <1>1, Fields DEF EnvTyped
    <3>2. PICK y : y = [keeper[m] EXCEPT !.logs = f + 1]
      OBVIOUS
    <3>3. /\ y \in Orders /\ y.cmd = keeper[m].cmd /\ y.at = keeper[m].at
          /\ y.logs = f + 1 /\ y.last = keeper[m].last
      BY <1>1, <3>1, <3>2 DEF Orders
    <3>4. keeper'[m] = y /\ keeper' \in [Keepers -> Orders] /\ OthersStay(m)
      BY <2>2, <3>1, <3>2, <3>3 DEF OthersStay
    <3>5. Becomes(m, "shrink", "removeLog")
      BY <1>0, <3>3, <3>4 DEF Becomes
    <3>6. InPlace(m)'
      BY <3>5 DEF Becomes, InPlace, ShrinkPlaces
    <3> QED BY <2>2, <3>3, <3>4, <3>5, <3>6
  <2> QED BY <1>0, <2>1, <2>2
<1>7. /\ EnvTyped' /\ HandleFollows' /\ (FilesAreOut' <=> FilesAreOut)
      /\ \A k \in Keepers : InPlace(k)'
  <2>1. cmd \in {keeper[m].cmd, "none"} /\ cmd # "restore" /\ keeper[m].cmd # "none"
    BY <1>0
  <2>2. backup' \in Backups
    BY <1>0, <1>1
  <2> QED BY <1>0, <1>5, <1>6, <2>1, <2>2, ThreadStep
<1>8. GateCounted'
  <2>1. OthersStay(m) /\ (Inside(m)' <=> Inside(m))
    BY <1>0, <1>6 DEF Inside, Becomes
  <2> QED BY <1>0, <1>1, <2>1, GateStaysAt
<1>9. ASSUME ~broken PROVE Sound'
  <2>1. Sound /\ LogHolds /\ ShrinkHolds(m)
    BY <1>9 DEF EInv, Sound
  <2>2. OthersStay(m) /\ keeper'[m].cmd \in {"shrink", "none"} /\ keeper'[m].at = at
    BY <1>6 DEF Becomes
  <2>3. /\ BackupIsWhole' /\ ~FilesAreOut /\ RestoreHolds(m)' /\ BackupHolds(m)'
        /\ \A k \in Keepers : k # m =>
             RestoreHolds(k)' /\ BackupHolds(k)' /\ ShrinkHolds(k)'
    BY <1>0, <2>1, <2>2, OthersHoldInShrink
  <2>4. /\ data # NoData /\ f \in 1 .. keeper[m].last
        /\ keeper[m].last * LogSize <= Len(data)
    BY <1>0, <2>1 DEF ShrinkHolds, Step
  <2>5. PICK d \in Nat : d = Len(data)
    BY <1>1, <2>4, PrefixFacts
  <2>6. /\ d <= n /\ first <= d + 1
    <3>1. Prefixes!IsPrefix(data, log) /\ first <= Len(data) + 1
      BY <2>1, <2>3, <2>4 DEF LogHolds
    <3> QED BY <1>1, <1>2, <2>4, <2>5, <3>1, PrefixFacts
  <2>7. x <= d
    <3>1. PICK l \in Nat, L \in Nat \ {0} : l = keeper[m].last /\ L = LogSize
      BY <1>1, Sizes
    <3>2. PICK g \in Nat : g = f
      BY <1>1
    <3>3. g <= l => g * L <= l * L
      OBVIOUS
    <3>4. x = g * L /\ l * L <= d /\ g <= l
      BY <1>3, <2>4, <2>5, <3>1, <3>2
    <3>5. g * L \in Nat /\ l * L \in Nat
      OBVIOUS
    <3> QED BY <3>3, <3>4, <3>5
  <2>8. LogHolds'
    <3>1. first' <= d + 1
      BY <1>1, <1>4, <2>6, <2>7
    <3> QED BY <1>0, <1>7, <2>1, <2>3, <2>4, <2>5, <3>1 DEF LogHolds
  <2>9. ShrinkHolds(m)'
    <3>1. CASE at = "removeLog"
      <4>1. keeper'[m].last = keeper[m].last /\ keeper'[m].logs = f + 1
            /\ f # keeper[m].last
        BY <1>6, <3>1
      <4>2. f + 1 \in 1 .. keeper[m].last
        BY <1>1, <2>4, <4>1
      <4> QED BY <1>0, <2>4, <4>1, <4>2 DEF ShrinkHolds
    <3>2. CASE at = "idle"
      BY <2>2, <3>2 DEF ShrinkHolds, Step
    <3> QED BY <3>1, <3>2
  <2> QED BY <2>3, <2>8, <2>9 DEF Sound
<1> QED BY <1>0, <1>7, <1>8, <1>9 DEF EInv

LEMMA GiveStep ==
  ASSUME EInv, NEW m \in Keepers, GiveCommand(m) PROVE EInv'
<1>0. PICK cmd \in {"backup", "restore", "shrink"}, at \in {"lock", "list"} :
        /\ up # "down" /\ keeper[m] = Resting0
        /\ cmd = "restore" => backup.state # "none" /\ ~Running({"restore"})
        /\ at = (IF cmd = "shrink" THEN "list" ELSE "lock")
        /\ keeper' = [keeper EXCEPT ![m] = [@ EXCEPT !.cmd = cmd, !.at = at]]
        /\ broken' = (\/ broken
                      \/ Running({"restore"})
                      \/ /\ cmd = "restore"
                         /\ Commanded # {} \/ backup.state # "whole"
                      \/ cmd = "backup" /\ Running({"backup"}))
        /\ data' = data /\ flushed' = flushed /\ log' = log /\ first' = first
        /\ up' = up /\ opened' = opened /\ thread' = thread /\ shut' = shut
        /\ backup' = backup /\ written' = written /\ passed' = passed /\ active' = active /\ promised' = promised
  BY DEF GiveCommand, filesVars, txnVars
<1>1. /\ EnvTyped /\ GateCounted /\ HandleFollows
      /\ \A n \in Keepers : InPlace(n)
  BY DEF EInv
<1>2. Becomes(m, cmd, at)
  <2>1. keeper \in [Keepers -> Orders] /\ keeper[m] \in Orders
    BY <1>1, Fields DEF EnvTyped
  <2>2. PICK x : x = [keeper[m] EXCEPT !.cmd = cmd, !.at = at]
    OBVIOUS
  <2>3. x \in Orders /\ x.cmd = cmd /\ x.at = at
    BY <2>1, <2>2 DEF Orders, BackupPlaces, ShrinkPlaces
  <2> QED BY <1>0, <2>1, <2>2, <2>3 DEF Becomes, OthersStay
<1>3. /\ \A n \in Keepers : n # m => keeper'[n] = keeper[n]
      /\ keeper'[m].cmd = cmd /\ keeper'[m].at = at
      /\ keeper[m].cmd = "none" /\ keeper[m].at = "idle"
  BY <1>0, <1>2, RestingIsAnOrder DEF Becomes, OthersStay
<1>4. EnvTyped'
  BY <1>0, <1>1, <1>2 DEF EnvTyped, Becomes
<1>5. GateCounted'
  <2>1. OthersStay(m) /\ (Inside(m)' <=> Inside(m))
    BY <1>0, <1>2, <1>3 DEF Inside, Becomes
  <2> QED BY <1>0, <1>1, <2>1, GateStaysAt
<1>6. \A n \in Keepers : InPlace(n)'
  BY <1>0, <1>1, <1>3 DEF InPlace, BackupPlaces, RestorePlaces, ShrinkPlaces
<1>7. FilesAreOut' <=> FilesAreOut
  BY <1>0, <1>3 DEF FilesAreOut, Restores
<1>8. \A n \in Keepers : cmd = "restore" => keeper[n].cmd # "restore"
  BY <1>0 DEF Running
<1>9. HandleFollows'
  <2>1. cmd = "restore" => up = "open" /\ opened
    BY <1>0, <1>1, <1>8 DEF HandleFollows, Restores
  <2> QED BY <1>0, <1>1, <1>3, <1>8, <2>1 DEF HandleFollows, Restores
<1>10. ASSUME ~broken' PROVE Sound'
  <2>1. /\ ~broken /\ \A n \in Keepers : keeper[n].cmd # "restore"
        /\ cmd = "restore" => Commanded = {} /\ backup.state = "whole"
        /\ cmd = "backup" => \A n \in Keepers : keeper[n].cmd # "backup"
    BY <1>0, <1>10 DEF Running
  <2>2. Sound /\ LogHolds
    BY <2>1 DEF EInv, Sound
  <2>3. LogHolds'
    BY <1>0, <1>7, <2>2, LogStays
  <2>4. BackupIsWhole'
    BY <1>0, <2>2 DEF Sound, BackupIsWhole, AsWhenLocked
  <2>5. ASSUME NEW n \in Keepers PROVE RestoreHolds(n)'
    <3>1. CASE keeper'[n].cmd = "restore"
      <4>1. n = m /\ cmd = "restore"
        BY <1>3, <2>1, <3>1
      <4>2. \A k \in Keepers : keeper[k].cmd = "none"
        BY <2>1, <4>1 DEF Commanded
      <4> QED BY <1>0, <1>3, <2>1, <4>1, <4>2 DEF RestoreHolds
    <3>2. CASE keeper'[n].cmd # "restore"
      BY <3>2 DEF RestoreHolds
    <3> QED BY <3>1, <3>2
  <2>6. ASSUME NEW n \in Keepers PROVE BackupHolds(n)'
    <3>1. BackupHolds(n)
      BY <2>2 DEF Sound
    <3>2. CASE n = m
      <4>1. \A k \in Keepers :
              cmd = "backup" /\ keeper'[k].cmd = "backup" => k = m
        BY <1>3, <2>1
      <4>2. keeper'[n].cmd = "backup" => keeper'[n].at = "lock"
        BY <1>0, <1>3, <3>2
      <4> QED BY <1>3, <3>2, <4>1, <4>2 DEF BackupHolds
    <3>3. CASE n # m
      <4>1. keeper'[n] = keeper[n]
        BY <1>3, <3>3
      <4>2. OnlyLate(n) => OnlyLate(n)'
        BY <1>0, <4>1 DEF OnlyLate
      <4>3. keeper[n].cmd = "backup" =>
              \A k \in Keepers : keeper'[k].cmd = "backup" => k = n
        BY <1>3, <2>1, <3>1, <3>3 DEF BackupHolds
      <4> QED BY <1>0, <3>1, <4>1, <4>2, <4>3 DEF BackupHolds
    <3> QED BY <3>2, <3>3
  <2>7. ASSUME NEW n \in Keepers PROVE ShrinkHolds(n)'
    BY <1>0, <1>3, <2>2 DEF Sound, ShrinkHolds, Step
  <2> QED BY <2>3, <2>4, <2>5, <2>6, <2>7 DEF Sound
<1> QED BY <1>0, <1>4, <1>5, <1>6, <1>9, <1>10 DEF EInv

-----------------------------------------------------------------------------
(* The invariant, and what follows.                                        *)

LEMMA EInvStutter == ASSUME EInv, UNCHANGED envVars PROVE EInv'
<1>0. /\ up' = up /\ opened' = opened /\ thread' = thread /\ data' = data
      /\ log' = log /\ flushed' = flushed /\ first' = first
      /\ keeper' = keeper /\ shut' = shut /\ backup' = backup
      /\ written' = written /\ passed' = passed /\ active' = active /\ promised' = promised /\ broken' = broken
  BY DEF envVars, filesVars, txnVars
<1>1. EnvTyped' /\ GateCounted' /\ HandleFollows'
  BY <1>0, GateStays, ThreadsStay DEF EInv, EnvTyped, HandleFollows, Restores
<1>2. \A m \in Keepers : InPlace(m)'
  BY <1>0, ThreadsStay DEF EInv
<1>3. ASSUME ~broken PROVE Sound'
  <2>1. Sound /\ LogHolds
    BY <1>3 DEF EInv, Sound
  <2>2. LogHolds' /\ BackupIsWhole'
    BY <1>0, <2>1, ThreadsStay, LogStays DEF Sound, BackupIsWhole, AsWhenLocked
  <2>3. ASSUME NEW m \in Keepers
        PROVE  RestoreHolds(m)' /\ BackupHolds(m)' /\ ShrinkHolds(m)'
    BY <1>0, <2>1 DEF Sound, RestoreHolds, BackupHolds, OnlyLate, ShrinkHolds, Step
  <2> QED BY <2>2, <2>3 DEF Sound
<1> QED BY <1>0, <1>1, <1>2, <1>3 DEF EInv

LEMMA KeeperStep ==
  ASSUME EInv, NEW m \in Keepers, KeeperRuns(m) PROVE EInv'
BY LockStep, DrainedStep, UnlockStep, BackupCheckpointStep, BackupListStep,
   BackupDataStep, BackupLogStep, RestoreCloseStep, RestoreJoinStep, RestoreRemoveStep,
   RestoreExtractStep, RestoreOpenStep, ShrinkListStep, ShrinkRemoveStep
   DEF KeeperRuns

LEMMA EInvStep == EInv /\ [EnvNext]_envVars => EInv'
<1> SUFFICES ASSUME EInv, [EnvNext]_envVars PROVE EInv'
  OBVIOUS
<1>1. CASE UNCHANGED envVars
  BY <1>1, EInvStutter
<1>2. CASE StartServer \/ StopServer \/ RecoverOffline \/ Crash
  BY <1>2, StartStep, StopStep, RecoverStep, CrashStep
<1>3. ASSUME NEW sync \in BOOLEAN, CommitWrite(sync) PROVE EInv'
  BY <1>3, CommitStep
<1>4. CASE BeginCheckpoint \/ EndCheckpoint \/ EndThread
  BY <1>4, BeginStep, EndCheckpointStep
<1>5. ASSUME NEW m \in Keepers, GiveCommand(m) \/ KeeperRuns(m) PROVE EInv'
  BY <1>5, GiveStep, KeeperStep
<1>6. CASE PassLock \/ BeginTxn \/ RetryLater \/ EndWithout
  BY <1>6, TxnStep
<1> QED BY <1>1, <1>2, <1>3, <1>4, <1>5, <1>6 DEF EnvNext

\* A restore that opens the files brings back what the backup is of.
LEMMA OnlyOpenUnlocks ==
  ASSUME EInv, EnvNext, NEW m \in Keepers, Step(m, "restore", "open"),
         keeper'[m].at = "unlock"
  PROVE  RestoreOpen(m)
<1>0. keeper \in [Keepers -> Orders] /\ keeper[m].at = "open" /\ keeper[m].cmd = "restore"
  BY DEF EInv, EnvTyped, Step, txnVars
<1>1. keeper'[m] # keeper[m] /\ keeper'[m].at # "idle"
  BY <1>0
<1>2. ASSUME keeper' = keeper PROVE FALSE
  BY <1>1, <1>2
<1>3. CASE StartServer \/ StopServer \/ RecoverOffline
  BY <1>2, <1>3 DEF StartServer, StopServer, RecoverOffline
<1>4. CASE Crash
  <2>1. keeper'[m] = Resting0
    BY <1>4 DEF Crash
  <2> QED BY <1>1, <2>1, RestingIsAnOrder
<1>5. ASSUME NEW sync \in BOOLEAN, CommitWrite(sync) PROVE FALSE
  BY <1>2, <1>5 DEF CommitWrite
<1>6. CASE BeginCheckpoint \/ EndCheckpoint \/ EndThread
  BY <1>2, <1>6 DEF BeginCheckpoint, EndCheckpoint, EndThread
<1>7. ASSUME NEW n \in Keepers, GiveCommand(n) \/ KeeperRuns(n) PROVE RestoreOpen(m)
  <2>1. PICK x : keeper' = [keeper EXCEPT ![n] = x]
    <3>1. GiveCommand(n) => \E x : keeper' = [keeper EXCEPT ![n] = x]
      BY DEF GiveCommand
    <3>2. LockCommits(n) \/ CommitsDrained(n) \/ UnlockCommits(n) =>
            \E x : keeper' = [keeper EXCEPT ![n] = x]
      BY DEF LockCommits, CommitsDrained, UnlockCommits, GoTo, EndOrder
    <3>3. BackupCheckpoint(n) \/ BackupList(n) \/ BackupData(n) =>
            \E x : keeper' = [keeper EXCEPT ![n] = x]
      BY DEF BackupCheckpoint, BackupList, BackupData, GoTo
    <3>4. BackupLog(n) => \E x : keeper' = [keeper EXCEPT ![n] = x]
      BY DEF BackupLog, GoTo
    <3>5. RestoreClose(n) \/ RestoreJoin(n) \/ RestoreRemove(n) =>
            \E x : keeper' = [keeper EXCEPT ![n] = x]
      BY DEF RestoreClose, RestoreJoin, RestoreRemove, GoTo
    <3>6. RestoreExtract(n) \/ RestoreOpen(n) =>
            \E x : keeper' = [keeper EXCEPT ![n] = x]
      BY DEF RestoreExtract, RestoreOpen, GoTo
    <3>7. ShrinkList(n) \/ ShrinkRemove(n) =>
            \E x : keeper' = [keeper EXCEPT ![n] = x]
      BY DEF ShrinkList, ShrinkRemove, EndOrder
    <3> QED BY <1>7, <3>1, <3>2, <3>3, <3>4, <3>5, <3>6, <3>7 DEF KeeperRuns
  <2>2. n = m
    BY <1>0, <1>1, <2>1
  <2>3. ~GiveCommand(m)
    BY <1>0, RestingIsAnOrder DEF GiveCommand
  <2>4. ~LockCommits(m) /\ ~CommitsDrained(m) /\ ~UnlockCommits(m)
    BY <1>0 DEF LockCommits, CommitsDrained, UnlockCommits
  <2>5. ~BackupCheckpoint(m) /\ ~BackupList(m) /\ ~BackupData(m) /\ ~BackupLog(m)
    BY <1>0 DEF BackupCheckpoint, BackupList, BackupData, BackupLog, Step
  <2>6. ~RestoreClose(m) /\ ~RestoreJoin(m) /\ ~RestoreRemove(m) /\ ~RestoreExtract(m)
    BY <1>0 DEF RestoreClose, RestoreJoin, RestoreRemove, RestoreExtract, Step
  <2>7. ~ShrinkList(m) /\ ~ShrinkRemove(m)
    BY <1>0 DEF ShrinkList, ShrinkRemove, Step
  <2> QED BY <1>7, <2>2, <2>3, <2>4, <2>5, <2>6, <2>7 DEF KeeperRuns
<1>8. CASE PassLock \/ BeginTxn \/ RetryLater \/ EndWithout
  BY <1>2, <1>8 DEF PassLock, BeginTxn, RetryLater, EndWithout
<1> QED BY <1>2, <1>3, <1>4, <1>5, <1>6, <1>7, <1>8 DEF EnvNext

LEMMA EInvImplies ==
  EInv => SyncedSurvive /\ LogsReachFiles /\ BackupsAreWhole /\ ClosedWithoutThreads
<1> SUFFICES ASSUME EInv
             PROVE  SyncedSurvive /\ LogsReachFiles /\ BackupsAreWhole
                    /\ ClosedWithoutThreads
  OBVIOUS
<1>1. HandleFollows /\ EnvTyped
  BY DEF EInv
<1>2. SyncedSurvive
  <2>1. ASSUME up = "open", ~broken PROVE Prefixes!IsPrefix(promised, log)
    <3>1. ~FilesAreOut
      BY <1>1, <2>1, FilesOutOnlyClosed
    <3> QED BY <2>1, <3>1 DEF EInv, Sound, LogHolds
  <2> QED BY <2>1 DEF SyncedSurvive
<1>3. LogsReachFiles /\ BackupsAreWhole
  BY DEF EInv, Sound, LogHolds, BackupIsWhole, LogsReachFiles, BackupsAreWhole
<1>4. ClosedWithoutThreads
  BY <1>1 DEF HandleFollows, ClosedWithoutThreads, Restores, EnvTyped
<1> QED BY <1>2, <1>3, <1>4

\* The inductive invariant of the database files: what the log, the files, the
\* backup file and every command hold, unless two commands got in each other's
\* way.
THEOREM EnvironmentInvariance == EnvSpec => []EInv
BY EInvInit, EInvStep, PTL DEF EnvSpec

\* What was committed stays, through crashes, checkpoints, shrinking, backups
\* and restores, for any number of management threads, transactions, retries and
\* crashes and any size of the log files (DB.backup, DB.restore, DB.shrink): a
\* backup holds, and a restore brings back, all that was committed at the lock,
\* and one commit more at most for each transaction that was late for it.
THEOREM CommitsAreKept == EnvSpec => CommitsStay
<1>1. EInv /\ [EnvNext]_envVars =>
        [\A m \in Keepers :
           Step(m, "restore", "open") /\ keeper'[m].at = "unlock" /\ ~broken
             => AsWhenLocked(log')]_envVars
  BY OnlyOpenUnlocks, RestoreOpenStep
<1> QED BY <1>1, EInvImplies, EnvironmentInvariance, PTL
        DEF CommitsStay, RestoreBringsBack, EnvSpec

-----------------------------------------------------------------------------
(* Replication. *)

\* Two announcements that are under way are the same one.
OneAnnouncement ==
  \A t, u \in tasks : t.kind # "hear" /\ u.kind # "hear" => t = u

KnowEachOther == \A a, b \in member : a # b => b \in sites[a]

\* A site that joins: whoever does not know it yet will still be told of it.
JoinHolds(t) ==
  /\ t.about \notin member
  /\ member \subseteq t.list
  /\ t.at \in {"tell", "answer"}
  /\ \A m \in member :
       \/ t.about \in sites[m]
       \/ t.at = "tell" /\ (m = t.site \/ m \in t.left)

HasHeard(m) ==
  /\ master[m] = elected
  /\ \/ subMaster[m] = elected
     \/ \E h \in tasks : h.kind = "hear" /\ h.site = m

\* A new master: whoever has not heard of it will still be told.
ElectHolds(t) ==
  /\ t.site = elected /\ t.about = elected
  /\ t.at \in {"notify", "tell"}
  /\ master[elected] = elected
  /\ t.at = "tell" => subMaster[elected] = elected
  /\ \A m \in member \ {elected} : m \in t.left \/ HasHeard(m)

\* A site that has heard: the one that the new master waits for.
HearHolds(h) ==
  /\ elected # NoSite =>
       \E t \in tasks : /\ t.kind = "elect" /\ t.at = "tell"
                        /\ h.site \in t.list /\ h.about = t.site
  /\ \A t \in tasks : t.kind = "hear" => t = h
  /\ \A t \in tasks : t.kind # "join"

TaskHolds(t) ==
  /\ t.kind = "join" => JoinHolds(t)
  /\ t.kind = "elect" => ElectHolds(t)
  /\ t.kind = "hear" => HearHolds(t)

MasterIsKnown ==
  elected # NoSite /\ (\A t \in tasks : t.kind # "elect") =>
    \A m \in member : master[m] = elected /\ subMaster[m] = elected

Places ==
  /\ elected = NoSite \/ elected \in member
  /\ \A t \in tasks : t.site \in member

RInv ==
  /\ ReplicationTypeOK
  /\ Places
  /\ ~overlapped =>
       /\ OneAnnouncement
       /\ KnowEachOther
       /\ \A t \in tasks : TaskHolds(t)
       /\ MasterIsKnown
-----------------------------------------------------------------------------
LEMMA RInvInit == ReplicationInit => RInv
<1> SUFFICES ASSUME ReplicationInit PROVE RInv
  OBVIOUS
<1> USE ReplicationAssumption
<1>1. ReplicationTypeOK
  <2>1. /\ member = {Founder} /\ elected = Founder /\ tasks = {}
        /\ overlapped = FALSE /\ sites = [s \in Sites |-> {}]
        /\ master = [s \in Sites |-> IF s = Founder THEN Founder ELSE NoSite]
        /\ subMaster = master
    BY DEF ReplicationInit
  <2>2. counts \in [joins : 0 .. MaxJoins, elections : 0 .. MaxElections,
                    stops : 0 .. MaxStops]
    BY DEF ReplicationInit
  <2>3. master[Founder] = Founder
    BY <2>1
  <2>4. master \in [Sites -> Sites \cup {NoSite}]
    BY <2>1
  <2> QED BY <2>1, <2>2, <2>3, <2>4 DEF ReplicationTypeOK
<1>2. Places
  BY DEF ReplicationInit, Places
<1>3. OneAnnouncement /\ KnowEachOther /\ \A t \in tasks : TaskHolds(t)
  BY DEF ReplicationInit, OneAnnouncement, KnowEachOther
<1>4. MasterIsKnown
  BY DEF ReplicationInit, MasterIsKnown
<1> QED BY <1>1, <1>2, <1>3, <1>4 DEF RInv

\* A new announcement, while nothing else is under way or overlapped with it.
LEMMA Announces ==
  ASSUME RInv, NEW task, Announce(task)
  PROVE  ~overlapped' => tasks = {} /\ tasks' = {task} /\ ~overlapped
BY DEF Announce

LEMMA Counts ==
  ASSUME ReplicationTypeOK,
         \/ counts.joins < MaxJoins /\ Count("joins")
         \/ counts.elections < MaxElections /\ Count("elections")
         \/ counts.stops < MaxStops /\ Count("stops")
  PROVE  counts' \in [joins : 0 .. MaxJoins, elections : 0 .. MaxElections,
                      stops : 0 .. MaxStops]
BY ReplicationAssumption DEF ReplicationTypeOK, Count

LEMMA BeginJoinStep ==
  ASSUME RInv, NEW j \in Sites, NEW c \in Sites, BeginJoin(j, c) PROVE RInv'
<1> USE ReplicationAssumption
<1>0. /\ ReplicationTypeOK /\ Places
      /\ member' = member /\ sites' = sites /\ master' = master
      /\ subMaster' = subMaster /\ elected' = elected
      /\ j \notin member /\ c \in member
  BY DEF BeginJoin, RInv
<1>1. PICK t : t = [kind |-> "join", site |-> c, about |-> j, left |-> sites[c],
                    list |-> sites[c] \cup {c}, at |-> "tell"]
  OBVIOUS
<1>2. Announce(t)
  BY <1>1 DEF BeginJoin
<1>3. /\ t.kind = "join" /\ t.site = c /\ t.about = j /\ t.left = sites[c]
      /\ t.list = sites[c] \cup {c} /\ t.at = "tell" /\ t \in Task
  BY <1>0, <1>1 DEF Task, ReplicationTypeOK
<1>4. ReplicationTypeOK'
  <2>1. counts' \in [joins : 0 .. MaxJoins, elections : 0 .. MaxElections,
                      stops : 0 .. MaxStops]
    BY <1>0, Counts DEF BeginJoin
  <2>2. tasks' \subseteq Task /\ overlapped' \in BOOLEAN
    BY <1>0, <1>2, <1>3 DEF Announce, ReplicationTypeOK
  <2> QED BY <1>0, <2>1, <2>2 DEF ReplicationTypeOK
<1>5. Places'
  BY <1>0, <1>2, <1>3 DEF Places, Announce
<1>6. ASSUME ~overlapped'
      PROVE  (OneAnnouncement /\ KnowEachOther
               /\ (\A u \in tasks : TaskHolds(u)) /\ MasterIsKnown)'
  <2>1. tasks = {} /\ tasks' = {t} /\ ~overlapped
    BY <1>2, <1>6, Announces
  <2>2. KnowEachOther /\ MasterIsKnown
    BY <2>1 DEF RInv
  <2>3. OneAnnouncement'
    BY <2>1 DEF OneAnnouncement
  <2>4. KnowEachOther'
    BY <1>0, <2>2 DEF KnowEachOther
  <2>5. MasterIsKnown'
    BY <1>0, <2>1, <2>2 DEF MasterIsKnown
  <2>6. JoinHolds(t)'
    BY <1>0, <1>3, <2>2 DEF JoinHolds, KnowEachOther
  <2>7. TaskHolds(t)'
    BY <1>3, <2>6 DEF TaskHolds
  <2> QED BY <2>1, <2>3, <2>4, <2>5, <2>7
<1> QED BY <1>4, <1>5, <1>6 DEF RInv

\* A join is the only thing that is under way.
LEMMA JoinIsAlone ==
  ASSUME RInv, ~overlapped, NEW t \in tasks, t.kind = "join"
  PROVE  tasks = {t} /\ JoinHolds(t)
<1>1. OneAnnouncement /\ \A w \in tasks : TaskHolds(w)
  BY DEF RInv
<1>2. \A w \in tasks : w.kind # "hear"
  BY <1>1 DEF TaskHolds, HearHolds
<1> QED BY <1>1, <1>2 DEF OneAnnouncement, TaskHolds

LEMMA TellOfSiteStep ==
  ASSUME RInv, NEW t \in tasks, NEW s \in Sites, TellOfSite(t, s) PROVE RInv'
<1> USE ReplicationAssumption
<1>0. /\ ReplicationTypeOK /\ Places /\ t \in Task
      /\ member' = member /\ master' = master /\ overlapped' = overlapped
      /\ subMaster' = subMaster /\ elected' = elected /\ counts' = counts
      /\ t.kind = "join" /\ t.at = "tell" /\ s \in t.left
  BY DEF TellOfSite, RInv, ReplicationTypeOK
<1>1. PICK u : u = [t EXCEPT !.left = @ \ {s}]
  OBVIOUS
<1>2. /\ u.kind = "join" /\ u.site = t.site /\ u.about = t.about
      /\ u.left = t.left \ {s} /\ u.list = t.list /\ u.at = "tell" /\ u \in Task
  BY <1>0, <1>1 DEF Task
<1>3. tasks' = (tasks \ {t}) \cup {u}
  BY <1>1 DEF TellOfSite
<1>4. /\ sites' \in [Sites -> SUBSET Sites]
      /\ \A m \in Sites : sites[m] \subseteq sites'[m]
      /\ s \in member => t.about \in sites'[s]
  BY <1>0 DEF TellOfSite, ReplicationTypeOK, Task
<1>5. ReplicationTypeOK'
  BY <1>0, <1>2, <1>3, <1>4 DEF ReplicationTypeOK
<1>6. Places'
  BY <1>0, <1>2, <1>3 DEF Places
<1>7. ASSUME ~overlapped'
      PROVE  (OneAnnouncement /\ KnowEachOther
               /\ (\A w \in tasks : TaskHolds(w)) /\ MasterIsKnown)'
  <2>1. KnowEachOther /\ MasterIsKnown /\ tasks = {t} /\ JoinHolds(t)
    BY <1>0, <1>7, JoinIsAlone DEF RInv
  <2>2. tasks' = {u}
    BY <1>3, <2>1
  <2>3. OneAnnouncement'
    BY <2>2 DEF OneAnnouncement
  <2>4. KnowEachOther'
    <3>1. member \subseteq Sites
      BY <1>0 DEF ReplicationTypeOK
    <3> QED BY <1>0, <1>4, <2>1, <3>1 DEF KnowEachOther
  <2>5. MasterIsKnown'
    BY <1>0, <2>1 DEF MasterIsKnown
  <2>6. JoinHolds(u)'
    <3>1. member \subseteq Sites
      BY <1>0 DEF ReplicationTypeOK
    <3>2. \A m \in member : t.about \in sites[m] => t.about \in sites'[m]
      BY <1>4, <3>1
    <3> QED BY <1>0, <1>2, <1>4, <2>1, <3>2 DEF JoinHolds
  <2>7. TaskHolds(u)'
    BY <1>2, <2>6 DEF TaskHolds
  <2> QED BY <2>2, <2>3, <2>4, <2>5, <2>7
<1> QED BY <1>5, <1>6, <1>7 DEF RInv

LEMMA AnswerJoinStep ==
  ASSUME RInv, NEW t \in tasks, AnswerJoin(t) PROVE RInv'
<1> USE ReplicationAssumption
<1>0. /\ ReplicationTypeOK /\ Places /\ t \in Task
      /\ member' = member /\ master' = master /\ overlapped' = overlapped
      /\ subMaster' = subMaster /\ elected' = elected /\ counts' = counts
      /\ t.kind = "join" /\ t.at = "tell" /\ t.left = {}
  BY DEF AnswerJoin, RInv, ReplicationTypeOK
<1>1. PICK u : u = [t EXCEPT !.at = "answer"]
  OBVIOUS
<1>2. /\ u.kind = "join" /\ u.site = t.site /\ u.about = t.about
      /\ u.list = t.list /\ u.at = "answer" /\ u \in Task
  BY <1>0, <1>1 DEF Task
<1>3. tasks' = (tasks \ {t}) \cup {u}
  BY <1>1 DEF AnswerJoin
<1>4. /\ sites' \in [Sites -> SUBSET Sites]
      /\ \A m \in Sites : sites[m] \subseteq sites'[m]
      /\ t.about \in sites'[t.site]
  BY <1>0 DEF AnswerJoin, ReplicationTypeOK, Task
<1>5. ReplicationTypeOK'
  BY <1>0, <1>2, <1>3, <1>4 DEF ReplicationTypeOK
<1>6. Places'
  BY <1>0, <1>2, <1>3 DEF Places
<1>7. ASSUME ~overlapped'
      PROVE  (OneAnnouncement /\ KnowEachOther
               /\ (\A w \in tasks : TaskHolds(w)) /\ MasterIsKnown)'
  <2>1. KnowEachOther /\ MasterIsKnown /\ tasks = {t} /\ JoinHolds(t)
    BY <1>0, <1>7, JoinIsAlone DEF RInv
  <2>2. tasks' = {u}
    BY <1>3, <2>1
  <2>3. OneAnnouncement'
    BY <2>2 DEF OneAnnouncement
  <2>4. KnowEachOther'
    <3>1. member \subseteq Sites
      BY <1>0 DEF ReplicationTypeOK
    <3> QED BY <1>0, <1>4, <2>1, <3>1 DEF KnowEachOther
  <2>5. MasterIsKnown'
    BY <1>0, <2>1 DEF MasterIsKnown
  <2>6. JoinHolds(u)'
    <3>1. member \subseteq Sites
      BY <1>0 DEF ReplicationTypeOK
    <3>2. \A m \in member : t.about \in sites[m] => t.about \in sites'[m]
      BY <1>4, <3>1
    <3> QED BY <1>0, <1>2, <1>4, <2>1, <3>2 DEF JoinHolds
  <2>7. TaskHolds(u)'
    BY <1>2, <2>6 DEF TaskHolds
  <2> QED BY <2>2, <2>3, <2>4, <2>5, <2>7
<1> QED BY <1>5, <1>6, <1>7 DEF RInv

LEMMA EndJoinStep ==
  ASSUME RInv, NEW t \in tasks, EndJoin(t) PROVE RInv'
<1> USE ReplicationAssumption
<1>0. /\ ReplicationTypeOK /\ Places /\ t \in Task /\ t.site \in member
      /\ member' = member \cup {t.about} /\ overlapped' = overlapped
      /\ elected' = elected /\ counts' = counts /\ tasks' = tasks \ {t}
      /\ t.kind = "join" /\ t.at = "answer"
  BY DEF EndJoin, RInv, ReplicationTypeOK, Places
<1>1. /\ t.about \in Sites /\ t.list \subseteq Sites /\ t.site \in Sites
      /\ member \subseteq Sites
  BY <1>0 DEF ReplicationTypeOK, Task
<1>2. /\ sites' = [sites EXCEPT ![t.about] = t.list \ {t.about}]
      /\ master' = [master EXCEPT ![t.about] = master[t.site]]
      /\ subMaster' = [subMaster EXCEPT ![t.about] = master[t.site]]
  BY DEF EndJoin
<1>3. /\ sites \in [Sites -> SUBSET Sites]
      /\ master \in [Sites -> Sites \cup {NoSite}]
      /\ subMaster \in [Sites -> Sites \cup {NoSite}]
      /\ \A m \in member : master[m] # NoSite
  BY <1>0 DEF ReplicationTypeOK
<1>4. /\ sites'[t.about] = t.list \ {t.about}
      /\ master'[t.about] = master[t.site] /\ subMaster'[t.about] = master[t.site]
      /\ \A m \in Sites \ {t.about} :
           /\ sites'[m] = sites[m]
           /\ master'[m] = master[m] /\ subMaster'[m] = subMaster[m]
  BY <1>1, <1>2, <1>3
<1>5. ReplicationTypeOK'
  <2>1. sites' \in [Sites -> SUBSET Sites]
    BY <1>1, <1>2, <1>3
  <2>2. /\ master' \in [Sites -> Sites \cup {NoSite}]
        /\ subMaster' \in [Sites -> Sites \cup {NoSite}]
    BY <1>1, <1>2, <1>3
  <2>3. \A m \in member' : master'[m] # NoSite
    BY <1>0, <1>1, <1>3, <1>4
  <2> QED BY <1>0, <1>1, <2>1, <2>2, <2>3 DEF ReplicationTypeOK
<1>6. Places'
  BY <1>0 DEF Places
<1>7. ASSUME ~overlapped'
      PROVE  (OneAnnouncement /\ KnowEachOther
               /\ (\A w \in tasks : TaskHolds(w)) /\ MasterIsKnown)'
  <2>1. KnowEachOther /\ MasterIsKnown /\ tasks = {t} /\ JoinHolds(t)
    BY <1>0, <1>7, JoinIsAlone DEF RInv
  <2>2. tasks' = {}
    BY <1>0, <2>1
  <2>3. OneAnnouncement' /\ (\A w \in tasks : TaskHolds(w))'
    BY <2>2 DEF OneAnnouncement
  <2>4. KnowEachOther'
    BY <1>0, <1>1, <1>4, <2>1 DEF KnowEachOther, JoinHolds
  <2>5. MasterIsKnown'
    BY <1>0, <1>1, <1>4, <2>1 DEF MasterIsKnown
  <2> QED BY <2>3, <2>4, <2>5
<1> QED BY <1>5, <1>6, <1>7 DEF RInv

LEMMA ElectStep ==
  ASSUME RInv, NEW s \in Sites, Elect(s) PROVE RInv'
<1> USE ReplicationAssumption
<1>0. /\ ReplicationTypeOK /\ Places
      /\ member' = member /\ sites' = sites /\ subMaster' = subMaster
      /\ elected' = s /\ s \in member /\ s # NoSite
      /\ master' = [master EXCEPT ![s] = s]
  BY DEF Elect, RInv
<1>1. PICK t : t = [kind |-> "elect", site |-> s, about |-> s, left |-> sites[s],
                    list |-> {}, at |-> "notify"]
  OBVIOUS
<1>2. Announce(t)
  BY <1>1 DEF Elect
<1>3. /\ t.kind = "elect" /\ t.site = s /\ t.about = s /\ t.left = sites[s]
      /\ t.at = "notify" /\ t \in Task
  BY <1>0, <1>1 DEF Task, ReplicationTypeOK
<1>4. /\ master \in [Sites -> Sites \cup {NoSite}] /\ master'[s] = s
      /\ master' \in [Sites -> Sites \cup {NoSite}]
      /\ \A m \in Sites \ {s} : master'[m] = master[m]
  BY <1>0 DEF ReplicationTypeOK
<1>5. ReplicationTypeOK'
  <2>1. counts' \in [joins : 0 .. MaxJoins, elections : 0 .. MaxElections,
                      stops : 0 .. MaxStops]
    BY <1>0, Counts DEF Elect
  <2>2. tasks' \subseteq Task /\ overlapped' \in BOOLEAN
    BY <1>0, <1>2, <1>3 DEF Announce, ReplicationTypeOK
  <2>3. \A m \in member : master'[m] # NoSite
    BY <1>0, <1>4 DEF ReplicationTypeOK
  <2> QED BY <1>0, <1>4, <2>1, <2>2, <2>3 DEF ReplicationTypeOK
<1>6. Places'
  BY <1>0, <1>2, <1>3 DEF Places, Announce
<1>7. ASSUME ~overlapped'
      PROVE  (OneAnnouncement /\ KnowEachOther
               /\ (\A u \in tasks : TaskHolds(u)) /\ MasterIsKnown)'
  <2>1. tasks = {} /\ tasks' = {t} /\ ~overlapped
    BY <1>2, <1>7, Announces
  <2>2. KnowEachOther
    BY <2>1 DEF RInv
  <2>3. OneAnnouncement'
    BY <2>1 DEF OneAnnouncement
  <2>4. KnowEachOther'
    BY <1>0, <2>2 DEF KnowEachOther
  <2>5. MasterIsKnown'
    BY <1>3, <2>1 DEF MasterIsKnown
  <2>6. ElectHolds(t)'
    BY <1>0, <1>3, <1>4, <2>2 DEF ElectHolds, KnowEachOther
  <2>7. TaskHolds(t)'
    BY <1>3, <2>6 DEF TaskHolds
  <2> QED BY <2>1, <2>3, <2>4, <2>5, <2>7
<1> QED BY <1>5, <1>6, <1>7 DEF RInv

\* While a new master is announced, only the site that it waits for is busy.
LEMMA ElectIsAlone ==
  ASSUME RInv, ~overlapped, NEW t \in tasks, t.kind = "elect"
  PROVE  /\ ElectHolds(t) /\ elected \in Sites /\ elected # NoSite
         /\ \A u \in tasks : u = t \/ u.kind = "hear"
         /\ \A u \in tasks : u.kind = "hear" =>
              /\ HearHolds(u)
              /\ t.at = "tell" /\ u.site \in t.list /\ u.about = elected
<1>1. /\ OneAnnouncement /\ t \in Task /\ \A u \in tasks : TaskHolds(u)
      /\ tasks \subseteq Task
  BY DEF RInv, ReplicationTypeOK
<1>2. ElectHolds(t) /\ elected \in Sites /\ elected # NoSite
  <2>1. ElectHolds(t)
    BY <1>1 DEF TaskHolds
  <2>2. t.site \in Sites
    BY <1>1 DEF Task
  <2> QED BY <2>1, <2>2, ReplicationAssumption DEF ElectHolds
<1>3. \A u \in tasks : u = t \/ u.kind = "hear"
  BY <1>1 DEF OneAnnouncement
<1>4. ASSUME NEW u \in tasks, u.kind = "hear"
      PROVE  HearHolds(u) /\ t.at = "tell" /\ u.site \in t.list /\ u.about = elected
  <2>1. HearHolds(u)
    BY <1>1, <1>4 DEF TaskHolds
  <2>2. PICK w \in tasks : /\ w.kind = "elect" /\ w.at = "tell"
                           /\ u.site \in w.list /\ u.about = w.site
    BY <1>2, <2>1 DEF HearHolds
  <2>3. w = t
    BY <1>3, <2>2
  <2> QED BY <1>2, <2>1, <2>2, <2>3 DEF ElectHolds
<1> QED BY <1>2, <1>3, <1>4

LEMMA NotifyOwnStep ==
  ASSUME RInv, NEW t \in tasks, NotifyOwn(t) PROVE RInv'
<1> USE ReplicationAssumption
<1>0. /\ ReplicationTypeOK /\ Places /\ t \in Task
      /\ member' = member /\ master' = master /\ overlapped' = overlapped
      /\ sites' = sites /\ elected' = elected /\ counts' = counts
      /\ t.kind = "elect" /\ t.at = "notify"
      /\ subMaster' = [subMaster EXCEPT ![t.site] = t.site]
  BY DEF NotifyOwn, RInv, ReplicationTypeOK
<1>1. PICK u : u = [t EXCEPT !.at = "tell"]
  OBVIOUS
<1>2. /\ u.kind = "elect" /\ u.site = t.site /\ u.about = t.about
      /\ u.left = t.left /\ u.at = "tell" /\ u \in Task
  BY <1>0, <1>1 DEF Task
<1>3. tasks' = (tasks \ {t}) \cup {u}
  BY <1>1 DEF NotifyOwn
<1>4. /\ t.site \in Sites /\ subMaster \in [Sites -> Sites \cup {NoSite}]
      /\ subMaster' \in [Sites -> Sites \cup {NoSite}]
      /\ subMaster'[t.site] = t.site
      /\ \A m \in Sites \ {t.site} : subMaster'[m] = subMaster[m]
  <2>1. t.site \in Sites /\ subMaster \in [Sites -> Sites \cup {NoSite}]
    BY <1>0 DEF Task, ReplicationTypeOK
  <2> QED BY <1>0, <2>1
<1>5. ReplicationTypeOK'
  BY <1>0, <1>2, <1>3, <1>4 DEF ReplicationTypeOK
<1>6. Places'
  BY <1>0, <1>2, <1>3 DEF Places
<1>7. ASSUME ~overlapped'
      PROVE  (OneAnnouncement /\ KnowEachOther
               /\ (\A w \in tasks : TaskHolds(w)) /\ MasterIsKnown)'
  <2>1. /\ KnowEachOther /\ ElectHolds(t) /\ elected \in Sites
        /\ \A w \in tasks : w = t \/ w.kind = "hear"
        /\ \A w \in tasks : w.kind = "hear" => t.at = "tell"
    BY <1>0, <1>7, ElectIsAlone DEF RInv
  <2>2. tasks' = {u} /\ \A w \in tasks : w.kind # "hear"
    <3>1. \A w \in tasks : w.kind # "hear"
      BY <1>0, <2>1
    <3> QED BY <1>3, <2>1, <3>1
  <2>3. OneAnnouncement'
    BY <2>2 DEF OneAnnouncement
  <2>4. KnowEachOther'
    BY <1>0, <2>1 DEF KnowEachOther
  <2>5. MasterIsKnown'
    BY <1>2, <2>2 DEF MasterIsKnown
  <2>6. ElectHolds(u)'
    <3>1. member \subseteq Sites
      BY <1>0 DEF ReplicationTypeOK
    <3>2. t.site = elected
      BY <2>1 DEF ElectHolds
    <3>3. \A m \in member \ {elected} :
            m \in t.left \/ (master'[m] = elected' /\ subMaster'[m] = elected')
      BY <1>0, <1>4, <2>1, <2>2, <3>1, <3>2 DEF ElectHolds, HasHeard
    <3> QED BY <1>0, <1>2, <1>4, <2>1, <3>2, <3>3 DEF ElectHolds, HasHeard
  <2>7. TaskHolds(u)'
    BY <1>2, <2>6 DEF TaskHolds
  <2> QED BY <2>2, <2>3, <2>4, <2>5, <2>7
<1> QED BY <1>5, <1>6, <1>7 DEF RInv

LEMMA NotifySubsStep ==
  ASSUME RInv, NEW t \in tasks, NotifySubs(t) PROVE RInv'
<1> USE ReplicationAssumption
<1>0. /\ ReplicationTypeOK /\ Places /\ t \in Task
      /\ member' = member /\ master' = master /\ overlapped' = overlapped
      /\ sites' = sites /\ elected' = elected /\ counts' = counts
      /\ t.kind = "hear" /\ tasks' = tasks \ {t}
      /\ subMaster' = [subMaster EXCEPT ![t.site] = t.about]
  BY DEF NotifySubs, RInv, ReplicationTypeOK
<1>4. /\ t.site \in Sites /\ subMaster \in [Sites -> Sites \cup {NoSite}]
      /\ subMaster' \in [Sites -> Sites \cup {NoSite}]
      /\ subMaster'[t.site] = t.about
      /\ \A m \in Sites \ {t.site} : subMaster'[m] = subMaster[m]
  <2>1. /\ t.site \in Sites /\ t.about \in Sites
        /\ subMaster \in [Sites -> Sites \cup {NoSite}]
    BY <1>0 DEF Task, ReplicationTypeOK
  <2> QED BY <1>0, <2>1
<1>5. ReplicationTypeOK'
  BY <1>0, <1>4 DEF ReplicationTypeOK
<1>6. Places'
  BY <1>0 DEF Places
<1>7. ASSUME ~overlapped'
      PROVE  (OneAnnouncement /\ KnowEachOther
               /\ (\A w \in tasks : TaskHolds(w)) /\ MasterIsKnown)'
  <2>1. /\ OneAnnouncement /\ KnowEachOther /\ HearHolds(t)
        /\ \A w \in tasks : TaskHolds(w)
    BY <1>0, <1>7 DEF RInv, TaskHolds
  <2>2. /\ \A w \in tasks' : w \in tasks /\ w.kind = "elect"
        /\ tasks \subseteq Task /\ member \subseteq Sites
    <3>1. tasks \subseteq Task /\ member \subseteq Sites
      BY <1>0 DEF ReplicationTypeOK
    <3>2. ASSUME NEW w \in tasks' PROVE w \in tasks /\ w.kind = "elect"
      <4>1. w \in tasks /\ w # t
        BY <1>0
      <4>2. w.kind # "hear" /\ w.kind # "join"
        BY <1>0, <2>1, <4>1 DEF HearHolds
      <4>3. w.kind \in {"join", "elect", "hear"}
        BY <3>1, <4>1 DEF Task
      <4> QED BY <4>1, <4>2, <4>3
    <3> QED BY <3>1, <3>2
  <2>3. OneAnnouncement'
    BY <1>0, <2>1 DEF OneAnnouncement
  <2>4. KnowEachOther'
    BY <1>0, <2>1 DEF KnowEachOther
  <2>5. MasterIsKnown'
    <3>1. elected # NoSite => \E w \in tasks : w.kind = "elect"
      BY <2>1 DEF HearHolds
    <3>2. elected # NoSite => \E w \in tasks' : w.kind = "elect"
      BY <1>0, <3>1
    <3> QED BY <1>0, <3>2 DEF MasterIsKnown
  <2>6. ASSUME NEW u \in tasks' PROVE ElectHolds(u)'
    <3>1. u \in tasks /\ u.kind = "elect"
      BY <2>2
    <3>2. ElectHolds(u) /\ elected \in Sites /\ t.about = elected
      BY <1>0, <1>7, <3>1, ElectIsAlone
    <3>3. \A m \in member \ {elected} :
            m \in u.left \/ (master'[m] = elected' /\ subMaster'[m] = elected')
      <4> SUFFICES ASSUME NEW m \in member \ {elected}, m \notin u.left
                   PROVE  master[m] = elected /\ subMaster'[m] = elected
        BY <1>0
      <4>1. HasHeard(m)
        BY <3>2 DEF ElectHolds
      <4>2. subMaster[m] = elected \/ m = t.site
        BY <1>0, <2>1, <4>1 DEF HasHeard, HearHolds
      <4> QED BY <1>4, <2>2, <3>2, <4>1, <4>2 DEF HasHeard
    <3>4. u.at = "tell" => subMaster'[elected] = elected
      BY <1>4, <3>2 DEF ElectHolds
    <3> QED BY <1>0, <3>2, <3>3, <3>4 DEF ElectHolds, HasHeard
  <2>7. \A u \in tasks' : TaskHolds(u)'
    BY <2>2, <2>6 DEF TaskHolds
  <2> QED BY <2>3, <2>4, <2>5, <2>7
<1> QED BY <1>5, <1>6, <1>7 DEF RInv

LEMMA EndElectStep ==
  ASSUME RInv, NEW t \in tasks, EndElect(t) PROVE RInv'
<1> USE ReplicationAssumption
<1>0. /\ ReplicationTypeOK /\ Places /\ t \in Task
      /\ member' = member /\ master' = master /\ overlapped' = overlapped
      /\ sites' = sites /\ subMaster' = subMaster
      /\ elected' = elected /\ counts' = counts /\ Heard(t)
      /\ t.kind = "elect" /\ t.at = "tell" /\ t.left = {}
      /\ tasks' = tasks \ {t}
  BY DEF EndElect, RInv, ReplicationTypeOK
<1>1. ReplicationTypeOK'
  BY <1>0 DEF ReplicationTypeOK
<1>2. Places'
  BY <1>0 DEF Places
<1>3. ASSUME ~overlapped'
      PROVE  (OneAnnouncement /\ KnowEachOther
               /\ (\A w \in tasks : TaskHolds(w)) /\ MasterIsKnown)'
  <2>1. /\ KnowEachOther /\ ElectHolds(t)
        /\ \A w \in tasks : w = t \/ w.kind = "hear"
        /\ \A w \in tasks : w.kind = "hear" =>
             w.site \in t.list /\ w.about = elected
    BY <1>0, <1>3, ElectIsAlone DEF RInv
  <2>2. \A w \in tasks : w.kind # "hear"
    BY <1>0, <2>1 DEF Heard, ElectHolds
  <2>3. tasks' = {}
    BY <1>0, <2>1, <2>2
  <2>4. MasterIsKnown'
    BY <1>0, <2>1, <2>2 DEF MasterIsKnown, ElectHolds, HasHeard
  <2>5. OneAnnouncement' /\ KnowEachOther'
    BY <1>0, <2>1, <2>3 DEF OneAnnouncement, KnowEachOther
  <2> QED BY <2>3, <2>4, <2>5
<1> QED BY <1>1, <1>2, <1>3 DEF RInv

LEMMA TellOfMasterStep ==
  ASSUME RInv, NEW t \in tasks, NEW s \in Sites, TellOfMaster(t, s)
  PROVE  RInv'
<1> USE ReplicationAssumption
<1>0. /\ ReplicationTypeOK /\ Places /\ t \in Task /\ t.about \in Sites
      /\ member' = member /\ sites' = sites /\ overlapped' = overlapped
      /\ subMaster' = subMaster /\ elected' = elected /\ counts' = counts
      /\ t.kind = "elect" /\ t.at = "tell" /\ s \in t.left /\ Heard(t)
      /\ member \subseteq Sites
  BY DEF TellOfMaster, RInv, ReplicationTypeOK, Task
<1>1. ASSUME ~overlapped
      PROVE  /\ KnowEachOther /\ ElectHolds(t) /\ elected \in Sites
             /\ \A w \in tasks : w = t /\ w.kind # "hear"
  <2>1. /\ KnowEachOther /\ ElectHolds(t) /\ elected \in Sites
        /\ \A w \in tasks : w = t \/ w.kind = "hear"
        /\ \A w \in tasks : w.kind = "hear" =>
             w.site \in t.list /\ w.about = elected
    BY <1>0, <1>1, ElectIsAlone DEF RInv
  <2>2. \A w \in tasks : w.kind # "hear"
    BY <1>0, <2>1 DEF Heard, ElectHolds
  <2> QED BY <2>1, <2>2
<1>2. CASE s \in member
  <2>1. PICK u : u = [t EXCEPT !.left = @ \ {s}, !.list = {s}]
    OBVIOUS
  <2>2. PICK h : h = [kind |-> "hear", site |-> s, about |-> t.about,
                      left |-> {}, list |-> {}, at |-> "notify"]
    OBVIOUS
  <2>3. /\ u.kind = "elect" /\ u.site = t.site /\ u.about = t.about
        /\ u.left = t.left \ {s} /\ u.list = {s} /\ u.at = "tell" /\ u \in Task
    BY <1>0, <2>1 DEF Task
  <2>4. h.kind = "hear" /\ h.site = s /\ h.about = t.about /\ h \in Task
    BY <1>0, <2>2 DEF Task
  <2>5. /\ master' = [master EXCEPT ![s] = t.about]
        /\ tasks' = (tasks \ {t}) \cup {u, h}
    BY <1>2, <2>1, <2>2 DEF TellOfMaster
  <2>6. /\ master' \in [Sites -> Sites \cup {NoSite}] /\ master'[s] = t.about
        /\ \A m \in Sites \ {s} : master'[m] = master[m]
    <3>1. master \in [Sites -> Sites \cup {NoSite}]
      BY <1>0 DEF ReplicationTypeOK
    <3> QED BY <1>0, <2>5, <3>1
  <2>7. ReplicationTypeOK'
    <3>1. \A m \in member : master'[m] # NoSite
      BY <1>0, <2>6 DEF ReplicationTypeOK
    <3> QED BY <1>0, <2>3, <2>4, <2>5, <2>6, <3>1 DEF ReplicationTypeOK
  <2>8. Places'
    BY <1>0, <1>2, <2>3, <2>4, <2>5 DEF Places
  <2>9. ASSUME ~overlapped'
        PROVE  (OneAnnouncement /\ KnowEachOther
                 /\ (\A w \in tasks : TaskHolds(w)) /\ MasterIsKnown)'
    <3>1. /\ KnowEachOther /\ ElectHolds(t) /\ elected \in Sites
          /\ \A w \in tasks : w = t /\ w.kind # "hear"
      BY <1>0, <1>1, <2>9
    <3>2. tasks' = {u, h}
      BY <2>5, <3>1
    <3>3. OneAnnouncement' /\ KnowEachOther' /\ MasterIsKnown'
      BY <1>0, <2>3, <2>4, <3>1, <3>2
         DEF OneAnnouncement, KnowEachOther, MasterIsKnown
    <3>4. HearHolds(h)'
      <4>1. t.site = t.about
        BY <3>1 DEF ElectHolds
      <4>2. /\ u \in tasks' /\ u.kind = "elect" /\ u.at = "tell"
            /\ h.site \in u.list /\ h.about = u.site
        BY <2>3, <2>4, <3>2, <4>1
      <4>3. \A w \in tasks' : (w.kind = "hear" => w = h) /\ w.kind # "join"
        BY <2>3, <2>4, <3>2
      <4> QED BY <4>2, <4>3 DEF HearHolds
    <3>5. t.about = elected /\ t.site = elected
      BY <3>1 DEF ElectHolds
    <3>6. \A m \in member \ {elected} :
            m \in u.left \/ (master'[m] = elected /\ (subMaster[m] = elected \/ m = s))
      <4> SUFFICES ASSUME NEW m \in member \ {elected}, m # s, m \notin t.left
                   PROVE  master'[m] = elected /\ subMaster[m] = elected
        BY <2>3, <2>6, <3>5
      <4>1. HasHeard(m)
        BY <3>1 DEF ElectHolds
      <4> QED BY <1>0, <2>6, <3>1, <4>1 DEF HasHeard
    <3>7. \A m \in member \ {elected} : m \in u.left \/ HasHeard(m)'
      BY <1>0, <2>4, <3>2, <3>6 DEF HasHeard
    <3>8. ElectHolds(u)'
      BY <1>0, <2>3, <2>6, <3>1, <3>5, <3>7 DEF ElectHolds
    <3>9. TaskHolds(u)' /\ TaskHolds(h)'
      BY <2>3, <2>4, <3>4, <3>8 DEF TaskHolds
    <3> QED BY <3>2, <3>3, <3>9
  <2> QED BY <2>7, <2>8, <2>9 DEF RInv
<1>3. CASE s \notin member
  <2>1. PICK u : u = [t EXCEPT !.left = @ \ {s}]
    OBVIOUS
  <2>2. /\ u.kind = "elect" /\ u.site = t.site /\ u.about = t.about
        /\ u.left = t.left \ {s} /\ u.at = "tell" /\ u \in Task
    BY <1>0, <2>1 DEF Task
  <2>3. master' = master /\ tasks' = (tasks \ {t}) \cup {u}
    BY <1>3, <2>1 DEF TellOfMaster
  <2>4. ReplicationTypeOK'
    BY <1>0, <2>2, <2>3 DEF ReplicationTypeOK
  <2>5. Places'
    BY <1>0, <2>2, <2>3 DEF Places
  <2>6. ASSUME ~overlapped'
        PROVE  (OneAnnouncement /\ KnowEachOther
                 /\ (\A w \in tasks : TaskHolds(w)) /\ MasterIsKnown)'
    <3>1. /\ KnowEachOther /\ ElectHolds(t) /\ elected \in Sites
          /\ \A w \in tasks : w = t /\ w.kind # "hear"
      BY <1>0, <1>1, <2>6
    <3>2. tasks' = {u}
      BY <2>3, <3>1
    <3>3. OneAnnouncement' /\ KnowEachOther' /\ MasterIsKnown'
      BY <1>0, <2>2, <3>1, <3>2
         DEF OneAnnouncement, KnowEachOther, MasterIsKnown
    <3>4. \A m \in member \ {elected} :
            m \in u.left \/ (master[m] = elected /\ subMaster[m] = elected)
      BY <1>3, <2>2, <3>1 DEF ElectHolds, HasHeard
    <3>5. ElectHolds(u)'
      BY <1>0, <2>2, <2>3, <3>1, <3>4 DEF ElectHolds, HasHeard
    <3>6. TaskHolds(u)'
      BY <2>2, <3>5 DEF TaskHolds
    <3> QED BY <3>2, <3>3, <3>6
  <2> QED BY <2>4, <2>5, <2>6 DEF RInv
<1> QED BY <1>2, <1>3

LEMMA SiteStopStep ==
  ASSUME RInv, NEW s \in Sites, Stop(s) PROVE RInv'
<1> USE ReplicationAssumption
<1>0. /\ ReplicationTypeOK /\ Places /\ overlapped' = overlapped
      /\ s \in member /\ member' = member \ {s}
      /\ tasks' = {t \in tasks : t.site # s}
      /\ elected' = IF elected = s THEN NoSite ELSE elected
      /\ member \subseteq Sites /\ tasks \subseteq Task
  BY DEF Stop, RInv, ReplicationTypeOK
<1>1. /\ sites' \in [Sites -> SUBSET Sites]
      /\ master' \in [Sites -> Sites \cup {NoSite}]
      /\ subMaster' \in [Sites -> Sites \cup {NoSite}]
      /\ \A m \in Sites \ {s} :
           /\ sites'[m] = sites[m]
           /\ master'[m] = master[m] /\ subMaster'[m] = subMaster[m]
  <2>1. /\ sites \in [Sites -> SUBSET Sites]
        /\ master \in [Sites -> Sites \cup {NoSite}]
        /\ subMaster \in [Sites -> Sites \cup {NoSite}]
    BY <1>0 DEF ReplicationTypeOK
  <2>2. /\ sites' = [sites EXCEPT ![s] = {}]
        /\ master' = [master EXCEPT ![s] = NoSite]
        /\ subMaster' = [subMaster EXCEPT ![s] = NoSite]
    BY DEF Stop
  <2> QED BY <2>1, <2>2
<1>2. ReplicationTypeOK'
  <2>1. counts' \in [joins : 0 .. MaxJoins, elections : 0 .. MaxElections,
                      stops : 0 .. MaxStops]
    BY <1>0, Counts DEF Stop
  <2>2. \A m \in member' : master'[m] # NoSite
    BY <1>0, <1>1 DEF ReplicationTypeOK
  <2> QED BY <1>0, <1>1, <2>1, <2>2 DEF ReplicationTypeOK
<1>3. Places'
  BY <1>0 DEF Places
<1>4. ASSUME ~overlapped'
      PROVE  (OneAnnouncement /\ KnowEachOther
               /\ (\A w \in tasks : TaskHolds(w)) /\ MasterIsKnown)'
  <2>1. /\ OneAnnouncement /\ KnowEachOther /\ MasterIsKnown /\ ~overlapped
        /\ \A w \in tasks : TaskHolds(w)
    BY <1>0, <1>4 DEF RInv
  <2>2. OneAnnouncement'
    BY <1>0, <2>1 DEF OneAnnouncement
  <2>3. KnowEachOther'
    BY <1>0, <1>1, <2>1 DEF KnowEachOther
  <2>4. ASSUME NEW t \in tasks', t.kind = "elect"
        PROVE  ElectHolds(t)' /\ elected' = elected /\ elected # s
    <3>1. t \in tasks /\ t.site # s
      BY <1>0
    <3>2. ElectHolds(t) /\ elected \in Sites
      BY <2>1, <2>4, <3>1, ElectIsAlone
    <3>3. elected' = elected /\ elected # s
      BY <1>0, <3>1, <3>2 DEF ElectHolds
    <3>4. ASSUME NEW m \in member' \ {elected} PROVE m \in t.left \/ HasHeard(m)'
      <4>1. m \in Sites \ {s} /\ (m \in t.left \/ HasHeard(m))
        BY <1>0, <3>2, <3>4 DEF ElectHolds
      <4>2. CASE HasHeard(m)
        <5>1. \A h \in tasks : h.site = m => h \in tasks'
          BY <1>0, <4>1
        <5> QED BY <1>1, <3>3, <4>1, <4>2, <5>1 DEF HasHeard
      <4> QED BY <4>1, <4>2
    <3> QED BY <1>1, <3>2, <3>3, <3>4 DEF ElectHolds
  <2>5. ASSUME NEW t \in tasks', t.kind = "join"
        PROVE  JoinHolds(t)'
    <3>1. t \in tasks /\ t.site # s
      BY <1>0
    <3>2. JoinHolds(t)
      BY <2>1, <2>5, <3>1 DEF TaskHolds
    <3> QED BY <1>0, <1>1, <3>2 DEF JoinHolds
  <2>6. ASSUME NEW t \in tasks', t.kind = "hear"
        PROVE  HearHolds(t)'
    <3>1. t \in tasks /\ t.site # s
      BY <1>0
    <3>2. HearHolds(t)
      BY <2>1, <2>6, <3>1 DEF TaskHolds
    <3>3. ASSUME elected' # NoSite
          PROVE  \E u \in tasks' : /\ u.kind = "elect" /\ u.at = "tell"
                                   /\ t.site \in u.list /\ t.about = u.site
      <4>1. elected # s /\ elected # NoSite
        BY <1>0, <3>3
      <4>2. PICK u \in tasks : /\ u.kind = "elect" /\ u.at = "tell"
                               /\ t.site \in u.list /\ t.about = u.site
        BY <3>2, <4>1 DEF HearHolds
      <4>3. u.site = elected
        BY <2>1, <4>2 DEF TaskHolds, ElectHolds
      <4>4. u \in tasks'
        BY <1>0, <4>1, <4>2, <4>3
      <4> QED BY <4>2, <4>4
    <3> QED BY <1>0, <3>2, <3>3 DEF HearHolds
  <2>7. \A t \in tasks' : TaskHolds(t)'
    BY <2>4, <2>5, <2>6 DEF TaskHolds
  <2>8. MasterIsKnown'
    <3> SUFFICES ASSUME elected' # NoSite, \A t \in tasks' : t.kind # "elect",
                        NEW m \in member'
                 PROVE  master'[m] = elected' /\ subMaster'[m] = elected'
      BY DEF MasterIsKnown
    <3>1. elected' = elected /\ elected # s /\ elected # NoSite
      BY <1>0
    <3>2. ASSUME NEW t \in tasks, t.kind = "elect" PROVE FALSE
      <4>1. t.site = elected
        BY <2>1, <3>2 DEF TaskHolds, ElectHolds
      <4>2. t \in tasks'
        BY <1>0, <3>1, <4>1
      <4> QED BY <3>2, <4>2
    <3>3. master[m] = elected /\ subMaster[m] = elected
      BY <1>0, <2>1, <3>1, <3>2 DEF MasterIsKnown
    <3> QED BY <1>0, <1>1, <3>1, <3>3
  <2> QED BY <2>2, <2>3, <2>7, <2>8
<1> QED BY <1>2, <1>3, <1>4 DEF RInv

LEMMA RInvStep == RInv /\ [ReplicationNext]_replicationVars => RInv'
<1> SUFFICES ASSUME RInv, [ReplicationNext]_replicationVars PROVE RInv'
  OBVIOUS
<1>1. CASE UNCHANGED replicationVars
  BY <1>1 DEF replicationVars, RInv, ReplicationTypeOK, Places, OneAnnouncement,
     KnowEachOther, TaskHolds, JoinHolds, ElectHolds, HearHolds, HasHeard,
     MasterIsKnown
<1>2. CASE \E j, c \in Sites : BeginJoin(j, c)
  BY <1>2, BeginJoinStep
<1>3. CASE \E s \in Sites : Elect(s) \/ Stop(s)
  BY <1>3, ElectStep, SiteStopStep
<1>4. ASSUME NEW t \in tasks,
             \/ AnswerJoin(t) \/ EndJoin(t) \/ NotifyOwn(t) \/ NotifySubs(t)
             \/ EndElect(t)
             \/ \E s \in Sites : TellOfSite(t, s) \/ TellOfMaster(t, s)
      PROVE  RInv'
  BY <1>4, AnswerJoinStep, EndJoinStep, NotifyOwnStep, NotifySubsStep,
     EndElectStep, TellOfSiteStep, TellOfMasterStep
<1> QED BY <1>1, <1>2, <1>3, <1>4 DEF ReplicationNext

\* The inductive invariant of the announcements: who does not know a new site or
\* a new master yet will still be told of it.
THEOREM ReplicationInvariance == ReplicationSpec => []RInv
BY RInvInit, RInvStep, PTL DEF ReplicationSpec

\* When no message is under way, the sites that are up know each other and take
\* the elected site for the master (ReplicationService and the replication
\* commands of the management service), unless two announcements overlapped.
THEOREM SitesWillAgree == ReplicationSpec => []SitesAgree
<1>1. RInv => SitesAgree
  BY DEF RInv, SitesAgree, MembersKnowEachOther, OneMaster, Quiet, KnowEachOther,
     MasterIsKnown
<1> QED BY ReplicationInvariance, <1>1, PTL
=============================================================================
