-------------------------- MODULE ProcessesProofs --------------------------
(***************************************************************************)
(* Proofs about what the processes of a multi-process server share, for    *)
(* any number of threads, messages, slots, managers, sub-processes and     *)
(* commands.                                                               *)
(*                                                                         *)
(* The queue in shared memory keeps messages whole and in their order, and *)
(* loses its lock only to a message that fills the array.                  *)
(*                                                                         *)
(* The invariant of the management commands, MInv, says where every        *)
(* manager's job is in the steps of its command, and reads the gates, the  *)
(* handles and the answers off the jobs: a gate, once the commands in the  *)
(* pipe are handled, counts the jobs that hold it; a database that is shut *)
(* is shut for a job; every answer on the way is awaited by a job; and a   *)
(* job that exchanges DB_LOCK and met no other exchange is alone, so the   *)
(* answers are its own.  A transaction that was past the gate, and not     *)
(* counted, when lock() returned is late.  From then on until the unlock   *)
(* a process that a job has locked has no transactions but late ones:      *)
(* none gets by the gate, whatever is tried again or begins.               *)
(***************************************************************************)
EXTENDS SharedQueue, Maintenance, FiniteSetTheorems, SequenceTheorems, TLAPS

-----------------------------------------------------------------------------
(* The queue in shared memory.                                             *)

IsSentinel(m) == Files[m] = EndOfFile

\* A message that a thread is putting has not been put before.
PuttingIsNew ==
  /\ \A p \in Putters : putting[p] = NoMessage <=> qstate[p] = "idle"
  /\ \A p \in Putters : putting[p] \notin unsent
  /\ \A p, q \in Putters :
       putting[p] # NoMessage /\ putting[p] = putting[q] => p = q

\* The chunks of a message are next to each other, all of them and in order.
Chunked(array, filled) ==
  \A i \in 1 .. filled :
    LET m == array[i].msg
        before == i - array[i].part IN
    /\ m \in Messages /\ array[i].part \in 1 .. size[m]
    /\ before >= 0 /\ before + size[m] <= filled
    /\ \A k \in 1 .. size[m] : array[before + k] = [msg |-> m, part |-> k]

NoChunkTwice(array, filled) ==
  \A i, j \in 1 .. filled : array[i] = array[j] => i = j

\* A connection has one message in the queue.
OneOfFile(array, filled) ==
  \A i, j \in 1 .. filled :
    /\ FileOf(array[i]) = FileOf(array[j])
    /\ FileOf(array[i]) # EndOfFile
    => array[i].msg = array[j].msg

\* No message in the array is still to be put, nor one of the same connection.
SlotsAreNotPending ==
  \A i \in 1 .. qsize :
    /\ slots[i].msg \notin unsent
    /\ \A p \in Putters :
         putting[p] # slots[i].msg
         /\ (putting[p] # NoMessage /\ ~IsSentinel(putting[p]) =>
               Files[putting[p]] # FileOf(slots[i]))

OnePutOfFile ==
  \A p, q \in Putters :
    /\ putting[p] # NoMessage /\ putting[q] # NoMessage
    /\ Files[putting[p]] = Files[putting[q]] /\ ~IsSentinel(putting[p])
    => p = q

\* The n-th message of the queue exists, for every n that Nth is asked for.
Ranked ==
  \A n \in 1 .. Cardinality(InSlots) :
    \E m \in InSlots : Cardinality(UpTo(m)) = n

IInv ==
  /\ QueueTypeOK
  /\ \A m \in Messages : IsSentinel(m) => size[m] = 1
  /\ PuttingIsNew
  /\ Chunked(slots, qsize)
  /\ NoChunkTwice(slots, qsize)
  /\ OneOfFile(slots, qsize)
  /\ SlotsAreNotPending
  /\ OnePutOfFile
  /\ Ranked
  /\ LockLostToFullMessage
-----------------------------------------------------------------------------
(* The array.                                                              *)

LEMMA MessageFacts ==
  /\ Messages \subseteq Nat /\ NoMessage \notin Messages
  /\ \A m \in Messages : Files[m] \in (Nat \ {0}) \cup {EndOfFile}
  /\ EndOfFile \in Int
<1>1. Files \in Seq((Nat \ {0}) \cup {EndOfFile})
  BY SharedQueueAssumption
<1>2. Messages = 1 .. Len(Files)
  BY <1>1 DEF Messages
<1> QED BY <1>1, <1>2 DEF Messages, NoMessage, EndOfFile

\* The first message of the queue fills the first slots and no other.
LEMMA FrontOfQueue ==
  ASSUME QueueTypeOK, Chunked(slots, qsize), NoChunkTwice(slots, qsize),
         qsize > 0
  PROVE  LET m == slots[1].msg IN
         /\ m \in Messages /\ size[m] \in 1 .. qsize
         /\ slots[1] = FirstChunk(m)
         /\ \A k \in 1 .. size[m] : slots[k] = [msg |-> m, part |-> k]
         /\ \A i \in 1 .. qsize : slots[i].msg = m => i <= size[m]
<1> DEFINE m == slots[1].msg
<1>0. qsize \in Nat /\ 1 \in 1 .. qsize
  BY DEF QueueTypeOK
<1>1. /\ m \in Messages /\ slots[1].part \in 1 .. size[m]
      /\ 1 - slots[1].part >= 0 /\ (1 - slots[1].part) + size[m] <= qsize
      /\ \A k \in 1 .. size[m] :
           slots[(1 - slots[1].part) + k] = [msg |-> m, part |-> k]
  BY <1>0 DEF Chunked
<1>2. size[m] \in 1 .. Capacity + 1 /\ Capacity \in Nat
  BY <1>1, SharedQueueAssumption DEF QueueTypeOK
<1>3. slots[1].part = 1
  BY <1>1, <1>2
<1>4. size[m] \in 1 .. qsize
  BY <1>0, <1>1, <1>2, <1>3
<1>5. ASSUME NEW k \in 1 .. size[m]
      PROVE  slots[k] = [msg |-> m, part |-> k]
  <2>1. (1 - slots[1].part) + k = k
    BY <1>3, <1>2
  <2> QED BY <2>1, <1>1
<1>6. ASSUME NEW i \in 1 .. qsize, slots[i].msg = m
      PROVE  i <= size[m]
  <2> DEFINE s == i - slots[i].part
  <2>1. /\ slots[i].part \in 1 .. size[m]
        /\ s >= 0 /\ s + size[m] <= qsize
        /\ \A k \in 1 .. size[m] : slots[s + k] = [msg |-> m, part |-> k]
    BY <1>6 DEF Chunked
  <2>2. 1 \in 1 .. size[m]
    BY <1>2
  <2>3. slots[s + 1] = slots[1]
    BY <2>1, <2>2, <1>5
  <2>4. s + 1 \in 1 .. qsize
    BY <2>1, <1>4, <1>0
  <2>5. s + 1 = 1
    BY <2>3, <2>4, <1>0 DEF NoChunkTwice
  <2> QED BY <2>5, <2>1, <1>2
<1> QED BY <1>1, <1>2, <1>4, <1>5, <1>6 DEF FirstChunk

\* The slots that have the file number of the first are its message.
LEMMA SameFileIsMessage ==
  ASSUME QueueTypeOK, Chunked(slots, qsize), NoChunkTwice(slots, qsize),
         OneOfFile(slots, qsize), qsize > 0, FileOf(slots[1]) > 0,
         NEW n \in 1 .. qsize
  PROVE  SameFile(n) <=> n <= size[slots[1].msg]
<1> DEFINE m == slots[1].msg
<1>0. qsize \in Nat /\ 1 \in 1 .. qsize
  BY DEF QueueTypeOK
<1>1. /\ m \in Messages /\ size[m] \in 1 .. qsize
      /\ \A k \in 1 .. size[m] : slots[k] = [msg |-> m, part |-> k]
      /\ \A i \in 1 .. qsize : slots[i].msg = m => i <= size[m]
  BY FrontOfQueue
<1>2. FileOf(slots[1]) # EndOfFile
  BY DEF EndOfFile
<1>3. ASSUME n <= size[m]
      PROVE  SameFile(n)
  <2>1. ASSUME NEW i \in 1 .. n
        PROVE  slots[i].msg = slots[1].msg
    <3>1. i \in 1 .. size[m]
      BY <1>3, <1>1, <1>0
    <3>2. slots[i] = [msg |-> m, part |-> i]
      BY <3>1, <1>1
    <3> QED BY <3>2
  <2> QED BY <2>1 DEF SameFile, FileOf
<1>4. ASSUME SameFile(n)
      PROVE  n <= size[m]
  <2>1. n \in 1 .. n
    BY <1>0
  <2>2. FileOf(slots[n]) = FileOf(slots[1])
    BY <1>4, <2>1 DEF SameFile
  <2>3. slots[n].msg = m
    BY <2>2, <1>2, <1>0 DEF OneOfFile
  <2> QED BY <2>3, <1>1
<1> QED BY <1>3, <1>4

\* get takes the first message.
LEMMA TakenIsFirst ==
  ASSUME QueueTypeOK, Chunked(slots, qsize), NoChunkTwice(slots, qsize),
         OneOfFile(slots, qsize), qsize > 0,
         \A m \in Messages : IsSentinel(m) => size[m] = 1
  PROVE  Taken = size[slots[1].msg]
<1> DEFINE m == slots[1].msg
<1>0. qsize \in Nat /\ qsize + 1 \in Nat
  BY DEF QueueTypeOK
<1>1. m \in Messages /\ size[m] \in 1 .. qsize
  BY FrontOfQueue
<1>2. FileOf(slots[1]) = Files[m]
  BY <1>1, MessageFacts DEF FileOf
<1>3. CASE FileOf(slots[1]) > 0
  <2> DEFINE Ends(n) == SameFile(n) /\ (n = qsize \/ ~SameFile(n + 1))
  <2>1. \A n \in 1 .. qsize : SameFile(n) <=> n <= size[m]
    BY <1>3, SameFileIsMessage
  <2>2. ASSUME NEW n \in 1 .. qsize
        PROVE  Ends(n) <=> n = size[m]
    <3>1. n = qsize \/ n + 1 \in 1 .. qsize
      BY <1>0
    <3> HIDE DEF m
    <3> QED BY <3>1, <2>1, <1>1, <1>0
  <2>3. Taken = CHOOSE n \in 1 .. qsize : Ends(n)
    BY <1>3 DEF Taken
  <2>4. Taken = size[m]
    <3> HIDE DEF Ends, m
    <3> QED BY <2>2, <2>3, <1>1
  <2> QED BY <2>4
<1>4. CASE ~(FileOf(slots[1]) > 0)
  <2>0. Files[m] \in (Nat \ {0}) \cup {EndOfFile}
    BY <1>1, MessageFacts
  <2>1. Files[m] = EndOfFile
    <3> HIDE DEF m
    <3> QED BY <1>4, <1>2, <2>0
  <2> QED BY <2>1, <1>1, <1>4 DEF Taken, IsSentinel
<1> QED BY <1>3, <1>4

\* The lock is lost when the first message fills the array.
LEMMA LostToFirst ==
  ASSUME QueueTypeOK, Chunked(slots, qsize), NoChunkTwice(slots, qsize),
         OneOfFile(slots, qsize), qsize > 0, PastTheEnd
  PROVE  \E m \in Messages : size[m] = Capacity /\ slots = Whole(m)
<1> DEFINE m == slots[1].msg
<1>1. /\ m \in Messages /\ size[m] \in 1 .. qsize
      /\ \A k \in 1 .. size[m] : slots[k] = [msg |-> m, part |-> k]
  BY FrontOfQueue
<1>2. Capacity \in 1 .. qsize /\ qsize = Capacity /\ qsize \in Nat
  BY DEF PastTheEnd, QueueTypeOK
<1>3. Capacity <= size[m]
  BY <1>2, SameFileIsMessage DEF PastTheEnd
<1>4. size[m] = Capacity
  BY <1>1, <1>2, <1>3
<1>5. slots = [i \in 1 .. size[m] |-> slots[i]]
  BY <1>4 DEF QueueTypeOK
<1>6. slots = Whole(m)
  BY <1>1, <1>5 DEF Whole
<1> QED BY <1>1, <1>4, <1>6
-----------------------------------------------------------------------------
(* What put and get do to the array.                                       *)

\* notify changes no thread but the one that is woken and the one that calls.
LEMMA NotifyWakes ==
  ASSUME QueueTypeOK, NEW T \in {Putters, Getters},
         NEW mine \in Putters \cup Getters,
         NEW next \in {"idle", "ready", "ended"}, Notify(T, mine, next)
  PROVE  /\ qstate' \in [Putters \cup Getters ->
                           {"idle", "ready", "asleep", "ended"}]
         /\ qstate'[mine] = next
         /\ \A t \in (Putters \cup Getters) \ {mine} :
              qstate'[t] = "idle" <=> qstate[t] = "idle"
  BY DEF QueueTypeOK, Notify, Sleeping

\* The message that a thread puts is not in the queue, nor is another of its
\* connection.
LEMMA PuttingIsElsewhere ==
  ASSUME IInv, NEW p \in Putters, qstate[p] # "idle"
  PROVE  /\ putting[p] \in Messages /\ putting[p] \notin unsent
         /\ \A i \in 1 .. qsize :
              /\ slots[i].msg # putting[p]
              /\ FileOf(slots[i]) = Files[putting[p]] =>
                   IsSentinel(putting[p])
  BY DEF IInv, QueueTypeOK, PuttingIsNew, SlotsAreNotPending

LEMMA PutFills ==
  ASSUME IInv, NEW p \in Putters, PutChunks(p)
  PROVE  /\ qsize \in Nat /\ Capacity \in Nat
         /\ putting[p] \in Messages
         /\ size[putting[p]] \in Nat /\ size[putting[p]] >= 1
         /\ qsize' = qsize + size[putting[p]] /\ qsize' <= Capacity
         /\ slots' \in [1 .. Capacity -> Chunk \cup {Blank}]
         /\ \A i \in 1 .. qsize : slots'[i] = slots[i]
         /\ \A i \in qsize + 1 .. qsize' :
              /\ slots'[i] = [msg |-> putting[p], part |-> i - qsize]
              /\ slots'[i].msg = putting[p] /\ slots'[i].part = i - qsize
<1> DEFINE m == putting[p]
<1>1. m \in Messages
  BY PuttingIsElsewhere DEF PutChunks
<1>2. /\ size[m] \in 1 .. Capacity + 1 /\ Capacity \in Nat /\ qsize \in Nat
      /\ qsize <= Capacity
      /\ slots \in [1 .. Capacity -> Chunk \cup {Blank}]
  BY <1>1, SharedQueueAssumption DEF IInv, QueueTypeOK
<1>3. /\ qsize' = qsize + size[m] /\ qsize + size[m] <= Capacity
      /\ slots' = [i \in 1 .. Capacity |->
                     IF i \in qsize + 1 .. qsize + size[m]
                     THEN [msg |-> m, part |-> i - qsize] ELSE slots[i]]
  BY DEF PutChunks, Fits
<1> HIDE DEF m
<1>4. size[m] \in Nat /\ size[m] >= 1
  BY <1>2
<1>5. ASSUME NEW i \in qsize + 1 .. qsize + size[m]
      PROVE  [msg |-> m, part |-> i - qsize] \in Chunk
  <2>1. i - qsize \in 1 .. Capacity
    BY <1>2, <1>3, <1>4
  <2> QED BY <2>1, <1>1 DEF Chunk
<1>6. slots' \in [1 .. Capacity -> Chunk \cup {Blank}]
  BY <1>2, <1>3, <1>5
<1>7. \A i \in 1 .. qsize : slots'[i] = slots[i]
  BY <1>2, <1>3, <1>4
<1>8. ASSUME NEW i \in qsize + 1 .. qsize'
      PROVE  /\ slots'[i] = [msg |-> m, part |-> i - qsize]
             /\ slots'[i].msg = m /\ slots'[i].part = i - qsize
  <2>1. slots'[i] = [msg |-> m, part |-> i - qsize]
    BY <1>2, <1>3, <1>4
  <2> QED BY <2>1
<1> QED BY <1>1, <1>2, <1>3, <1>4, <1>6, <1>7, <1>8 DEF m

LEMMA GetShifts ==
  ASSUME IInv, NEW g \in Getters, GetChunks(g)
  PROVE  LET m == slots[1].msg IN
         /\ qsize \in Nat /\ Capacity \in Nat /\ qsize <= Capacity
         /\ m \in Messages /\ size[m] \in 1 .. qsize
         /\ \A k \in 1 .. size[m] :
              slots[k] = [msg |-> m, part |-> k] /\ slots[k].msg = m
         /\ \A i \in size[m] + 1 .. qsize : slots[i].msg # m
         /\ qsize' = qsize - size[m] /\ qsize' \in Nat
         /\ slots' \in [1 .. Capacity -> Chunk \cup {Blank}]
         /\ \A i \in 1 .. qsize' : slots'[i] = slots[i + size[m]]
         /\ received' = Append(received, SubSeq(slots, 1, size[m]))
<1> DEFINE m == slots[1].msg
<1>0. /\ qsize \in Nat /\ Capacity \in Nat /\ qsize <= Capacity /\ qsize > 0
      /\ slots \in [1 .. Capacity -> Chunk \cup {Blank}]
  BY SharedQueueAssumption DEF IInv, QueueTypeOK, GetChunks
<1>1. /\ m \in Messages /\ size[m] \in 1 .. qsize
      /\ \A k \in 1 .. size[m] : slots[k] = [msg |-> m, part |-> k]
      /\ \A i \in 1 .. qsize : slots[i].msg = m => i <= size[m]
  BY <1>0, FrontOfQueue DEF IInv
<1>2. Taken = size[m]
  BY <1>0, TakenIsFirst DEF IInv
<1>3. /\ qsize' = qsize - size[m]
      /\ slots' = [i \in 1 .. Capacity |->
                     IF i <= qsize - size[m] THEN slots[i + size[m]]
                     ELSE slots[i]]
      /\ received' = Append(received, SubSeq(slots, 1, size[m]))
  BY <1>2 DEF GetChunks
<1> HIDE DEF m
<1>4. \A i \in size[m] + 1 .. qsize : slots[i].msg # m
  BY <1>0, <1>1
<1>5. qsize' \in Nat
  BY <1>0, <1>1, <1>3
<1>9. ASSUME NEW k \in 1 .. size[m]
      PROVE  slots[k].msg = m
  <2>1. slots[k] = [msg |-> m, part |-> k]
    BY <1>1
  <2> QED BY <2>1
<1>6. \A i \in 1 .. Capacity : i <= qsize - size[m] =>
        i + size[m] \in 1 .. Capacity
  BY <1>0, <1>1
<1>7. slots' \in [1 .. Capacity -> Chunk \cup {Blank}]
  BY <1>0, <1>3, <1>6
<1>8. \A i \in 1 .. qsize' : slots'[i] = slots[i + size[m]]
  BY <1>0, <1>1, <1>3
<1> QED BY <1>0, <1>1, <1>3, <1>4, <1>5, <1>7, <1>8, <1>9 DEF m

LEMMA PutKeepsArray ==
  ASSUME IInv, NEW p \in Putters, PutChunks(p)
  PROVE  /\ Chunked(slots, qsize)' /\ NoChunkTwice(slots, qsize)'
         /\ OneOfFile(slots, qsize)'
<1> DEFINE m == putting[p]
<1>1. /\ qsize \in Nat /\ m \in Messages
      /\ size[m] \in Nat /\ size[m] >= 1
      /\ qsize' = qsize + size[m]
      /\ \A i \in 1 .. qsize : slots'[i] = slots[i]
      /\ \A i \in qsize + 1 .. qsize' :
           /\ slots'[i] = [msg |-> m, part |-> i - qsize]
           /\ slots'[i].msg = m /\ slots'[i].part = i - qsize
  BY PutFills
<1>2. /\ \A i \in 1 .. qsize :
           slots[i].msg # m /\ (FileOf(slots[i]) = Files[m] => IsSentinel(m))
  BY PuttingIsElsewhere DEF PutChunks
<1>3. size' = size
  BY DEF PutChunks
<1>4. \A i \in 1 .. qsize' : i \in 1 .. qsize \/ i \in qsize + 1 .. qsize'
  BY <1>1
<1> HIDE DEF m
<1>5. ASSUME NEW i \in 1 .. qsize', NEW n, NEW b,
             n = slots'[i].msg, b = i - slots'[i].part
      PROVE  /\ n \in Messages /\ slots'[i].part \in 1 .. size[n]
             /\ b >= 0 /\ b + size[n] <= qsize'
             /\ \A k \in 1 .. size[n] :
                  slots'[b + k] = [msg |-> n, part |-> k]
  <2>1. CASE i \in 1 .. qsize
    <3>1. /\ n \in Messages /\ slots[i].part \in 1 .. size[n]
          /\ b >= 0 /\ b + size[n] <= qsize
          /\ \A k \in 1 .. size[n] : slots[b + k] = [msg |-> n, part |-> k]
      BY <2>1, <1>1, <1>5 DEF IInv, Chunked
    <3>2. size[n] \in Nat /\ b \in Int
      BY <2>1, <3>1, <1>1, <1>5 DEF IInv, QueueTypeOK
    <3>3. ASSUME NEW k \in 1 .. size[n]
          PROVE  slots'[b + k] = [msg |-> n, part |-> k]
      <4>1. b + k \in 1 .. qsize
        BY <3>1, <3>2, <1>1
      <4> QED BY <4>1, <3>1, <1>1
    <3> QED BY <3>1, <3>2, <3>3, <2>1, <1>1
  <2>2. CASE i \in qsize + 1 .. qsize'
    <3>0. slots'[i].msg = m /\ slots'[i].part = i - qsize
      BY <2>2, <1>1
    <3>1. n = m /\ b = qsize
      BY <3>0, <2>2, <1>1, <1>5
    <3>2. ASSUME NEW k \in 1 .. size[m]
          PROVE  slots'[qsize + k] = [msg |-> m, part |-> k]
      <4>1. qsize + k \in qsize + 1 .. qsize' /\ (qsize + k) - qsize = k
        BY <1>1
      <4> QED BY <4>1, <1>1
    <3> QED BY <3>0, <3>1, <3>2, <2>2, <1>1
  <2> QED BY <2>1, <2>2, <1>4
<1>6. Chunked(slots, qsize)'
  BY <1>3, <1>5 DEF Chunked
<1>7. ASSUME NEW i \in 1 .. qsize', NEW j \in 1 .. qsize',
             slots'[i] = slots'[j]
      PROVE  i = j
  <2>1. CASE i \in 1 .. qsize /\ j \in 1 .. qsize
    BY <2>1, <1>7, <1>1 DEF IInv, NoChunkTwice
  <2>2. CASE i \in qsize + 1 .. qsize' /\ j \in qsize + 1 .. qsize'
    <3>1. slots'[i].part = i - qsize /\ slots'[j].part = j - qsize
      BY <2>2, <1>1
    <3>2. i - qsize = j - qsize
      BY <3>1, <1>7
    <3>3. i \in Int /\ j \in Int /\ qsize \in Int
      BY <1>1, <1>4
    <3> QED BY <3>2, <3>3
  <2>3. CASE i \in 1 .. qsize /\ j \in qsize + 1 .. qsize'
    <3>1. slots'[i] = slots[i] /\ slots[i].msg # m
      BY <2>3, <1>1, <1>2
    <3>2. slots'[j].msg = m
      BY <2>3, <1>1
    <3> QED BY <3>1, <3>2, <1>7
  <2>4. CASE j \in 1 .. qsize /\ i \in qsize + 1 .. qsize'
    <3>1. slots'[j] = slots[j] /\ slots[j].msg # m
      BY <2>4, <1>1, <1>2
    <3>2. slots'[i].msg = m
      BY <2>4, <1>1
    <3> QED BY <3>1, <3>2, <1>7
  <2> QED BY <2>1, <2>2, <2>3, <2>4, <1>4
<1>8. NoChunkTwice(slots, qsize)'
  BY <1>7 DEF NoChunkTwice
<1>9. ASSUME NEW i \in 1 .. qsize', NEW j \in 1 .. qsize',
             FileOf(slots'[i]) = FileOf(slots'[j]),
             FileOf(slots'[i]) # EndOfFile
      PROVE  slots'[i].msg = slots'[j].msg
  <2>0. \A k \in qsize + 1 .. qsize' :
          slots'[k].msg = m /\ FileOf(slots'[k]) = Files[m]
    BY <1>1, MessageFacts DEF FileOf
  <2>1. CASE i \in 1 .. qsize /\ j \in 1 .. qsize
    BY <2>1, <1>9, <1>1 DEF IInv, OneOfFile
  <2>2. CASE i \in qsize + 1 .. qsize' /\ j \in qsize + 1 .. qsize'
    BY <2>0, <2>2
  <2>3. CASE i \in 1 .. qsize /\ j \in qsize + 1 .. qsize'
    BY <2>3, <2>0, <1>1, <1>2, <1>9 DEF IsSentinel
  <2>4. CASE j \in 1 .. qsize /\ i \in qsize + 1 .. qsize'
    BY <2>4, <2>0, <1>1, <1>2, <1>9 DEF IsSentinel
  <2> QED BY <2>1, <2>2, <2>3, <2>4, <1>4
<1>10. OneOfFile(slots, qsize)'
  BY <1>9 DEF OneOfFile, FileOf
<1> QED BY <1>6, <1>8, <1>10

LEMMA GetKeepsArray ==
  ASSUME IInv, NEW g \in Getters, GetChunks(g)
  PROVE  /\ Chunked(slots, qsize)' /\ NoChunkTwice(slots, qsize)'
         /\ OneOfFile(slots, qsize)'
<1> DEFINE m == slots[1].msg
           c == size[m]
<1>1. /\ qsize \in Nat /\ m \in Messages /\ c \in 1 .. qsize
      /\ \A k \in 1 .. c : slots[k].msg = m
      /\ \A i \in c + 1 .. qsize : slots[i].msg # m
      /\ qsize' = qsize - c /\ qsize' \in Nat
      /\ \A i \in 1 .. qsize' : slots'[i] = slots[i + c]
  BY GetShifts
<1>2. size' = size
  BY DEF GetChunks
<1> HIDE DEF m, c
<1>3. \A i \in 1 .. qsize' : i + c \in c + 1 .. qsize /\ i + c \in 1 .. qsize
  BY <1>1
<1>4. ASSUME NEW i \in 1 .. qsize', NEW n, NEW b,
             n = slots'[i].msg, b = i - slots'[i].part
      PROVE  /\ n \in Messages /\ slots'[i].part \in 1 .. size[n]
             /\ b >= 0 /\ b + size[n] <= qsize'
             /\ \A k \in 1 .. size[n] :
                  slots'[b + k] = [msg |-> n, part |-> k]
  <2> DEFINE a == (i + c) - slots[i + c].part
  <2>0. i + c \in 1 .. qsize /\ slots[i + c].msg = n
        /\ slots'[i].part = slots[i + c].part
    BY <1>1, <1>3, <1>4
  <2>1. /\ n \in Messages /\ slots[i + c].part \in 1 .. size[n]
        /\ a >= 0 /\ a + size[n] <= qsize
        /\ \A k \in 1 .. size[n] : slots[a + k] = [msg |-> n, part |-> k]
    BY <2>0 DEF IInv, Chunked
  <2>2. n # m
    BY <1>1, <1>3, <1>4
  <2>3. size[n] \in Nat /\ a \in Int /\ c \in Nat
    BY <1>1, <2>1 DEF IInv, QueueTypeOK
  <2>4. b = a - c
    BY <2>0, <2>1, <2>3, <1>1, <1>4
  <2> HIDE DEF a
  <2>5. 1 \in 1 .. size[n] /\ size[n] >= 1
    BY <2>1, <2>3
  <2>6. slots[a + 1].msg = n
    <3>1. slots[a + 1] = [msg |-> n, part |-> 1]
      BY <2>1, <2>5
    <3> QED BY <3>1
  <2>7. a >= c
    <3>1. SUFFICES ASSUME a < c
                   PROVE  FALSE
      BY <2>3
    <3>2. a + 1 \in 1 .. c
      BY <3>1, <2>1, <2>3
    <3> QED BY <3>2, <2>6, <2>2, <1>1
  <2>8. ASSUME NEW k \in 1 .. size[n]
        PROVE  slots'[b + k] = [msg |-> n, part |-> k]
    <3>1. b + k \in 1 .. qsize' /\ (b + k) + c = a + k
      BY <2>1, <2>3, <2>4, <2>7, <1>1
    <3> QED BY <3>1, <2>1, <1>1
  <2> QED BY <2>0, <2>1, <2>3, <2>4, <2>7, <2>8, <1>1
<1>5. Chunked(slots, qsize)'
  BY <1>2, <1>4 DEF Chunked
<1>6. NoChunkTwice(slots, qsize)'
  BY <1>1, <1>3 DEF IInv, NoChunkTwice
<1>7. OneOfFile(slots, qsize)'
  BY <1>1, <1>3 DEF IInv, OneOfFile, FileOf
<1> QED BY <1>5, <1>6, <1>7
-----------------------------------------------------------------------------
(* The order of the messages in the queue.                                 *)

LEMMA RanksAreNumbers ==
  ASSUME NEW m
  PROVE  /\ IsFiniteSet(InSlots) /\ Cardinality(InSlots) \in Nat
         /\ UpTo(m) \subseteq InSlots
         /\ IsFiniteSet(UpTo(m)) /\ Cardinality(UpTo(m)) \in Nat
         /\ Cardinality(UpTo(m)) <= Cardinality(InSlots)
<1>1. Messages = 1 .. Len(Files) /\ Len(Files) \in Nat
  BY SharedQueueAssumption DEF Messages
<1>2. IsFiniteSet(Messages)
  BY <1>1, FS_Interval
<1>3. InSlots \in SUBSET Messages /\ UpTo(m) \in SUBSET InSlots
  BY DEF InSlots, UpTo
<1>4. IsFiniteSet(InSlots)
  BY <1>2, <1>3, FS_Subset
<1>5. IsFiniteSet(UpTo(m)) /\ Cardinality(UpTo(m)) <= Cardinality(InSlots)
  BY <1>3, <1>4, FS_Subset
<1> QED BY <1>3, <1>4, <1>5, FS_CardinalityType

\* Messages at different places have different ranks.
LEMMA LaterRanksHigher ==
  ASSUME QueueTypeOK, NoChunkTwice(slots, qsize),
         NEW k \in InSlots, NEW l \in InSlots,
         NEW i \in 1 .. qsize, NEW j \in 1 .. qsize,
         slots[i] = FirstChunk(k), slots[j] = FirstChunk(l), i < j
  PROVE  Cardinality(UpTo(k)) < Cardinality(UpTo(l))
<1>0. qsize \in Nat
  BY DEF QueueTypeOK
<1>1. UpTo(k) \in SUBSET UpTo(l)
  <2>1. ASSUME NEW x \in UpTo(k)
        PROVE  x \in UpTo(l)
    <3>1. PICK a \in 1 .. qsize, b \in 1 .. qsize :
            a <= b /\ slots[a] = FirstChunk(x) /\ slots[b] = FirstChunk(k)
      BY DEF UpTo
    <3>2. b = i
      BY <3>1 DEF NoChunkTwice
    <3>3. a <= j
      BY <3>1, <3>2, <1>0
    <3> QED BY <3>1, <3>3 DEF UpTo
  <2> QED BY <2>1
<1>2. l \in UpTo(l)
  <2>1. j <= j
    BY <1>0
  <2> QED BY <2>1 DEF UpTo
<1>3. l \notin UpTo(k)
  <2>1. ASSUME NEW a \in 1 .. qsize, NEW b \in 1 .. qsize, a <= b,
               slots[a] = FirstChunk(l), slots[b] = FirstChunk(k)
        PROVE  FALSE
    <3>1. a = j /\ b = i
      BY <2>1 DEF NoChunkTwice
    <3> QED BY <3>1, <2>1, <1>0
  <2> QED BY <2>1 DEF UpTo
<1>4. /\ Cardinality(UpTo(k)) <= Cardinality(UpTo(l))
      /\ Cardinality(UpTo(k)) = Cardinality(UpTo(l)) => UpTo(l) = UpTo(k)
  BY <1>1, RanksAreNumbers, FS_Subset
<1>5. Cardinality(UpTo(k)) # Cardinality(UpTo(l))
  BY <1>2, <1>3, <1>4
<1> QED BY <1>4, <1>5, RanksAreNumbers

LEMMA RanksDiffer ==
  ASSUME QueueTypeOK, NoChunkTwice(slots, qsize),
         NEW k \in InSlots, NEW l \in InSlots,
         Cardinality(UpTo(k)) = Cardinality(UpTo(l))
  PROVE  k = l
<1>0. qsize \in Nat
  BY DEF QueueTypeOK
<1>1. PICK i \in 1 .. qsize, j \in 1 .. qsize :
        slots[i] = FirstChunk(k) /\ slots[j] = FirstChunk(l)
  BY DEF InSlots
<1>2. i = j
  <2>1. /\ Cardinality(UpTo(k)) \in Nat
        /\ ~(i < j) /\ ~(j < i)
    BY <1>1, LaterRanksHigher, RanksAreNumbers
  <2> QED BY <2>1, <1>0
<1>3. FirstChunk(k) = FirstChunk(l)
  BY <1>1, <1>2
<1> QED BY <1>3 DEF FirstChunk

\* The message that is put is the last one.
LEMMA PutIsLast ==
  ASSUME IInv, NEW p \in Putters, PutChunks(p), NEW m, m = putting[p]
  PROVE  /\ m \in Messages /\ m \notin InSlots
         /\ InSlots' = InSlots \cup {m}
         /\ \A k \in InSlots : UpTo(k)' = UpTo(k)
         /\ UpTo(m)' = InSlots'
<1>1. /\ qsize \in Nat /\ m \in Messages
      /\ size[m] \in Nat /\ size[m] >= 1
      /\ qsize' = qsize + size[m]
      /\ \A i \in 1 .. qsize : slots'[i] = slots[i]
      /\ \A i \in qsize + 1 .. qsize' :
           /\ slots'[i] = [msg |-> m, part |-> i - qsize]
           /\ slots'[i].msg = m /\ slots'[i].part = i - qsize
  BY PutFills
<1>2. \A i \in 1 .. qsize : slots[i].msg # m
  BY PuttingIsElsewhere DEF PutChunks
<1>3. \A x : FirstChunk(x).msg = x /\ FirstChunk(x).part = 1
  BY DEF FirstChunk
<1>4. \A i \in 1 .. qsize : slots[i] # FirstChunk(m)
  BY <1>2, <1>3
<1>5. qsize + 1 \in qsize + 1 .. qsize' /\ qsize + 1 \in 1 .. qsize'
  BY <1>1
<1>6. slots'[qsize + 1] = FirstChunk(m)
  <2>1. slots'[qsize + 1] = [msg |-> m, part |-> (qsize + 1) - qsize]
    BY <1>1, <1>5
  <2>2. (qsize + 1) - qsize = 1
    BY <1>1
  <2> QED BY <2>1, <2>2 DEF FirstChunk
<1>7. ASSUME NEW x, NEW i \in 1 .. qsize'
      PROVE  slots'[i] = FirstChunk(x) <=>
               \/ i \in 1 .. qsize /\ slots[i] = FirstChunk(x)
               \/ i = qsize + 1 /\ x = m
  <2>1. CASE i \in 1 .. qsize
    BY <2>1, <1>1
  <2>2. CASE i \in qsize + 1 .. qsize'
    <3>1. slots'[i].msg = m /\ slots'[i].part = i - qsize
      BY <2>2, <1>1
    <3>2. slots'[i] = FirstChunk(x) => i = qsize + 1 /\ x = m
      BY <3>1, <2>2, <1>1, <1>3
    <3> QED BY <3>2, <2>2, <1>1, <1>6
  <2> QED BY <2>1, <2>2, <1>1
<1>8. m \notin InSlots
  BY <1>4 DEF InSlots
<1>9. \A i \in 1 .. qsize : i \in 1 .. qsize' /\ i <= qsize + 1
  BY <1>1
<1>10. InSlots' = InSlots \cup {m}
  BY <1>1, <1>5, <1>7, <1>9 DEF InSlots
<1>11. ASSUME NEW k \in InSlots
       PROVE  UpTo(k)' = UpTo(k)
  <2>0. k # m
    BY <1>8
  <2>1. ASSUME NEW x \in UpTo(k)
        PROVE  x \in UpTo(k)'
    <3>1. PICK i \in 1 .. qsize, j \in 1 .. qsize :
            i <= j /\ slots[i] = FirstChunk(x) /\ slots[j] = FirstChunk(k)
      BY DEF UpTo
    <3>2. slots'[i] = FirstChunk(x) /\ slots'[j] = FirstChunk(k)
      BY <3>1, <1>7, <1>9
    <3>3. x \in InSlots'
      BY <1>10 DEF UpTo
    <3> QED BY <3>1, <3>2, <3>3, <1>9 DEF UpTo
  <2>2. ASSUME NEW x \in UpTo(k)'
        PROVE  x \in UpTo(k)
    <3>1. PICK i \in 1 .. qsize', j \in 1 .. qsize' :
            i <= j /\ slots'[i] = FirstChunk(x) /\ slots'[j] = FirstChunk(k)
      BY DEF UpTo
    <3>2. j \in 1 .. qsize /\ slots[j] = FirstChunk(k)
      BY <3>1, <2>0, <1>7
    <3>3. i \in 1 .. qsize
      BY <3>1, <3>2, <1>1
    <3>4. slots[i] = FirstChunk(x)
      BY <3>1, <3>3, <1>1
    <3>5. x # m
      BY <3>3, <3>4, <1>4
    <3>6. x \in InSlots'
      BY <2>2 DEF UpTo
    <3>7. x \in InSlots
      BY <3>5, <3>6, <1>10
    <3> QED BY <3>1, <3>2, <3>3, <3>4, <3>7 DEF UpTo
  <2> QED BY <2>1, <2>2
<1>12. UpTo(m)' = InSlots'
  <2>1. ASSUME NEW x \in InSlots'
        PROVE  x \in UpTo(m)'
    <3>1. PICK i \in 1 .. qsize' : slots'[i] = FirstChunk(x)
      BY DEF InSlots
    <3>2. i <= qsize + 1
      BY <3>1, <1>1, <1>7
    <3> QED BY <3>1, <3>2, <1>5, <1>6 DEF UpTo
  <2> QED BY <2>1 DEF UpTo
<1> QED BY <1>1, <1>8, <1>10, <1>11, <1>12

\* The message that is got is the first one.
LEMMA GetIsFirst ==
  ASSUME IInv, NEW g \in Getters, GetChunks(g), NEW m, m = slots[1].msg
  PROVE  /\ m \in InSlots
         /\ InSlots' = InSlots \ {m}
         /\ UpTo(m) = {m}
         /\ \A k \in InSlots \ {m} :
              m \in UpTo(k) /\ UpTo(k)' = UpTo(k) \ {m}
<1> DEFINE c == size[m]
<1>1. /\ qsize \in Nat /\ m \in Messages /\ c \in 1 .. qsize
      /\ \A k \in 1 .. c :
           slots[k] = [msg |-> m, part |-> k] /\ slots[k].msg = m
      /\ \A i \in c + 1 .. qsize : slots[i].msg # m
      /\ qsize' = qsize - c /\ qsize' \in Nat
      /\ \A i \in 1 .. qsize' : slots'[i] = slots[i + c]
  BY GetShifts
<1> HIDE DEF c
<1>2. \A x : FirstChunk(x).msg = x /\ FirstChunk(x).part = 1
  BY DEF FirstChunk
<1>3. 1 \in 1 .. qsize /\ slots[1] = FirstChunk(m)
  <2>1. 1 \in 1 .. c
    BY <1>1
  <2>2. slots[1] = [msg |-> m, part |-> 1]
    BY <2>1, <1>1
  <2> QED BY <2>1, <2>2, <1>1 DEF FirstChunk
<1>4. \A i \in 1 .. qsize : slots[i] = FirstChunk(m) => i = 1
  BY <1>3 DEF IInv, NoChunkTwice
<1>5. ASSUME NEW x, x # m, NEW i \in 1 .. qsize, slots[i] = FirstChunk(x)
      PROVE  i - c \in 1 .. qsize' /\ slots'[i - c] = FirstChunk(x)
  <2>0. slots[i].msg = x
    BY <1>2, <1>5
  <2>1. i \notin 1 .. c
    BY <2>0, <1>1, <1>5
  <2>2. i - c \in 1 .. qsize' /\ (i - c) + c = i
    BY <2>1, <1>1
  <2> QED BY <2>2, <1>1, <1>5
<1>6. ASSUME NEW i \in 1 .. qsize'
      PROVE  /\ i + c \in 1 .. qsize /\ slots'[i] = slots[i + c]
             /\ slots'[i].msg # m
  <2>1. i + c \in c + 1 .. qsize
    BY <1>1
  <2> QED BY <2>1, <1>1
<1>7. m \in InSlots
  BY <1>1, <1>3 DEF InSlots
<1>8. InSlots' = InSlots \ {m}
  <2>1. ASSUME NEW x \in InSlots'
        PROVE  x \in InSlots \ {m}
    <3>1. PICK i \in 1 .. qsize' : slots'[i] = FirstChunk(x)
      BY DEF InSlots
    <3>2. i + c \in 1 .. qsize /\ slots[i + c] = FirstChunk(x) /\ x # m
      BY <3>1, <1>2, <1>6
    <3> QED BY <3>2 DEF InSlots
  <2>2. ASSUME NEW x \in InSlots, x # m
        PROVE  x \in InSlots'
    <3>1. PICK i \in 1 .. qsize : slots[i] = FirstChunk(x)
      BY DEF InSlots
    <3>2. i - c \in 1 .. qsize' /\ slots'[i - c] = FirstChunk(x)
      BY <3>1, <2>2, <1>5
    <3> QED BY <3>2 DEF InSlots
  <2> QED BY <2>1, <2>2
<1>9. UpTo(m) = {m}
  <2>1. ASSUME NEW x \in UpTo(m)
        PROVE  x = m
    <3>1. PICK i \in 1 .. qsize, j \in 1 .. qsize :
            i <= j /\ slots[i] = FirstChunk(x) /\ slots[j] = FirstChunk(m)
      BY DEF UpTo
    <3>2. i = 1
      BY <3>1, <1>4
    <3>3. FirstChunk(x) = FirstChunk(m)
      BY <3>1, <3>2, <1>3
    <3> QED BY <3>3, <1>2
  <2>2. m \in UpTo(m)
    <3>1. 1 <= 1
      OBVIOUS
    <3> QED BY <3>1, <1>3, <1>7 DEF UpTo
  <2> QED BY <2>1, <2>2
<1>10. ASSUME NEW k \in InSlots, k # m
       PROVE  m \in UpTo(k) /\ UpTo(k)' = UpTo(k) \ {m}
  <2>1. PICK n \in 1 .. qsize : slots[n] = FirstChunk(k)
    BY DEF InSlots
  <2>2. m \in UpTo(k)
    <3>1. 1 <= n
      BY <1>1
    <3> QED BY <2>1, <3>1, <1>3, <1>7 DEF UpTo
  <2>3. ASSUME NEW x \in UpTo(k)'
        PROVE  x \in UpTo(k) \ {m}
    <3>1. PICK i \in 1 .. qsize', j \in 1 .. qsize' :
            i <= j /\ slots'[i] = FirstChunk(x) /\ slots'[j] = FirstChunk(k)
      BY DEF UpTo
    <3>2. x \in InSlots \ {m}
      BY <2>3, <1>8 DEF UpTo
    <3>3. /\ i + c \in 1 .. qsize /\ slots[i + c] = FirstChunk(x)
          /\ j + c \in 1 .. qsize /\ slots[j + c] = FirstChunk(k)
      BY <3>1, <1>6
    <3>4. i + c <= j + c
      BY <3>1, <1>1
    <3> QED BY <3>2, <3>3, <3>4 DEF UpTo
  <2>4. ASSUME NEW x \in UpTo(k), x # m
        PROVE  x \in UpTo(k)'
    <3>1. PICK i \in 1 .. qsize, j \in 1 .. qsize :
            i <= j /\ slots[i] = FirstChunk(x) /\ slots[j] = FirstChunk(k)
      BY DEF UpTo
    <3>2. x \in InSlots'
      BY <2>4, <1>8 DEF UpTo
    <3>3. /\ i - c \in 1 .. qsize' /\ slots'[i - c] = FirstChunk(x)
          /\ j - c \in 1 .. qsize' /\ slots'[j - c] = FirstChunk(k)
      BY <3>1, <2>4, <1>5, <1>10
    <3>4. i - c <= j - c
      BY <3>1, <1>1
    <3> QED BY <3>2, <3>3, <3>4 DEF UpTo
  <2> QED BY <2>2, <2>3, <2>4
<1> QED BY <1>7, <1>8, <1>9, <1>10
-----------------------------------------------------------------------------
(* The invariant.                                                          *)

LEMMA QuietKeepsArray ==
  ASSUME IInv, UNCHANGED <<size, slots, qsize>>
  PROVE  /\ Chunked(slots, qsize)' /\ NoChunkTwice(slots, qsize)'
         /\ OneOfFile(slots, qsize)'
         /\ InSlots' = InSlots /\ (\A m : UpTo(m)' = UpTo(m)) /\ Ranked'
<1>1. /\ Chunked(slots, qsize)' /\ NoChunkTwice(slots, qsize)'
      /\ OneOfFile(slots, qsize)'
  BY DEF IInv, Chunked, NoChunkTwice, OneOfFile, FileOf
<1>2. InSlots' = InSlots
  BY DEF InSlots
<1>3. \A m : UpTo(m)' = UpTo(m)
  BY <1>2 DEF UpTo
<1>4. Ranked'
  BY <1>2, <1>3 DEF IInv, Ranked
<1> QED BY <1>1, <1>2, <1>3, <1>4

LEMMA BeginPutKeeps ==
  ASSUME IInv, NEW p \in Putters, NEW m \in Messages, BeginPut(p, m)
  PROVE  IInv'
<1>1. /\ qstate[p] = "idle" /\ m \in unsent
      /\ Files[m] # EndOfFile => ~Underway(Files[m])
      /\ unsent' = unsent \ {m}
      /\ putting' = [putting EXCEPT ![p] = m]
      /\ qstate' = [qstate EXCEPT ![p] = "ready"]
      /\ UNCHANGED <<size, slots, qsize, qlock, received>>
  BY DEF BeginPut
<1>2. QueueTypeOK /\ m # NoMessage
  BY MessageFacts DEF IInv
<1>3. QueueTypeOK'
  BY <1>1, <1>2 DEF QueueTypeOK
<1>4. \A q \in Putters : putting'[q] = IF q = p THEN m ELSE putting[q]
  BY <1>1, <1>2 DEF QueueTypeOK
<1>5. \A q \in Putters : qstate'[q] = IF q = p THEN "ready" ELSE qstate[q]
  BY <1>1, <1>2 DEF QueueTypeOK
<1>6. PuttingIsNew'
  BY <1>1, <1>2, <1>4, <1>5 DEF IInv, PuttingIsNew
<1>7. \A i \in 1 .. qsize : slots[i].msg # m
  BY <1>1 DEF IInv, SlotsAreNotPending
<1>8. ASSUME ~IsSentinel(m)
      PROVE  /\ \A q \in Putters :
                  putting[q] # NoMessage => Files[putting[q]] # Files[m]
             /\ \A i \in 1 .. qsize : FileOf(slots[i]) # Files[m]
  BY <1>8, <1>1 DEF IsSentinel, Underway
<1>9. SlotsAreNotPending'
  <2>1. ASSUME NEW i \in 1 .. qsize, NEW q \in Putters
        PROVE  /\ slots[i].msg \notin unsent'
               /\ putting'[q] # slots[i].msg
               /\ putting'[q] # NoMessage /\ ~IsSentinel(putting'[q]) =>
                    Files[putting'[q]] # FileOf(slots[i])
    <3>1. CASE q = p
      <4>1. putting'[q] = m
        BY <3>1, <1>4
      <4>2. slots[i].msg \notin unsent'
        BY <1>1 DEF IInv, SlotsAreNotPending
      <4> QED BY <4>1, <4>2, <1>7, <1>8
    <3>2. CASE q # p
      BY <3>2, <1>1, <1>4 DEF IInv, SlotsAreNotPending
    <3> QED BY <3>1, <3>2
  <2>2. \A i \in 1 .. qsize : FileOf(slots[i])' = FileOf(slots[i])
    BY <1>1 DEF FileOf
  <2> QED BY <2>1, <2>2, <1>1 DEF SlotsAreNotPending, IsSentinel, FileOf
<1>10. OnePutOfFile'
  BY <1>4, <1>8 DEF IInv, OnePutOfFile, IsSentinel
<1>11. LockLostToFullMessage'
  BY <1>1 DEF IInv, LockLostToFullMessage, Whole
<1>12. \A n \in Messages : IsSentinel(n)' => size'[n] = 1
  BY <1>1 DEF IInv, IsSentinel
<1> QED BY <1>1, <1>3, <1>6, <1>9, <1>10, <1>11, <1>12, QuietKeepsArray
      DEF IInv

LEMMA PutChunksKeeps ==
  ASSUME IInv, NEW p \in Putters, PutChunks(p)
  PROVE  IInv'
<1> DEFINE m == putting[p]
<1>1. /\ qstate[p] = "ready" /\ qlock = "free" /\ Fits(m)
      /\ putting' = [putting EXCEPT ![p] = NoMessage]
      /\ Notify(Getters, p, "idle")
      /\ UNCHANGED <<size, unsent, qlock, received>>
  BY DEF PutChunks
<1>2. /\ qsize \in Nat /\ Capacity \in Nat
      /\ m \in Messages /\ size[m] \in Nat /\ size[m] >= 1
      /\ qsize' = qsize + size[m] /\ qsize' <= Capacity
      /\ slots' \in [1 .. Capacity -> Chunk \cup {Blank}]
      /\ \A i \in 1 .. qsize : slots'[i] = slots[i]
      /\ \A i \in qsize + 1 .. qsize' : slots'[i].msg = m
  BY PutFills
<1>3. /\ qstate' \in [Putters \cup Getters ->
                         {"idle", "ready", "asleep", "ended"}]
      /\ qstate'[p] = "idle"
      /\ \A t \in (Putters \cup Getters) \ {p} :
           qstate'[t] = "idle" <=> qstate[t] = "idle"
  BY <1>1, NotifyWakes DEF IInv
<1>4. \A q \in Putters :
        putting'[q] = IF q = p THEN NoMessage ELSE putting[q]
  BY <1>1 DEF IInv, QueueTypeOK
<1>5. m \notin unsent /\ m # NoMessage
  BY <1>1, <1>2, MessageFacts, PuttingIsElsewhere
<1>6. QueueTypeOK'
  <2>1. qsize' \in 0 .. Capacity
    BY <1>2
  <2>2. putting' \in [Putters -> Messages \cup {NoMessage}]
    BY <1>1 DEF IInv, QueueTypeOK
  <2> QED BY <2>1, <2>2, <1>1, <1>2, <1>3 DEF IInv, QueueTypeOK
<1>7. PuttingIsNew'
  <2>1. NoMessage \notin unsent
    BY MessageFacts DEF IInv, QueueTypeOK
  <2> QED BY <2>1, <1>1, <1>3, <1>4 DEF IInv, PuttingIsNew
<1> HIDE DEF m
<1>8. SlotsAreNotPending'
  <2>1. ASSUME NEW i \in 1 .. qsize', NEW q \in Putters
        PROVE  /\ slots'[i].msg \notin unsent
               /\ putting'[q] # slots'[i].msg
               /\ putting'[q] # NoMessage /\ ~IsSentinel(putting'[q]) =>
                    Files[putting'[q]] # FileOf(slots'[i])
    <3>1. CASE i \in 1 .. qsize
      <4>1. slots'[i] = slots[i]
        BY <3>1, <1>2
      <4>2. slots[i].msg \in Messages
        BY <3>1 DEF IInv, Chunked
      <4>3. /\ slots[i].msg \notin unsent
            /\ \A r \in Putters : putting[r] # slots[i].msg
               /\ (putting[r] # NoMessage /\ ~IsSentinel(putting[r]) =>
                     Files[putting[r]] # FileOf(slots[i]))
        BY <3>1 DEF IInv, SlotsAreNotPending
      <4> QED BY <4>1, <4>2, <4>3, <1>4, MessageFacts
    <3>2. CASE i \in qsize + 1 .. qsize'
      <4>1. slots'[i].msg = m /\ FileOf(slots'[i]) = Files[m]
        BY <3>2, <1>2, <1>5 DEF FileOf
      <4>2. CASE q = p
        BY <4>1, <4>2, <1>4, <1>5
      <4>3. CASE q # p
        <5>1. putting'[q] = putting[q]
          BY <4>3, <1>4
        <5>2. putting[q] # m
          BY <4>3, <1>5 DEF IInv, PuttingIsNew, m
        <5>3. putting[q] # NoMessage /\ ~IsSentinel(putting[q]) =>
                Files[putting[q]] # Files[m]
          BY <4>3, <1>5 DEF IInv, OnePutOfFile, m
        <5> QED BY <4>1, <5>1, <5>2, <5>3, <1>5
      <4> QED BY <4>2, <4>3
    <3> QED BY <3>1, <3>2, <1>2
  <2> QED BY <2>1, <1>1 DEF SlotsAreNotPending, IsSentinel, FileOf
<1>9. OnePutOfFile'
  BY <1>4 DEF IInv, OnePutOfFile, IsSentinel
<1>10. Ranked'
  <2>0. PICK r : r = putting[p]
    OBVIOUS
  <2>1. /\ r \notin InSlots /\ InSlots' = InSlots \cup {r}
        /\ \A k \in InSlots : UpTo(k)' = UpTo(k)
        /\ UpTo(r)' = InSlots'
    BY <2>0, PutIsLast
  <2>2. Cardinality(InSlots) \in Nat
        /\ Cardinality(InSlots') = Cardinality(InSlots) + 1
    BY <2>1, RanksAreNumbers, FS_AddElement
  <2>3. ASSUME NEW n \in 1 .. Cardinality(InSlots')
        PROVE  \E k \in InSlots' : Cardinality(UpTo(k)') = n
    <3>1. CASE n = Cardinality(InSlots')
      BY <3>1, <2>1
    <3>2. CASE n \in 1 .. Cardinality(InSlots)
      BY <3>2, <2>1 DEF IInv, Ranked
    <3> QED BY <3>1, <3>2, <2>2
  <2> QED BY <2>3 DEF Ranked
<1>11. LockLostToFullMessage'
  BY <1>1 DEF LockLostToFullMessage
<1>12. \A n \in Messages : IsSentinel(n)' => size'[n] = 1
  BY <1>1 DEF IInv, IsSentinel
<1> QED BY <1>6, <1>7, <1>8, <1>9, <1>10, <1>11, <1>12, PutKeepsArray DEF IInv

LEMMA GetChunksKeeps ==
  ASSUME IInv, NEW g \in Getters, GetChunks(g)
  PROVE  IInv'
<1> DEFINE m == slots[1].msg
           next == IF FileOf(slots[1]) = EndOfFile THEN "ended" ELSE "ready"
<1>1. /\ qstate[g] = "ready" /\ qlock = "free"
      /\ Notify(Putters, g, next)
      /\ UNCHANGED <<size, unsent, putting, qlock>>
  BY DEF GetChunks
<1>2. /\ qsize \in Nat /\ Capacity \in Nat /\ qsize <= Capacity
      /\ m \in Messages /\ size[m] \in 1 .. qsize
      /\ \A k \in 1 .. size[m] : slots[k] = [msg |-> m, part |-> k]
      /\ qsize' = qsize - size[m] /\ qsize' \in Nat
      /\ slots' \in [1 .. Capacity -> Chunk \cup {Blank}]
      /\ \A i \in 1 .. qsize' : slots'[i] = slots[i + size[m]]
      /\ received' = Append(received, SubSeq(slots, 1, size[m]))
  BY GetShifts
<1>3. next \in {"idle", "ready", "ended"}
  OBVIOUS
<1>4. g \in Putters \cup Getters /\ g \notin Putters
  BY SharedQueueAssumption
<1>5. /\ qstate' \in [Putters \cup Getters ->
                         {"idle", "ready", "asleep", "ended"}]
      /\ \A t \in (Putters \cup Getters) \ {g} :
           qstate'[t] = "idle" <=> qstate[t] = "idle"
  <2> HIDE DEF next
  <2> QED BY <1>1, <1>3, <1>4, NotifyWakes DEF IInv
<1> HIDE DEF m, next
<1>6. QueueTypeOK'
  <2>1. qsize' \in 0 .. Capacity
    BY <1>2
  <2>2. ASSUME NEW k \in 1 .. size[m]
        PROVE  slots[k] \in Chunk
    <3>1. k \in 1 .. Capacity
      BY <1>2
    <3>2. [msg |-> m, part |-> k] \in Chunk
      BY <3>1, <1>2 DEF Chunk
    <3> QED BY <3>2, <1>2
  <2>3. SubSeq(slots, 1, size[m]) \in Seq(Chunk)
    <3>1. 1 \in Int /\ size[m] \in Int
      BY <1>2
    <3> QED BY <2>2, <3>1, SubSeqProperties
  <2>4. received' \in Seq(Seq(Chunk))
    BY <2>3, <1>2, AppendProperties DEF IInv, QueueTypeOK
  <2> QED BY <2>1, <2>4, <1>1, <1>2, <1>5 DEF IInv, QueueTypeOK
<1>7. PuttingIsNew'
  BY <1>1, <1>4, <1>5 DEF IInv, PuttingIsNew
<1>8. SlotsAreNotPending'
  <2>1. ASSUME NEW i \in 1 .. qsize'
        PROVE  i + size[m] \in 1 .. qsize /\ slots'[i] = slots[i + size[m]]
    BY <1>2
  <2> QED BY <2>1, <1>1 DEF IInv, SlotsAreNotPending, IsSentinel, FileOf
<1>9. OnePutOfFile'
  BY <1>1 DEF IInv, OnePutOfFile, IsSentinel
<1>10. Ranked'
  <2>1. /\ m \in InSlots /\ InSlots' = InSlots \ {m}
        /\ UpTo(m) = {m}
        /\ \A k \in InSlots \ {m} :
             m \in UpTo(k) /\ UpTo(k)' = UpTo(k) \ {m}
    BY GetIsFirst DEF m
  <2>2. Cardinality(InSlots) \in Nat
        /\ Cardinality(InSlots') = Cardinality(InSlots) - 1
    BY <2>1, RanksAreNumbers, FS_RemoveElement
  <2>3. Cardinality(UpTo(m)) = 1
    BY <2>1, FS_Singleton
  <2>4. \A k \in InSlots \ {m} :
          /\ Cardinality(UpTo(k)) \in Nat
          /\ Cardinality(UpTo(k)') = Cardinality(UpTo(k)) - 1
    BY <2>1, RanksAreNumbers, FS_RemoveElement
  <2>5. ASSUME NEW n \in 1 .. Cardinality(InSlots')
        PROVE  \E k \in InSlots' : Cardinality(UpTo(k)') = n
    <3>1. n + 1 \in 1 .. Cardinality(InSlots) /\ n + 1 # 1 /\ n \in Nat
      BY <2>2
    <3>2. PICK k \in InSlots : Cardinality(UpTo(k)) = n + 1
      BY <3>1 DEF IInv, Ranked
    <3>3. k # m
      BY <3>1, <3>2, <2>3
    <3> QED BY <3>1, <3>2, <3>3, <2>1, <2>4
  <2> QED BY <2>5 DEF Ranked
<1>11. LockLostToFullMessage'
  BY <1>1 DEF LockLostToFullMessage
<1>12. \A n \in Messages : IsSentinel(n)' => size'[n] = 1
  BY <1>1 DEF IInv, IsSentinel
<1> QED BY <1>6, <1>7, <1>8, <1>9, <1>10, <1>11, <1>12, GetKeepsArray DEF IInv

THEOREM QueueInvariance == QueueSpec => []IInv
<1>1. QueueInit => IInv
  <2>1. SUFFICES ASSUME QueueInit
                 PROVE  IInv
    OBVIOUS
  <2>2. QueueTypeOK
    <3>1. qsize \in 0 .. Capacity
      BY <2>1, SharedQueueAssumption DEF QueueInit
    <3>2. received \in Seq(Seq(Chunk))
      BY <2>1, EmptySeq DEF QueueInit
    <3> QED BY <2>1, <3>1, <3>2 DEF QueueInit, QueueTypeOK
  <2>3. qsize = 0 /\ 1 .. qsize = {}
    BY <2>1 DEF QueueInit
  <2>4. InSlots = {}
    BY <2>3 DEF InSlots
  <2>5. Ranked
    BY <2>4, FS_EmptySet DEF Ranked
  <2>6. PuttingIsNew
    <3>1. NoMessage \notin unsent
      BY <2>1, MessageFacts DEF QueueInit
    <3> QED BY <3>1, <2>1 DEF QueueInit, PuttingIsNew
  <2>7. Chunked(slots, qsize) /\ NoChunkTwice(slots, qsize)
        /\ OneOfFile(slots, qsize) /\ SlotsAreNotPending
    BY <2>3 DEF Chunked, NoChunkTwice, OneOfFile, SlotsAreNotPending
  <2>8. OnePutOfFile /\ LockLostToFullMessage
        /\ \A m \in Messages : IsSentinel(m) => size[m] = 1
    BY <2>1 DEF QueueInit, OnePutOfFile, LockLostToFullMessage, IsSentinel
  <2> QED BY <2>2, <2>5, <2>6, <2>7, <2>8 DEF IInv
<1>2. IInv /\ [QueueNext]_queueVars => IInv'
  <2>1. SUFFICES ASSUME IInv, [QueueNext]_queueVars
                 PROVE  IInv'
    OBVIOUS
  <2>2. ASSUME NEW p \in Putters, PutWaits(p)
        PROVE  IInv'
    <3>1. /\ qstate[p] = "ready"
          /\ qstate' = [qstate EXCEPT ![p] = "asleep"]
          /\ UNCHANGED <<size, unsent, putting, slots, qsize, qlock, received>>
      BY <2>2 DEF PutWaits
    <3> QED BY <2>1, <3>1, QuietKeepsArray
            DEF IInv, QueueTypeOK, PuttingIsNew, SlotsAreNotPending,
                OnePutOfFile, LockLostToFullMessage, Whole, FileOf, IsSentinel
  <2>3. ASSUME NEW g \in Getters, GetWaits(g)
        PROVE  IInv'
    <3>1. /\ g \notin Putters
          /\ qstate' = [qstate EXCEPT ![g] = "asleep"]
          /\ UNCHANGED <<size, unsent, putting, slots, qsize, qlock, received>>
      BY <2>3, SharedQueueAssumption DEF GetWaits
    <3> QED BY <2>1, <3>1, QuietKeepsArray
            DEF IInv, QueueTypeOK, PuttingIsNew, SlotsAreNotPending,
                OnePutOfFile, LockLostToFullMessage, Whole, FileOf, IsSentinel
  <2>4. ASSUME NEW g \in Getters, GetFails(g)
        PROVE  IInv'
    <3>1. /\ g \notin Putters /\ qlock' = "lost"
          /\ qstate' = [qstate EXCEPT ![g] = "ended"]
          /\ UNCHANGED <<size, unsent, putting, slots, qsize, received>>
          /\ qsize > 0 /\ PastTheEnd
      BY <2>4, SharedQueueAssumption DEF GetFails
    <3>2. LockLostToFullMessage'
      <4>1. \E m \in Messages : size[m] = Capacity /\ slots = Whole(m)
        BY <2>1, <3>1, LostToFirst DEF IInv
      <4> QED BY <4>1, <3>1 DEF LockLostToFullMessage, Whole
    <3> QED BY <2>1, <3>1, <3>2, QuietKeepsArray
            DEF IInv, QueueTypeOK, PuttingIsNew, SlotsAreNotPending,
                OnePutOfFile, FileOf, IsSentinel
  <2>5. ASSUME UNCHANGED queueVars
        PROVE  IInv'
    BY <2>1, <2>5, QuietKeepsArray
       DEF queueVars, IInv, QueueTypeOK, PuttingIsNew, SlotsAreNotPending,
           OnePutOfFile, LockLostToFullMessage, Whole, FileOf, IsSentinel
  <2> QED BY <2>1, <2>2, <2>3, <2>4, <2>5, BeginPutKeeps, PutChunksKeeps,
             GetChunksKeeps DEF QueueNext, Putter, Getter
<1> QED BY <1>1, <1>2, PTL DEF QueueSpec

\* The lock of the queue is lost only to a message that fills the array by
\* itself (get reads past the end).
THEOREM LockIsLostToFullMessage == QueueSpec => []LockLostToFullMessage
<1>1. IInv => LockLostToFullMessage
  BY DEF IInv
<1> QED BY <1>1, QueueInvariance, PTL

\* Every variable of the queue keeps its type.
THEOREM QueueTypeCorrect == QueueSpec => []QueueTypeOK
<1>1. IInv => QueueTypeOK
  BY DEF IInv
<1> QED BY <1>1, QueueInvariance, PTL
-----------------------------------------------------------------------------
(* The queue of messages that the array implements.                        *)

NthIsRanked ==
  \A n \in 1 .. Cardinality(InSlots) :
    /\ Nth(n) \in InSlots /\ Cardinality(UpTo(Nth(n))) = n
    /\ \A k \in InSlots : Cardinality(UpTo(k)) = n => k = Nth(n)

LEMMA RankedByNth == IInv => NthIsRanked
<1>1. SUFFICES ASSUME IInv, NEW n \in 1 .. Cardinality(InSlots)
               PROVE  /\ Nth(n) \in InSlots /\ Cardinality(UpTo(Nth(n))) = n
                      /\ \A k \in InSlots :
                           Cardinality(UpTo(k)) = n => k = Nth(n)
  BY DEF NthIsRanked
<1>2. \E m \in InSlots : Cardinality(UpTo(m)) = n
  BY <1>1 DEF IInv, Ranked
<1>3. Nth(n) \in InSlots /\ Cardinality(UpTo(Nth(n))) = n
  BY <1>2 DEF Nth
<1>4. ASSUME NEW k \in InSlots, Cardinality(UpTo(k)) = n
      PROVE  k = Nth(n)
  BY <1>1, <1>3, <1>4, RanksDiffer DEF IInv
<1> QED BY <1>3, <1>4

LEMMA RankedByNthNext == IInv' => NthIsRanked'
  BY RankedByNth, PTL

LEMMA InQueueIsASequence == IInv =>
  /\ InQueue \in Seq(Messages) /\ Len(InQueue) = Cardinality(InSlots)
  /\ \A n \in 1 .. Cardinality(InSlots) : InQueue[n] = Nth(n)
<1>1. SUFFICES ASSUME IInv
               PROVE  /\ InQueue \in Seq(Messages)
                      /\ Len(InQueue) = Cardinality(InSlots)
                      /\ \A n \in 1 .. Cardinality(InSlots) :
                           InQueue[n] = Nth(n)
  OBVIOUS
<1> DEFINE N == Cardinality(InSlots)
<1>2. N \in Nat
  BY RanksAreNumbers
<1>3. \A n \in 1 .. N : Nth(n) \in Messages
  BY <1>1, RankedByNth DEF NthIsRanked, InSlots
<1>4. InQueue = [n \in 1 .. N |-> Nth(n)]
  BY DEF InQueue
<1> HIDE DEF N
<1>5. InQueue \in [1 .. N -> Messages]
  BY <1>3, <1>4
<1>6. InQueue \in Seq(Messages) /\ Len(InQueue) = N
  BY <1>2, <1>5
<1> QED BY <1>4, <1>6 DEF N

LEMMA InQueueIsASequenceNext == IInv' =>
  (/\ InQueue \in Seq(Messages) /\ Len(InQueue) = Cardinality(InSlots)
   /\ \A n \in 1 .. Cardinality(InSlots) : InQueue[n] = Nth(n))'
  BY InQueueIsASequence, PTL

LEMMA PutAppends ==
  ASSUME IInv, NEW p \in Putters, PutChunks(p)
  PROVE  \E m \in Messages : Fifo!PutMessage(m)
<1>0. PICK m : m = putting[p]
  OBVIOUS
<1>1. /\ m \in Messages /\ m \notin InSlots
      /\ InSlots' = InSlots \cup {m}
      /\ \A k \in InSlots : UpTo(k)' = UpTo(k)
      /\ UpTo(m)' = InSlots'
  BY <1>0, PutIsLast
<1>2. Cardinality(InSlots) \in Nat
      /\ Cardinality(InSlots') = Cardinality(InSlots) + 1
  BY <1>1, RanksAreNumbers, FS_AddElement
<1>3. IInv' /\ NthIsRanked /\ NthIsRanked'
  BY PutChunksKeeps, RankedByNth, RankedByNthNext
<1>4. /\ InQueue \in Seq(Messages) /\ Len(InQueue) = Cardinality(InSlots)
      /\ \A n \in 1 .. Cardinality(InSlots) : InQueue[n] = Nth(n)
  BY InQueueIsASequence
<1>5. /\ InQueue' \in Seq(Messages) /\ Len(InQueue') = Cardinality(InSlots')
      /\ \A n \in 1 .. Cardinality(InSlots') : InQueue'[n] = Nth(n)'
  BY <1>3, InQueueIsASequenceNext
<1>11. \A n \in 1 .. Cardinality(InSlots') :
         \A k \in InSlots' : Cardinality(UpTo(k)') = n => k = Nth(n)'
  BY <1>3 DEF NthIsRanked
<1>12. /\ Append(InQueue, m) \in Seq(Messages)
       /\ Len(Append(InQueue, m)) = Cardinality(InSlots')
       /\ Append(InQueue, m)[Cardinality(InSlots')] = m
       /\ \A n \in 1 .. Cardinality(InSlots) : Append(InQueue, m)[n] = Nth(n)
  BY <1>1, <1>2, <1>4, AppendProperties
<1>6. ASSUME NEW n \in 1 .. Cardinality(InSlots')
      PROVE  InQueue'[n] = Append(InQueue, m)[n]
  <2>1. CASE n = Cardinality(InSlots')
    <3>1. m = Nth(n)'
      BY <2>1, <1>1, <1>11
    <3> QED BY <2>1, <3>1, <1>5, <1>12
  <2>2. CASE n \in 1 .. Cardinality(InSlots)
    <3>1. Nth(n) \in InSlots /\ Cardinality(UpTo(Nth(n))) = n
      BY <2>2, <1>3 DEF NthIsRanked
    <3>2. PICK k \in InSlots : k = Nth(n)
      BY <3>1
    <3>3. Cardinality(UpTo(k)') = n
      BY <3>1, <3>2, <1>1
    <3>4. k = Nth(n)'
      BY <3>3, <1>1, <1>11
    <3> QED BY <2>2, <3>2, <3>4, <1>5, <1>12
  <2>3. n = Cardinality(InSlots') \/ n \in 1 .. Cardinality(InSlots)
    BY <1>2
  <2> QED BY <2>1, <2>2, <2>3
<1>7. InQueue' = Append(InQueue, m)
  BY <1>5, <1>6, <1>12, SeqEqual
<1>8. Unput' = Unput \ {m} /\ m \in Unput
  <2>1. putting' = [putting EXCEPT ![p] = NoMessage] /\ unsent' = unsent
    BY DEF PutChunks
  <2>2. m # NoMessage /\ m \notin unsent
    BY <1>0, <1>1, MessageFacts DEF IInv, PuttingIsNew
  <2>3. \A q \in Putters : q # p => putting[q] # m
    BY <1>0, <2>2 DEF IInv, PuttingIsNew
  <2>4. \A q \in Putters :
          putting'[q] = IF q = p THEN NoMessage ELSE putting[q]
    BY <2>1 DEF IInv, QueueTypeOK
  <2> QED BY <1>0, <2>1, <2>2, <2>3, <2>4 DEF Unput
<1>9. Delivered' = Delivered
  BY DEF PutChunks, Delivered, MessageOf, Whole
<1> QED BY <1>1, <1>7, <1>8, <1>9 DEF Fifo!PutMessage

LEMMA GetDelivers ==
  ASSUME IInv, NEW g \in Getters, GetChunks(g)
  PROVE  Fifo!GetMessage
<1>0. PICK m : m = slots[1].msg
  OBVIOUS
<1>1. /\ m \in InSlots /\ InSlots' = InSlots \ {m}
      /\ UpTo(m) = {m}
      /\ \A k \in InSlots \ {m} :
           m \in UpTo(k) /\ UpTo(k)' = UpTo(k) \ {m}
  BY <1>0, GetIsFirst
<1>2. /\ Cardinality(InSlots) \in Nat /\ Cardinality(InSlots) # 0
      /\ Cardinality(InSlots') = Cardinality(InSlots) - 1
  BY <1>1, RanksAreNumbers, FS_RemoveElement, FS_EmptySet
<1>3. IInv' /\ NthIsRanked /\ NthIsRanked'
  BY GetChunksKeeps, RankedByNth, RankedByNthNext
<1>4. /\ InQueue \in Seq(Messages) /\ Len(InQueue) = Cardinality(InSlots)
      /\ \A n \in 1 .. Cardinality(InSlots) : InQueue[n] = Nth(n)
  BY InQueueIsASequence
<1>5. /\ InQueue' \in Seq(Messages) /\ Len(InQueue') = Cardinality(InSlots')
      /\ \A n \in 1 .. Cardinality(InSlots') : InQueue'[n] = Nth(n)'
  BY <1>3, InQueueIsASequenceNext
<1>11. \A n \in 1 .. Cardinality(InSlots') :
         \A k \in InSlots' : Cardinality(UpTo(k)') = n => k = Nth(n)'
  BY <1>3 DEF NthIsRanked
<1>6. InQueue # <<>> /\ Head(InQueue) = m
  <2>1. 1 \in 1 .. Cardinality(InSlots)
    BY <1>2
  <2>2. Cardinality(UpTo(m)) = 1
    BY <1>1, FS_Singleton
  <2>3. InQueue[1] = m
    BY <2>1, <2>2, <1>1, <1>3, <1>4 DEF NthIsRanked
  <2> QED BY <2>1, <2>3, <1>4
<1>7. ASSUME NEW n \in 1 .. Cardinality(InSlots')
      PROVE  InQueue'[n] = InQueue[n + 1]
  <2>1. n + 1 \in 1 .. Cardinality(InSlots) /\ n + 1 # 1 /\ n \in Nat
    BY <1>2
  <2>2. PICK k : k = Nth(n + 1)
    OBVIOUS
  <2>3. k \in InSlots /\ Cardinality(UpTo(k)) = n + 1
    BY <2>1, <2>2, <1>3 DEF NthIsRanked
  <2>4. k # m
    BY <2>1, <2>3, <1>1, FS_Singleton
  <2>5. Cardinality(UpTo(k)') = n
    <3>1. UpTo(k)' = UpTo(k) \ {m} /\ m \in UpTo(k)
      BY <1>1, <2>3, <2>4
    <3>2. Cardinality(UpTo(k) \ {m}) = Cardinality(UpTo(k)) - 1
      BY <3>1, RanksAreNumbers, FS_RemoveElement
    <3> QED BY <3>1, <3>2, <2>1, <2>3
  <2>6. k = Nth(n)'
    BY <2>3, <2>4, <2>5, <1>1, <1>11
  <2> QED BY <2>1, <2>2, <2>6, <1>4, <1>5
<1>8. InQueue' = Tail(InQueue)
  <2>1. /\ Tail(InQueue) \in Seq(Messages)
        /\ Len(Tail(InQueue)) = Cardinality(InSlots')
        /\ \A i \in 1 .. Len(Tail(InQueue)) :
             Tail(InQueue)[i] = InQueue[i + 1]
    BY <1>2, <1>4, <1>6, HeadTailProperties
  <2> QED BY <2>1, <1>5, <1>7, SeqEqual
<1>9. Delivered' = Append(Delivered, m)
  <2> DEFINE c == SubSeq(slots, 1, size[m])
  <2>0. /\ qsize \in Nat /\ m \in Messages /\ size[m] \in 1 .. qsize
        /\ \A k \in 1 .. size[m] :
             slots[k] = [msg |-> m, part |-> k] /\ slots[k].msg = m
        /\ received' = Append(received, c)
    BY <1>0, GetShifts
  <2>1. /\ m \in Messages /\ size[m] \in Nat /\ size[m] >= 1
        /\ received' = Append(received, c)
        /\ size' = size
    <3>1. size' = size
      BY DEF GetChunks
    <3>2. \A n \in 1 .. qsize : n \in Nat /\ n >= 1
      BY <2>0
    <3> QED BY <3>1, <3>2, <2>0
  <2>2. c = Whole(m)
    <3>1. c = [k \in 1 .. size[m] |-> slots[k]]
      BY <2>0, <2>1
    <3> QED BY <3>1, <2>0 DEF Whole
  <2>3. c[1].msg = m
    <3> HIDE DEF c
    <3>1. 1 \in 1 .. size[m]
      BY <2>1
    <3>2. Whole(m)[1] = [msg |-> m, part |-> 1]
      BY <3>1 DEF Whole
    <3>3. c[1] = [msg |-> m, part |-> 1]
      BY <3>2, <2>2
    <3> QED BY <3>3
  <2>4. MessageOf(c) = m
    BY <2>2, <2>3 DEF MessageOf
  <2>5. received \in Seq(Seq(Chunk)) /\ received' \in Seq(Seq(Chunk))
    BY <1>3 DEF IInv, QueueTypeOK
  <2> HIDE DEF c
  <2>6. /\ Len(received) \in Nat /\ DOMAIN received = 1 .. Len(received)
        /\ DOMAIN received' = 1 .. Len(received) + 1
        /\ \A i \in 1 .. Len(received) : received'[i] = received[i]
        /\ received'[Len(received) + 1] = c
    BY <2>1, <2>5
  <2>7. \A x : MessageOf(x)' = MessageOf(x)
    BY <2>1 DEF MessageOf, Whole
  <2>8. Delivered' = [i \in 1 .. Len(received) + 1 |-> MessageOf(received'[i])]
    BY <2>1, <2>6 DEF Delivered, MessageOf, Whole
  <2>9. Delivered = [i \in 1 .. Len(received) |-> MessageOf(received[i])]
    BY <2>6 DEF Delivered
  <2> QED BY <2>4, <2>6, <2>8, <2>9
<1>10. Unput' = Unput
  BY DEF GetChunks, Unput
<1> QED BY <1>6, <1>8, <1>9, <1>10 DEF Fifo!GetMessage

\* The queue between the processes is a queue of whole messages: what get
\* returns is one message that was put, and the messages come in their order.
THEOREM QueueImplementsFifo == QueueSpec => MessagesStayWhole
<1>1. QueueInit => Fifo!FifoInit
  <2>1. SUFFICES ASSUME QueueInit
                 PROVE  Unput = Messages /\ InQueue = <<>> /\ Delivered = <<>>
    BY DEF Fifo!FifoInit
  <2>2. InSlots = {}
    BY <2>1 DEF QueueInit, InSlots
  <2>3. Cardinality(InSlots) = 0
    BY <2>2, FS_EmptySet
  <2>4. InQueue = <<>>
    BY <2>3 DEF InQueue
  <2>5. Delivered = <<>>
    BY <2>1 DEF QueueInit, Delivered
  <2>6. Unput = Messages
    BY <2>1 DEF QueueInit, Unput
  <2> QED BY <2>4, <2>5, <2>6
<1>2. IInv /\ [QueueNext]_queueVars =>
        [(\E m \in Messages : Fifo!PutMessage(m)) \/ Fifo!GetMessage]_(Fifo!fifoVars)
  <2>1. SUFFICES ASSUME IInv, [QueueNext]_queueVars
                 PROVE  \/ \E m \in Messages : Fifo!PutMessage(m)
                        \/ Fifo!GetMessage
                        \/ UNCHANGED <<Unput, InQueue, Delivered>>
    BY DEF Fifo!fifoVars
  <2>2. ASSUME UNCHANGED <<size, slots, qsize, received>>
        PROVE  InQueue' = InQueue /\ Delivered' = Delivered
    <3>1. InSlots' = InSlots /\ \A m : UpTo(m)' = UpTo(m)
      BY <2>1, <2>2, QuietKeepsArray
    <3>2. \A n : Nth(n)' = Nth(n)
      BY <3>1 DEF Nth
    <3>3. InQueue' = InQueue
      BY <3>1, <3>2 DEF InQueue
    <3> QED BY <2>2, <3>3 DEF Delivered, MessageOf, Whole
  <2>3. ASSUME NEW p \in Putters, NEW m \in Messages, BeginPut(p, m)
        PROVE  UNCHANGED <<Unput, InQueue, Delivered>>
    <3>1. /\ m \in unsent /\ unsent' = unsent \ {m} /\ m # NoMessage
          /\ putting' = [putting EXCEPT ![p] = m]
          /\ putting[p] = NoMessage
          /\ UNCHANGED <<size, slots, qsize, received>>
      BY <2>1, <2>3, MessageFacts DEF BeginPut, IInv, PuttingIsNew
    <3>2. \A q \in Putters : putting'[q] = IF q = p THEN m ELSE putting[q]
      BY <2>1, <3>1 DEF IInv, QueueTypeOK
    <3>3. Unput' = Unput
      BY <3>1, <3>2 DEF Unput
    <3> QED BY <3>1, <3>3, <2>2
  <2>4. ASSUME UNCHANGED <<size, unsent, putting, slots, qsize, received>>
        PROVE  UNCHANGED <<Unput, InQueue, Delivered>>
    BY <2>2, <2>4 DEF Unput
  <2> QED BY <2>1, <2>3, <2>4, PutAppends, GetDelivers
          DEF QueueNext, Putter, Getter, PutWaits, GetWaits, GetFails, queueVars
<1> QED BY <1>1, <1>2, QueueInvariance, PTL
        DEF QueueSpec, MessagesStayWhole, Fifo!FifoSpec
-----------------------------------------------------------------------------
(* The management commands.                                                *)

Lockers == Commands \cap {"backup", "restore"}

\* Where a job is in the steps of its command, and where it unlocks.
Pos(job) == Len(Steps[job.cmd]) + 1 - Len(job.left)
UnlockAt(job) == IF job.cmd = "backup" THEN 5 ELSE 9

\* A job is one of the rests of a command, and exchanges only at a message.
StepNames ==
  PipeMessages \cup {"lock", "drain", "close", "work", "open", "unlock"}
Jobs == [cmd : Commands \cup {"none"}, left : Seq(StepNames), sent : 0 .. Subs,
         got : 0 .. Subs]

IsJob(job) ==
  /\ job \in Jobs
  /\ \/ job = NoCommand
     \/ /\ job.cmd \in Commands
        /\ \E i \in 1 .. Len(Steps[job.cmd]) :
             job.left = SubSeq(Steps[job.cmd], i, Len(Steps[job.cmd]))
        /\ job.got < Subs /\ (job.got > 0 => job.sent = Subs)
        /\ Head(job.left) \notin PipeMessages => job.sent = 0

\* The job has locked the main process, and seen its transactions end.
LocksMain(job) == job.cmd \in Lockers /\ Pos(job) \in 2 .. UnlockAt(job)
DrainedMain(job) == job.cmd \in Lockers /\ Pos(job) \in 3 .. UnlockAt(job)

\* The job has sent DB_UNLOCK to a sub-process, has sent DB_LOCK and not
\* DB_UNLOCK, and has besides taken an answer for DB_LOCK.
UnlocksSub(job, p) == Pos(job) = UnlockAt(job) + 1 /\ job.sent >= p
LocksSub(job, p) ==
  /\ job.cmd \in Lockers
  /\ Pos(job) > 3 \/ (Pos(job) = 3 /\ job.sent >= p)
  /\ ~UnlocksSub(job, p)
LockedSub(job, p) ==
  /\ job.cmd \in Lockers
  /\ Pos(job) > 3 \/ (Pos(job) = 3 /\ job.got >= p)
  /\ ~UnlocksSub(job, p)

\* The job has closed the database and not opened it again.
ClosesMain(job) == job.cmd = "restore" /\ Pos(job) \in 5 .. 7
ClosesSub(job, p) ==
  /\ job.cmd = "restore"
  /\ Pos(job) > 5 \/ (Pos(job) = 5 /\ job.sent >= p)
  /\ Pos(job) < 8 \/ (Pos(job) = 8 /\ job.sent < p)

Awaits(job, p) == job.sent >= p /\ job.got < p

Count(s, k, message) == Cardinality({i \in 1 .. k : s[i] = message})

\* A gate after the first k commands in the pipe.
Gate(gate, s, k) == gate + Count(s, k, "DB_LOCK") - Count(s, k, "DB_UNLOCK")
Balance(p, k) == Gate(gates[p], pipe[p], k)

\* A database is closed once the pipe is empty.
Shut(isOpen, s) ==
  \/ ~isOpen /\ \A j \in 1 .. Len(s) : s[j] # "DB_OPEN"
  \/ \E i \in 1 .. Len(s) :
       s[i] = "DB_CLOSE" /\ \A j \in i .. Len(s) : s[j] # "DB_OPEN"

\* Whoever exchanges DB_LOCK and is not crossed is alone.
Sole(m) == At(m, "DB_LOCK") /\ manager[m].sent > 0 /\ m \notin crossed
Alone ==
  \A m \in Managers : Sole(m) => \A o \in Managers \ {m} : manager[o].sent = 0

\* The threads that are in a transaction and are not late, by their process.
Entered(t, l) ==
  [x \in Procs |->
     \E c \in Clients : Home[c] = x /\ t[c].at # "idle" /\ c \notin l]
entered == Entered(trans, late)

TransTyped ==
  trans \in [Clients -> [at : {"idle", "past", "counted"}, left : Nat]]

\* A step after which no thread is in a transaction, and not late, that was not
\* before.
NoneEnter == TransTyped' /\ \A x \in Procs : entered'[x] => entered[x]

MaintenanceTyped ==
  /\ DOMAIN manager = Managers /\ \A m \in Managers : IsJob(manager[m])
  /\ given \in 0 .. MaxCommands
  /\ pipe \in [1 .. Subs -> Seq(PipeMessages)]
  /\ answers \in [1 .. Subs -> Nat]
  /\ manage \in [1 .. Subs -> {"recv", "drain", "dead"}]
  /\ gates \in [Procs -> Nat]
  /\ open \in [Procs -> BOOLEAN] /\ TransTyped
  /\ failures \in 0 .. MaxFailures
  /\ crossed \subseteq Managers

MainHolders == {m \in Managers : LocksMain(manager[m])}
Holders(p) == {m \in Managers : LocksSub(manager[m], p)}
Waiting(p) == {m \in Managers : Awaits(manager[m], p)}

\* The gate of the main process counts the commands that have locked it; its
\* database is closed for a command.  Once one of them has found no transaction
\* counted there are only late ones.
MainIsLocked ==
  /\ gates[Main] >= Cardinality(MainHolders)
  /\ failures = 0 => gates[Main] = Cardinality(MainHolders)
  /\ \A m \in Managers : DrainedMain(manager[m]) => ~entered[Main]
  /\ failures = 0 =>
       open[Main] \/ \E m \in Managers : ClosesMain(manager[m])

\* What was sent to a sub-process is in the pipe, handled, or answered.  A
\* command that killed its thread is never answered.
AnswersLeft(p) ==
  Len(pipe[p]) + answers[p] + (IF manage[p] = "recv" THEN 0 ELSE 1) =
    Cardinality(Waiting(p))

\* Once the pipe is empty the gate of a sub-process counts the commands that
\* have locked it, and on the way there it never falls below zero.
GateCounts(p) ==
  /\ Balance(p, Len(pipe[p])) >= Cardinality(Holders(p))
  /\ failures = 0 => Balance(p, Len(pipe[p])) = Cardinality(Holders(p))
  /\ \A k \in 0 .. Len(pipe[p]) : Balance(p, k) >= 0

\* A sub-process that a command has locked stays locked, whatever is in the
\* pipe, and has only late transactions.
StaysLocked(p) ==
  \A m \in Managers : LockedSub(manager[m], p) /\ m \notin crossed =>
    ~entered[p] /\ \A k \in 0 .. Len(pipe[p]) : Balance(p, k) >= 1

\* The answer that a command awaits alone is the answer to its DB_LOCK.
OwnAnswer(p) ==
  \A m \in Managers : Sole(m) /\ Awaits(manager[m], p) =>
    \/ pipe[p] = <<"DB_LOCK">>
    \/ gates[p] > 0 /\ manage[p] = "drain"
    \/ gates[p] > 0 /\ answers[p] > 0 /\ ~entered[p]

ShutForACommand(p) ==
  failures = 0 /\ Shut(open[p], pipe[p]) =>
    \E m \in Managers : ClosesSub(manager[m], p)

SubIsLocked(p) ==
  /\ AnswersLeft(p) /\ GateCounts(p) /\ StaysLocked(p) /\ OwnAnswer(p)
  /\ ShutForACommand(p)

MInv ==
  /\ MaintenanceTyped /\ Alone /\ MainIsLocked
  /\ \A p \in 1 .. Subs : SubIsLocked(p)
-----------------------------------------------------------------------------
(* Counting in a pipe.                                                     *)

LEMMA CountIsNumber ==
  ASSUME NEW s, NEW k \in Nat, NEW w
  PROVE  /\ Count(s, k, w) \in Nat /\ IsFiniteSet({i \in 1 .. k : s[i] = w})
         /\ k = 0 => Count(s, k, w) = 0
<1>1. IsFiniteSet(1 .. k)
  BY FS_Interval
<1>2. {i \in 1 .. k : s[i] = w} \in SUBSET (1 .. k)
  OBVIOUS
<1>3. IsFiniteSet({i \in 1 .. k : s[i] = w})
  BY <1>1, <1>2, FS_Subset
<1>4. k = 0 => {i \in 1 .. k : s[i] = w} = {}
  OBVIOUS
<1> QED BY <1>3, <1>4, FS_CardinalityType, FS_EmptySet DEF Count

LEMMA CountSame ==
  ASSUME NEW s, NEW t, NEW k \in Nat, \A i \in 1 .. k : t[i] = s[i], NEW w
  PROVE  Count(t, k, w) = Count(s, k, w)
<1>1. {i \in 1 .. k : t[i] = w} = {i \in 1 .. k : s[i] = w}
  OBVIOUS
<1> QED BY <1>1 DEF Count

LEMMA CountAppend ==
  ASSUME NEW S, NEW s \in Seq(S), NEW e \in S, NEW w
  PROVE  /\ \A k \in 0 .. Len(s) : Count(Append(s, e), k, w) = Count(s, k, w)
         /\ Count(Append(s, e), Len(s) + 1, w) =
              Count(s, Len(s), w) + (IF e = w THEN 1 ELSE 0)
<1> DEFINE t == Append(s, e)
<1>0. /\ Len(s) \in Nat
      /\ \A i \in 1 .. Len(s) : t[i] = s[i]
      /\ t[Len(s) + 1] = e
  BY AppendProperties
<1> HIDE DEF t
<1>1. ASSUME NEW k \in 0 .. Len(s)
      PROVE  Count(t, k, w) = Count(s, k, w)
  <2>1. \A i \in 1 .. k : t[i] = s[i]
    BY <1>0
  <2> QED BY <2>1, <1>0, CountSame
<1>2. Count(t, Len(s) + 1, w) = Count(s, Len(s), w) + (IF e = w THEN 1 ELSE 0)
  <2> DEFINE A == {i \in 1 .. Len(s) : s[i] = w}
  <2>1. {i \in 1 .. Len(s) + 1 : t[i] = w} =
          IF e = w THEN A \cup {Len(s) + 1} ELSE A
    BY <1>0
  <2>2. IsFiniteSet(A) /\ Len(s) + 1 \notin A /\ Cardinality(A) \in Nat
    <3>1. IsFiniteSet({i \in 1 .. Len(s) : s[i] = w})
      BY <1>0, CountIsNumber
    <3>2. Len(s) + 1 \notin A
      BY <1>0
    <3> HIDE DEF A
    <3>3. IsFiniteSet(A)
      BY <3>1 DEF A
    <3> QED BY <3>2, <3>3, FS_CardinalityType
  <2>3. Cardinality(A \cup {Len(s) + 1}) = Cardinality(A) + 1
    BY <2>2, FS_AddElement
  <2>4. Count(s, Len(s), w) = Cardinality(A)
    BY DEF Count
  <2> HIDE DEF A
  <2>5. CASE e = w
    BY <2>1, <2>3, <2>4, <2>5 DEF Count
  <2>6. CASE e # w
    <3>1. Count(t, Len(s) + 1, w) = Cardinality(A)
      BY <2>1, <2>6 DEF Count
    <3> QED BY <3>1, <2>2, <2>4, <2>6
  <2> QED BY <2>5, <2>6
<1> QED BY <1>1, <1>2 DEF t

LEMMA CountTail ==
  ASSUME NEW S, NEW s \in Seq(S), s # <<>>, NEW w, NEW k \in 0 .. Len(s) - 1
  PROVE  Count(s, k + 1, w) =
           Count(Tail(s), k, w) + (IF Head(s) = w THEN 1 ELSE 0)
<1>t. PICK t : t = Tail(s)
  OBVIOUS
<1> DEFINE A == {i \in 1 .. k : t[i] = w}
           B == {i \in 2 .. k + 1 : s[i] = w}
<1>0. Len(s) \in Nat /\ k \in Nat /\ k + 1 \in Nat
  OBVIOUS
<1>1. \A i \in 1 .. k : t[i] = s[i + 1]
  <2>1. \A i \in 1 .. Len(t) : t[i] = s[i + 1]
    BY <1>t, HeadTailProperties
  <2>2. Len(t) = Len(s) - 1
    BY <1>t, HeadTailProperties
  <2> QED BY <2>1, <2>2
<1>2. Cardinality(A) = Cardinality(B)
  <2> DEFINE f == [i \in A |-> i + 1]
  <2>1. f \in [A -> B]
    BY <1>1
  <2>2. \A i, j \in A : f[i] = f[j] => i = j
    OBVIOUS
  <2>3. ASSUME NEW j \in B
        PROVE  \E i \in A : f[i] = j
    <3>1. j - 1 \in 1 .. k /\ (j - 1) + 1 = j
      BY <1>0
    <3>2. j - 1 \in A
      BY <3>1, <1>1
    <3> QED BY <3>1, <3>2
  <2>4. f \in Bijection(A, B)
    <3> HIDE DEF f, A, B
    <3> QED BY <2>1, <2>2, <2>3 DEF Bijection, Injection, Surjection,
               IsInjective
  <2>5. ExistsBijection(A, B)
    BY <2>4 DEF ExistsBijection
  <2>6. IsFiniteSet(A)
    <3>1. IsFiniteSet(1 .. k)
      BY <1>0, FS_Interval
    <3>2. A \in SUBSET (1 .. k)
      OBVIOUS
    <3> HIDE DEF A
    <3> QED BY <3>1, <3>2, FS_Subset
  <2> HIDE DEF A, B, f
  <2> QED BY <2>5, <2>6, FS_Bijection
<1>3. IsFiniteSet(B)
  <2>1. IsFiniteSet(2 .. k + 1) /\ B \in SUBSET (2 .. k + 1)
    BY <1>0, FS_Interval
  <2> QED BY <2>1, FS_Subset
<1>4. {i \in 1 .. k + 1 : s[i] = w} = IF Head(s) = w THEN B \cup {1} ELSE B
  <2>1. Head(s) = s[1]
    OBVIOUS
  <2> QED BY <2>1, <1>0
<1>5. 1 \notin B
  OBVIOUS
<1>6. Cardinality(B \cup {1}) = Cardinality(B) + 1 /\ Cardinality(B) \in Nat
  BY <1>3, <1>5, FS_AddElement, FS_CardinalityType
<1>7. Count(t, k, w) = Cardinality(A)
  BY DEF Count
<1> HIDE DEF A, B
<1>8. CASE Head(s) = w
  <2>1. Count(s, k + 1, w) = Cardinality(B) + 1
    BY <1>4, <1>6, <1>8 DEF Count
  <2> QED BY <2>1, <1>t, <1>2, <1>6, <1>7, <1>8
<1>9. CASE Head(s) # w
  <2>1. Count(s, k + 1, w) = Cardinality(B)
    BY <1>4, <1>9 DEF Count
  <2> QED BY <2>1, <1>t, <1>2, <1>6, <1>7, <1>9
<1> QED BY <1>t, <1>8, <1>9

-----------------------------------------------------------------------------
(* The jobs of the managers.                                               *)

LEMMA StepsTable ==
  /\ Steps["backup"] \in Seq(StepNames) /\ Len(Steps["backup"]) = 6
  /\ Steps["restore"] \in Seq(StepNames) /\ Len(Steps["restore"]) = 10
  /\ Steps["notify"] \in Seq(StepNames) /\ Len(Steps["notify"]) = 1
  /\ Steps["backup"][1] = "lock" /\ Steps["backup"][2] = "drain"
  /\ Steps["backup"][3] = "DB_LOCK" /\ Steps["backup"][4] = "work"
  /\ Steps["backup"][5] = "unlock" /\ Steps["backup"][6] = "DB_UNLOCK"
  /\ Steps["restore"][1] = "lock" /\ Steps["restore"][2] = "drain"
  /\ Steps["restore"][3] = "DB_LOCK" /\ Steps["restore"][4] = "close"
  /\ Steps["restore"][5] = "DB_CLOSE" /\ Steps["restore"][6] = "work"
  /\ Steps["restore"][7] = "open" /\ Steps["restore"][8] = "DB_OPEN"
  /\ Steps["restore"][9] = "unlock" /\ Steps["restore"][10] = "DB_UNLOCK"
  /\ Steps["notify"][1] = "NEW_MASTER"
<1>1. Steps["backup"] =
        <<"lock", "drain", "DB_LOCK", "work", "unlock", "DB_UNLOCK">>
  BY DEF Steps
<1>2. Steps["restore"] =
        <<"lock", "drain", "DB_LOCK", "close", "DB_CLOSE", "work",
          "open", "DB_OPEN", "unlock", "DB_UNLOCK">>
  BY DEF Steps
<1>3. Steps["notify"] = <<"NEW_MASTER">>
  BY DEF Steps
<1>4. Steps["backup"] \in Seq(StepNames) /\ Len(Steps["backup"]) = 6
  <2>1. /\ <<"lock", "drain", "DB_LOCK", "work", "unlock", "DB_UNLOCK">>
              \in Seq(StepNames)
        /\ Len(<<"lock", "drain", "DB_LOCK", "work", "unlock", "DB_UNLOCK">>) = 6
    BY DEF StepNames, PipeMessages
  <2> QED BY <2>1, <1>1
<1>5. Steps["restore"] \in Seq(StepNames) /\ Len(Steps["restore"]) = 10
  <2>1. /\ <<"lock", "drain", "DB_LOCK", "close", "DB_CLOSE", "work",
             "open", "DB_OPEN", "unlock", "DB_UNLOCK">> \in Seq(StepNames)
        /\ Len(<<"lock", "drain", "DB_LOCK", "close", "DB_CLOSE", "work",
                 "open", "DB_OPEN", "unlock", "DB_UNLOCK">>) = 10
    BY DEF StepNames, PipeMessages
  <2> QED BY <2>1, <1>2
<1>6. Steps["notify"] \in Seq(StepNames) /\ Len(Steps["notify"]) = 1
  <2>1. <<"NEW_MASTER">> \in Seq(StepNames) /\ Len(<<"NEW_MASTER">>) = 1
    BY DEF StepNames, PipeMessages
  <2> QED BY <2>1, <1>3
<1>7. /\ Steps["backup"][1] = "lock" /\ Steps["backup"][2] = "drain"
      /\ Steps["backup"][3] = "DB_LOCK" /\ Steps["backup"][4] = "work"
      /\ Steps["backup"][5] = "unlock" /\ Steps["backup"][6] = "DB_UNLOCK"
  BY <1>1
<1>8. /\ Steps["restore"][1] = "lock" /\ Steps["restore"][2] = "drain"
      /\ Steps["restore"][3] = "DB_LOCK" /\ Steps["restore"][4] = "close"
      /\ Steps["restore"][5] = "DB_CLOSE" /\ Steps["restore"][6] = "work"
      /\ Steps["restore"][7] = "open" /\ Steps["restore"][8] = "DB_OPEN"
      /\ Steps["restore"][9] = "unlock" /\ Steps["restore"][10] = "DB_UNLOCK"
  BY <1>2
<1>9. Steps["notify"][1] = "NEW_MASTER"
  BY <1>3
<1> QED BY <1>4, <1>5, <1>6, <1>7, <1>8, <1>9

LEMMA StepsOf ==
  ASSUME NEW c \in Commands
  PROVE  /\ c \in {"backup", "restore", "notify"}
         /\ Steps[c] \in Seq(StepNames) /\ Len(Steps[c]) \in {1, 6, 10}
  BY StepsTable, MaintenanceAssumption

\* A job is at the step that its position says.
LEMMA JobPlace ==
  ASSUME NEW r, IsJob(r), r # NoCommand
  PROVE  LET c == r.cmd IN
         /\ c \in Commands /\ r.left # <<>> /\ r.left \in Seq(StepNames)
         /\ Pos(r) \in 1 .. Len(Steps[c])
         /\ Head(r.left) = Steps[c][Pos(r)]
         /\ Pos(r) = Len(Steps[c]) => Tail(r.left) = <<>>
         /\ Pos(r) < Len(Steps[c]) =>
              Tail(r.left) = SubSeq(Steps[c], Pos(r) + 1, Len(Steps[c]))
<1> DEFINE c == r.cmd
           s == Steps[c]
           n == Len(s)
<1>1. c \in Commands /\ s \in Seq(StepNames) /\ n \in Nat
  BY StepsOf DEF IsJob
<1>2. PICK i \in 1 .. n : r.left = SubSeq(s, i, n)
  BY DEF IsJob
<1> HIDE DEF s, n
<1>3. \A j \in i .. n : s[j] \in StepNames
  BY <1>1, <1>2 DEF n
<1>4. /\ r.left \in Seq(StepNames) /\ Len(r.left) = n - i + 1
      /\ \A j \in 1 .. n - i + 1 : r.left[j] = s[i + j - 1]
  BY <1>1, <1>2, <1>3, SubSeqProperties
<1>5. Pos(r) = i
  BY <1>1, <1>4 DEF Pos, n, s
<1>6. r.left # <<>> /\ Head(r.left) = s[i]
  BY <1>1, <1>4
<1>t. PICK t : t = Tail(r.left)
  OBVIOUS
<1>7. /\ t \in Seq(StepNames) /\ Len(t) = n - i
      /\ \A j \in 1 .. n - i : t[j] = s[i + j]
  <2>1. /\ t \in Seq(StepNames) /\ Len(t) = Len(r.left) - 1
        /\ \A j \in 1 .. Len(t) : t[j] = r.left[j + 1]
    BY <1>t, <1>4, <1>6, HeadTailProperties
  <2>2. \A j \in 1 .. n - i : j + 1 \in 1 .. n - i + 1 /\ i + (j + 1) - 1 = i + j
    BY <1>1
  <2>3. Len(t) = n - i
    BY <2>1, <1>1, <1>4
  <2>4. \A j \in 1 .. n - i : t[j] = s[i + j]
    BY <2>1, <2>2, <2>3, <1>4
  <2> QED BY <2>1, <2>3, <2>4
<1>8. i = n => t = <<>>
  BY <1>1, <1>7
<1>9. ASSUME i < n
      PROVE  t = SubSeq(s, i + 1, n)
  <2>1. \A j \in i + 1 .. n : s[j] \in StepNames
    BY <1>1, <1>3
  <2>2. i + 1 \in Int /\ n \in Int /\ i + 1 <= n
    BY <1>1, <1>9
  <2>3. PICK u : u = SubSeq(s, i + 1, n)
    OBVIOUS
  <2>4. /\ u \in Seq(StepNames) /\ Len(u) = n - (i + 1) + 1
        /\ \A j \in 1 .. n - (i + 1) + 1 : u[j] = s[i + 1 + j - 1]
    BY <2>1, <2>2, <2>3, SubSeqProperties
  <2>5. Len(u) = n - i /\ \A j \in 1 .. n - i : u[j] = s[i + j]
    BY <2>4, <1>1
  <2>6. t = u
    BY <2>4, <2>5, <1>7, SeqEqual
  <2> QED BY <2>3, <2>6
<1> QED BY <1>t, <1>1, <1>4, <1>5, <1>6, <1>8, <1>9 DEF n, s

LEMMA LockerPlaces ==
  ASSUME NEW r, IsJob(r), r # NoCommand, r.cmd \in Lockers
  PROVE  LET i == Pos(r) IN
         \/ r.cmd = "backup" /\ i \in {1, 2, 3, 4, 5, 6} /\ UnlockAt(r) = 5
         \/ /\ r.cmd = "restore" /\ i \in {1, 2, 3, 4, 5, 6, 7, 8, 9, 10}
            /\ UnlockAt(r) = 9
<1>i. PICK i : i = Pos(r)
  OBVIOUS
<1>n. PICK n : n = Len(Steps[r.cmd])
  OBVIOUS
<1>1. i \in 1 .. n
  BY <1>i, <1>n, JobPlace
<1>2. r.cmd = "backup" => n = 6 /\ UnlockAt(r) = 5
  BY <1>n, StepsTable DEF UnlockAt
<1>3. r.cmd = "restore" => n = 10 /\ UnlockAt(r) = 9
  BY <1>n, StepsTable DEF UnlockAt
<1>4. r.cmd = "backup" \/ r.cmd = "restore"
  BY DEF Lockers
<1>5. n = 6 => i \in {1, 2, 3, 4, 5, 6}
  BY <1>1
<1>6. n = 10 => i \in {1, 2, 3, 4, 5, 6, 7, 8, 9, 10}
  BY <1>1
<1>7. \/ r.cmd = "backup" /\ i \in {1, 2, 3, 4, 5, 6} /\ UnlockAt(r) = 5
      \/ /\ r.cmd = "restore" /\ i \in {1, 2, 3, 4, 5, 6, 7, 8, 9, 10}
         /\ UnlockAt(r) = 9
  BY <1>2, <1>3, <1>4, <1>5, <1>6
<1> QED BY <1>7, <1>i

\* Which position each step has.
LEMMA StepPlaces ==
  ASSUME NEW r, IsJob(r), r.left # <<>>
  PROVE  LET step == Head(r.left) IN
         /\ r.cmd \in Commands /\ Pos(r) \in 1 .. Len(Steps[r.cmd])
         /\ Pos(r) \in Nat
         /\ step = "lock" <=> r.cmd \in Lockers /\ Pos(r) = 1
         /\ step = "drain" <=> r.cmd \in Lockers /\ Pos(r) = 2
         /\ step = "DB_LOCK" <=> r.cmd \in Lockers /\ Pos(r) = 3
         /\ step = "unlock" <=> r.cmd \in Lockers /\ Pos(r) = UnlockAt(r)
         /\ step = "DB_UNLOCK" <=>
              r.cmd \in Lockers /\ Pos(r) = UnlockAt(r) + 1
         /\ step = "close" <=> r.cmd = "restore" /\ Pos(r) = 4
         /\ step = "DB_CLOSE" <=> r.cmd = "restore" /\ Pos(r) = 5
         /\ step = "open" <=> r.cmd = "restore" /\ Pos(r) = 7
         /\ step = "DB_OPEN" <=> r.cmd = "restore" /\ Pos(r) = 8
         /\ step = "work" => r.cmd \in Lockers /\ Pos(r) \in 4 .. 6 /\ Pos(r) < UnlockAt(r)
<1>1. r # NoCommand
  BY DEF NoCommand
<1>2. /\ r.cmd \in Commands /\ Pos(r) \in 1 .. Len(Steps[r.cmd])
      /\ Head(r.left) = Steps[r.cmd][Pos(r)]
  BY <1>1, JobPlace
<1>0. PICK i : i = Pos(r)
  OBVIOUS
<1>h. PICK h : h = Head(r.left)
  OBVIOUS
<1>3. CASE r.cmd = "backup"
  <2>1. i \in {1, 2, 3, 4, 5, 6} /\ h = Steps["backup"][i]
    BY <1>0, <1>h, <1>2, <1>3, StepsTable
  <2>2. \/ i = 1 /\ h = "lock"
        \/ i = 2 /\ h = "drain"
        \/ i = 3 /\ h = "DB_LOCK"
        \/ i = 4 /\ h = "work"
        \/ i = 5 /\ h = "unlock"
        \/ i = 6 /\ h = "DB_UNLOCK"
    BY <2>1, StepsTable
  <2>3. r.cmd \in Lockers /\ UnlockAt(r) = 5
    BY <1>2, <1>3 DEF Lockers, UnlockAt
  <2>4. i \in Nat /\ i + 1 \in Nat
    BY <2>1
  <2>5. /\ h = "lock" <=> i = 1
        /\ h = "drain" <=> i = 2
        /\ h = "DB_LOCK" <=> i = 3
        /\ h = "work" => i = 4
        /\ h = "unlock" <=> i = 5
        /\ h = "DB_UNLOCK" <=> i = 6
    BY <2>2
  <2>6. h \notin {"close", "DB_CLOSE", "open", "DB_OPEN"}
    BY <2>2
  <2>7. /\ h = "lock" <=> r.cmd \in Lockers /\ i = 1
        /\ h = "drain" <=> r.cmd \in Lockers /\ i = 2
        /\ h = "DB_LOCK" <=> r.cmd \in Lockers /\ i = 3
    BY <2>3, <2>5
  <2>8. /\ h = "unlock" <=> r.cmd \in Lockers /\ i = UnlockAt(r)
        /\ h = "DB_UNLOCK" <=> r.cmd \in Lockers /\ i = UnlockAt(r) + 1
    BY <2>3, <2>5
  <2>9. /\ h = "close" <=> r.cmd = "restore" /\ i = 4
        /\ h = "DB_CLOSE" <=> r.cmd = "restore" /\ i = 5
        /\ h = "open" <=> r.cmd = "restore" /\ i = 7
        /\ h = "DB_OPEN" <=> r.cmd = "restore" /\ i = 8
    BY <2>6, <1>3
  <2>10. h = "work" => r.cmd \in Lockers /\ i \in 4 .. 6 /\ i < UnlockAt(r)
    BY <2>3, <2>5, <1>3
  <2> QED BY <2>4, <2>7, <2>8, <2>9, <2>10, <1>0, <1>h, <1>2
<1>4. CASE r.cmd = "restore"
  <2>1. i \in {1, 2, 3, 4, 5, 6, 7, 8, 9, 10} /\ h = Steps["restore"][i]
    BY <1>0, <1>h, <1>2, <1>4, StepsTable
  <2>2. \/ i = 1 /\ h = "lock"
        \/ i = 2 /\ h = "drain"
        \/ i = 3 /\ h = "DB_LOCK"
        \/ i = 4 /\ h = "close"
        \/ i = 5 /\ h = "DB_CLOSE"
        \/ i = 6 /\ h = "work"
        \/ i = 7 /\ h = "open"
        \/ i = 8 /\ h = "DB_OPEN"
        \/ i = 9 /\ h = "unlock"
        \/ i = 10 /\ h = "DB_UNLOCK"
    BY <2>1, StepsTable
  <2>3. r.cmd \in Lockers /\ UnlockAt(r) = 9
    BY <1>2, <1>4 DEF Lockers, UnlockAt
  <2> QED BY <2>2, <2>3, <1>0, <1>h, <1>2, <1>4
<1>5. CASE r.cmd = "notify"
  <2>1. i \in {1} /\ h = Steps["notify"][i]
    BY <1>0, <1>h, <1>2, <1>5, StepsTable
  <2>2. \/ i = 1 /\ h = "NEW_MASTER"
    BY <2>1, StepsTable
  <2>3. r.cmd \notin Lockers
    BY <1>5 DEF Lockers
  <2> QED BY <2>2, <2>3, <1>0, <1>h, <1>2, <1>5
<1> QED BY <1>2, <1>3, <1>4, <1>5, StepsOf

\* The job when its first step is done (NextStep).
Advanced(r) ==
  IF Tail(r.left) = <<>> THEN NoCommand
  ELSE [cmd |-> r.cmd, left |-> Tail(r.left), sent |-> 0, got |-> 0]

LEMMA AdvancedIsJob ==
  ASSUME NEW r, IsJob(r), r.left # <<>>, NEW s, s = Advanced(r)
  PROVE  /\ IsJob(s) /\ s.sent = 0 /\ s.got = 0
         /\ s = NoCommand => Pos(r) = Len(Steps[r.cmd])
         /\ s # NoCommand => s.cmd = r.cmd /\ Pos(s) = Pos(r) + 1
<1> DEFINE c == r.cmd
           n == Len(Steps[c])
<1>t. PICK t : t = Tail(r.left)
  OBVIOUS
<1>1. r # NoCommand
  BY DEF NoCommand
<1>2. /\ c \in Commands /\ r.left \in Seq(StepNames)
      /\ Pos(r) \in 1 .. n
      /\ Pos(r) = n => t = <<>>
      /\ Pos(r) < n => t = SubSeq(Steps[c], Pos(r) + 1, n)
  BY <1>t, <1>1, JobPlace
<1>3. Steps[c] \in Seq(StepNames) /\ n \in Nat
  BY <1>2, StepsOf
<1>4. /\ t \in Seq(StepNames)
      /\ Len(t) = Len(r.left) - 1 /\ Len(r.left) \in Nat
  BY <1>t, <1>2, HeadTailProperties
<1>5. Pos(r) = n + 1 - Len(r.left)
  BY DEF Pos
<1>6. Subs \in Nat /\ Subs >= 1 /\ 0 \in 0 .. Subs
  BY MaintenanceAssumption
<1>7. CASE t = <<>>
  <2>1. s = NoCommand
    BY <1>t, <1>7 DEF Advanced
  <2>2. s \in Jobs /\ s.sent = 0 /\ s.got = 0
    BY <2>1, <1>6 DEF Jobs, NoCommand
  <2>3. Len(t) = 0
    BY <1>7
  <2>4. Pos(r) = n
    <3> HIDE DEF n
    <3>1. Len(r.left) = 1
      BY <2>3, <1>4
    <3> QED BY <3>1, <1>3, <1>5
  <2> QED BY <2>1, <2>2, <2>4 DEF IsJob
<1>8. CASE t # <<>>
  <2>1. s = [cmd |-> c, left |-> t, sent |-> 0, got |-> 0]
    BY <1>t, <1>8 DEF Advanced
  <2>2. s.cmd = c /\ s.left = t /\ s.sent = 0 /\ s.got = 0
    BY <2>1
  <2>3. s \in Jobs
    BY <2>1, <1>2, <1>4, <1>6 DEF Jobs
  <2>4. Pos(r) < n /\ Pos(r) + 1 \in 1 .. n
    <3> HIDE DEF n
    <3> QED BY <1>2, <1>3, <1>8
  <2>5. t = SubSeq(Steps[c], Pos(r) + 1, n)
    BY <2>4, <1>2
  <2>6. IsJob(s)
    <3>1. \E i \in 1 .. n : t = SubSeq(Steps[c], i, n)
      BY <2>4, <2>5
    <3> QED BY <3>1, <2>2, <2>3, <1>2, <1>6 DEF IsJob
  <2>7. Pos(s) = Pos(r) + 1
    <3>1. Pos(s) = n + 1 - Len(t)
      BY <2>2 DEF Pos
    <3> HIDE DEF n
    <3> QED BY <3>1, <1>3, <1>4, <1>5
  <2>8. s # NoCommand
    BY <2>2, <1>8 DEF NoCommand
  <2> QED BY <2>2, <2>6, <2>7, <2>8
<1> QED BY <1>7, <1>8

-----------------------------------------------------------------------------
(* What a step of a job changes.                                           *)

Outside(r) ==
  /\ ~LocksMain(r) /\ ~DrainedMain(r) /\ ~ClosesMain(r)
  /\ \A p \in 1 .. Subs :
       ~LocksSub(r, p) /\ ~LockedSub(r, p) /\ ~ClosesSub(r, p) /\ ~Awaits(r, p)

LEMMA NoCommandIsJob == IsJob(NoCommand) /\ Outside(NoCommand)
<1>1. NoCommand.cmd = "none" /\ NoCommand.sent = 0 /\ NoCommand.got = 0
  BY DEF NoCommand
<1>2. "none" \notin Lockers /\ "none" # "restore"
  BY DEF Lockers
<1>3. NoCommand \in Jobs
  BY MaintenanceAssumption DEF NoCommand, Jobs
<1>4. \A p \in 1 .. Subs : ~(0 >= p)
  BY MaintenanceAssumption
<1> QED
  BY <1>1, <1>2, <1>3, <1>4 DEF IsJob, Outside, LocksMain, DrainedMain,
     ClosesMain, LocksSub, LockedSub, ClosesSub, Awaits

LEMMA JobCounts ==
  ASSUME NEW r, IsJob(r)
  PROVE  /\ r.sent \in 0 .. Subs /\ r.got \in 0 .. Subs
         /\ r.left # <<>> =>
              /\ r.got < Subs /\ (r.got > 0 => r.sent = Subs)
              /\ Head(r.left) \notin PipeMessages => r.sent = 0
         /\ r.left = <<>> <=> r = NoCommand
         /\ r.cmd = "none" <=> r = NoCommand
         /\ r.sent > 0 => r.left # <<>> /\ Head(r.left) \in PipeMessages
<1>1. r.sent \in 0 .. Subs /\ r.got \in 0 .. Subs
  BY DEF IsJob, Jobs
<1>2. r = NoCommand => r.left = <<>> /\ r.sent = 0 /\ r.cmd = "none"
  BY DEF NoCommand
<1>3. r # NoCommand => r.left # <<>> /\ r.cmd \in Commands
  BY JobPlace
<1>4. "none" \notin Commands
  BY MaintenanceAssumption
<1> QED BY <1>1, <1>2, <1>3, <1>4 DEF IsJob

LEMMA JobImplications ==
  ASSUME NEW r, IsJob(r), NEW p \in 1 .. Subs
  PROVE  /\ LockedSub(r, p) => LocksSub(r, p)
         /\ DrainedMain(r) => LocksMain(r)
<1>1. r.sent \in 0 .. Subs /\ r.got \in 0 .. Subs
  BY JobCounts
<1>2. r # NoCommand => (r.got > 0 => r.sent = Subs)
  BY DEF IsJob
<1>3. r # NoCommand => (r.got >= p => r.sent >= p)
  BY <1>1, <1>2, MaintenanceAssumption
<1>4. r = NoCommand => ~LockedSub(r, p)
  BY NoCommandIsJob DEF Outside
<1>5. r # NoCommand => Pos(r) \in Nat
  BY JobPlace, StepsOf
<1>6. r = NoCommand => ~DrainedMain(r)
  BY NoCommandIsJob DEF Outside
<1> QED BY <1>3, <1>4, <1>5, <1>6 DEF LockedSub, LocksSub, DrainedMain,
           LocksMain

LEMMA StartedJob ==
  ASSUME NEW c \in Commands, NEW s,
         s = [NoCommand EXCEPT !.cmd = c, !.left = Steps[c]]
  PROVE  IsJob(s) /\ Outside(s) /\ s.sent = 0
<1>0. NoCommand \in Jobs /\ NoCommand.sent = 0 /\ NoCommand.got = 0
  BY NoCommandIsJob DEF IsJob, NoCommand
<1>1. s.cmd = c /\ s.left = Steps[c] /\ s.sent = 0 /\ s.got = 0
  BY <1>0 DEF Jobs
<1>2. Steps[c] \in Seq(StepNames) /\ Len(Steps[c]) \in {1, 6, 10}
  BY StepsOf
<1>3. Subs \in Nat /\ Subs >= 1 /\ 0 \in 0 .. Subs
  BY MaintenanceAssumption
<1>4. s \in Jobs
  BY <1>0, <1>2, <1>3 DEF Jobs
<1>5. 1 \in 1 .. Len(Steps[c]) /\ Steps[c] = SubSeq(Steps[c], 1, Len(Steps[c]))
  <2>t. PICK t : t = Steps[c]
    OBVIOUS
  <2>u. PICK u : u = SubSeq(t, 1, Len(t))
    OBVIOUS
  <2>1. t \in Seq(StepNames) /\ Len(t) \in Nat /\ 1 <= Len(t)
    <3>1. t \in Seq(StepNames) /\ Len(t) \in {1, 6, 10}
      BY <2>t, <1>2
    <3>n. PICK n : n = Len(t)
      OBVIOUS
    <3>2. n \in {1, 6, 10}
      BY <3>1, <3>n
    <3>3. n \in Nat /\ 1 <= n
      BY <3>2
    <3> QED BY <3>1, <3>n, <3>3
  <2>2. \A j \in 1 .. Len(t) : t[j] \in StepNames
    BY <2>1
  <2>3. /\ u \in Seq(StepNames) /\ Len(u) = Len(t) - 1 + 1
        /\ \A j \in 1 .. Len(t) - 1 + 1 : u[j] = t[1 + j - 1]
    BY <2>1, <2>2, <2>u, SubSeqProperties
  <2>4. Len(u) = Len(t) /\ \A j \in 1 .. Len(t) : u[j] = t[j]
    BY <2>1, <2>3
  <2>5. u = t
    BY <2>1, <2>3, <2>4, SeqEqual
  <2> QED BY <2>t, <2>u, <2>1, <2>5
<1>6. \E i \in 1 .. Len(Steps[c]) : Steps[c] = SubSeq(Steps[c], i, Len(Steps[c]))
  BY <1>5
<1>7. IsJob(s)
  <2>1. \E i \in 1 .. Len(Steps[s.cmd]) :
          s.left = SubSeq(Steps[s.cmd], i, Len(Steps[s.cmd]))
    BY <1>1, <1>6
  <2>2. s.cmd \in Commands /\ s.sent = 0 /\ s.got < Subs /\ ~(s.got > 0)
    BY <1>1, <1>3
  <2> QED BY <2>1, <2>2, <1>4 DEF IsJob
<1>8. Pos(s) = 1
  BY <1>1, <1>2 DEF Pos
<1>9. UnlockAt(s) \in {5, 9}
  BY DEF UnlockAt
<1> QED
  BY <1>1, <1>7, <1>8, <1>9 DEF Outside, LocksMain, DrainedMain, ClosesMain,
     LocksSub, LockedSub, ClosesSub, Awaits, UnlocksSub

\* A step in the main process does not change what the sub-processes are to
\* the job.
LEMMA MainAdvance ==
  ASSUME NEW r, IsJob(r), r.left # <<>>, Head(r.left) \notin PipeMessages,
         NEW s, s = Advanced(r)
  PROVE  /\ IsJob(s) /\ s.sent = 0 /\ r.sent = 0
         /\ \A p \in 1 .. Subs :
              /\ LocksSub(s, p) <=> LocksSub(r, p)
              /\ LockedSub(s, p) <=> LockedSub(r, p)
              /\ ClosesSub(s, p) <=> ClosesSub(r, p)
              /\ Awaits(s, p) <=> Awaits(r, p)
         /\ LocksMain(s) <=>
              \/ Head(r.left) = "lock"
              \/ LocksMain(r) /\ Head(r.left) # "unlock"
         /\ Head(r.left) = "lock" => ~LocksMain(r)
         /\ Head(r.left) = "unlock" => LocksMain(r)
         /\ DrainedMain(s) =>
              \/ Head(r.left) = "drain"
              \/ DrainedMain(r) /\ Head(r.left) # "unlock"
         /\ ClosesMain(s) <=>
              \/ Head(r.left) = "close"
              \/ ClosesMain(r) /\ Head(r.left) # "open"
<1>h. PICK h : h = Head(r.left)
  OBVIOUS
<1>i. PICK i : i = Pos(r)
  OBVIOUS
<1>1. /\ r.cmd \in Commands /\ i \in 1 .. Len(Steps[r.cmd]) /\ i \in Nat
      /\ h = "lock" <=> r.cmd \in Lockers /\ i = 1
      /\ h = "drain" <=> r.cmd \in Lockers /\ i = 2
      /\ h = "DB_LOCK" <=> r.cmd \in Lockers /\ i = 3
      /\ h = "unlock" <=> r.cmd \in Lockers /\ i = UnlockAt(r)
      /\ h = "DB_UNLOCK" <=> r.cmd \in Lockers /\ i = UnlockAt(r) + 1
      /\ h = "close" <=> r.cmd = "restore" /\ i = 4
      /\ h = "DB_CLOSE" <=> r.cmd = "restore" /\ i = 5
      /\ h = "open" <=> r.cmd = "restore" /\ i = 7
      /\ h = "DB_OPEN" <=> r.cmd = "restore" /\ i = 8
  BY <1>h, <1>i, StepPlaces
<1>2. h \notin {"DB_LOCK", "DB_UNLOCK", "DB_OPEN", "DB_CLOSE"}
  BY <1>h DEF PipeMessages
<1>3. r.sent = 0 /\ r.got = 0 
  BY JobCounts, MaintenanceAssumption
<1>4. UnlockAt(r) \in {5, 9} /\ (r.cmd = "restore" => UnlockAt(r) = 9)
  BY DEF UnlockAt
<1>5. r.cmd \in Lockers => Len(Steps[r.cmd]) = UnlockAt(r) + 1
  <2>1. r.cmd = "backup" => Len(Steps[r.cmd]) = 6 /\ UnlockAt(r) = 5
    BY StepsTable DEF UnlockAt
  <2>2. r.cmd = "restore" => Len(Steps[r.cmd]) = 10 /\ UnlockAt(r) = 9
    BY StepsTable DEF UnlockAt
  <2>3. r.cmd \in Lockers => r.cmd = "backup" \/ r.cmd = "restore"
    BY DEF Lockers
  <2>u. PICK u : u = UnlockAt(r)
    OBVIOUS
  <2>n. PICK n : n = Len(Steps[r.cmd])
    OBVIOUS
  <2>4. r.cmd \in Lockers => (n = 6 /\ u = 5) \/ (n = 10 /\ u = 9)
    BY <2>1, <2>2, <2>3, <2>u, <2>n
  <2>5. r.cmd \in Lockers => n = u + 1
    BY <2>4
  <2> QED BY <2>5, <2>u, <2>n
<1>6. r.cmd = "restore" => r.cmd \in Lockers
  BY <1>1 DEF Lockers
<1>7. r.cmd \in Lockers => i # 3 /\ i < Len(Steps[r.cmd])
  BY <1>1, <1>2, <1>4, <1>5
<1>8. IsJob(s) /\ s.sent = 0 /\ s.got = 0
  BY AdvancedIsJob
<1>9. CASE s = NoCommand
  <2>0. i = Len(Steps[r.cmd])
    BY <1>9, <1>i, AdvancedIsJob
  <2>1. r.cmd \notin Lockers
    BY <2>0, <1>1, <1>7
  <2>2. Outside(s)
    BY <1>9, NoCommandIsJob
  <2>3. Outside(r)
    BY <2>1, <1>3, <1>6 DEF Outside, LocksMain, DrainedMain, ClosesMain,
       LocksSub, LockedSub, ClosesSub, Awaits
  <2>4. h \notin {"lock", "drain", "unlock", "close", "open"}
    BY <2>1, <1>1, <1>6
  <2> QED BY <2>2, <2>3, <2>4, <1>h, <1>3, <1>8 DEF Outside
<1>10. CASE s # NoCommand
  <2>1. s.cmd = r.cmd /\ Pos(s) = i + 1
    BY <1>10, <1>i, AdvancedIsJob
  <2>2. UnlockAt(s) = UnlockAt(r)
    BY <2>1 DEF UnlockAt
  <2>3. ASSUME NEW p \in 1 .. Subs
        PROVE  /\ LocksSub(s, p) <=> LocksSub(r, p)
               /\ LockedSub(s, p) <=> LockedSub(r, p)
               /\ ClosesSub(s, p) <=> ClosesSub(r, p)
               /\ Awaits(s, p) <=> Awaits(r, p)
    <3>1. ~(0 >= p) /\ 0 < p
      OBVIOUS
    <3>2. /\ LocksSub(s, p) <=> LocksSub(r, p)
          /\ LockedSub(s, p) <=> LockedSub(r, p)
      BY <3>1, <2>1, <2>2, <1>1, <1>2, <1>3, <1>4, <1>7, <1>8, <1>i
         DEF LocksSub, LockedSub, UnlocksSub
    <3>3. ClosesSub(s, p) <=> ClosesSub(r, p)
      BY <3>1, <2>1, <1>1, <1>2, <1>3, <1>8, <1>i DEF ClosesSub
    <3>4. Awaits(s, p) <=> Awaits(r, p)
      BY <3>1, <1>3, <1>8 DEF Awaits
    <3> QED BY <3>2, <3>3, <3>4
  <2>4. /\ LocksMain(s) <=> h = "lock" \/ (LocksMain(r) /\ h # "unlock")
        /\ h = "lock" => ~LocksMain(r)
        /\ h = "unlock" => LocksMain(r)
        /\ DrainedMain(s) => h = "drain" \/ (DrainedMain(r) /\ h # "unlock")
    BY <2>1, <2>2, <1>1, <1>4, <1>i DEF LocksMain, DrainedMain
  <2>5. ClosesMain(s) <=> h = "close" \/ (ClosesMain(r) /\ h # "open")
    BY <2>1, <1>1, <1>i DEF ClosesMain
  <2> QED BY <2>3, <2>4, <2>5, <1>3, <1>8, <1>h
<1> QED BY <1>9, <1>10

\* A message that is sent changes what that sub-process is to the job.
LEMMA SentJob ==
  ASSUME NEW r, IsJob(r), r.left # <<>>, Head(r.left) \in PipeMessages,
         r.sent < Subs,
         NEW q, q = r.sent + 1,
         NEW s, s = [r EXCEPT !.sent = q]
  PROVE  /\ IsJob(s) /\ s.sent = q /\ s.got = 0 /\ s.left = r.left
         /\ q \in 1 .. Subs
         /\ LocksMain(s) <=> LocksMain(r)
         /\ DrainedMain(s) <=> DrainedMain(r)
         /\ ClosesMain(s) <=> ClosesMain(r)
         /\ \A p \in (1 .. Subs) \ {q} :
              /\ LocksSub(s, p) <=> LocksSub(r, p)
              /\ LockedSub(s, p) <=> LockedSub(r, p)
              /\ ClosesSub(s, p) <=> ClosesSub(r, p)
              /\ Awaits(s, p) <=> Awaits(r, p)
         /\ LocksSub(s, q) <=>
              \/ Head(r.left) = "DB_LOCK"
              \/ LocksSub(r, q) /\ Head(r.left) # "DB_UNLOCK"
         /\ Head(r.left) = "DB_LOCK" => ~LocksSub(r, q)
         /\ Head(r.left) = "DB_UNLOCK" => LocksSub(r, q)
         /\ LockedSub(s, q) => LockedSub(r, q) /\ Head(r.left) # "DB_UNLOCK"
         /\ ClosesSub(s, q) <=>
              \/ Head(r.left) = "DB_CLOSE"
              \/ ClosesSub(r, q) /\ Head(r.left) # "DB_OPEN"
         /\ Awaits(s, q) /\ ~Awaits(r, q)
<1>h. PICK h : h = Head(r.left)
  OBVIOUS
<1>i. PICK i : i = Pos(r)
  OBVIOUS
<1>1. /\ r.cmd \in Commands /\ i \in 1 .. Len(Steps[r.cmd]) /\ i \in Nat
      /\ h = "lock" <=> r.cmd \in Lockers /\ i = 1
      /\ h = "drain" <=> r.cmd \in Lockers /\ i = 2
      /\ h = "DB_LOCK" <=> r.cmd \in Lockers /\ i = 3
      /\ h = "unlock" <=> r.cmd \in Lockers /\ i = UnlockAt(r)
      /\ h = "DB_UNLOCK" <=> r.cmd \in Lockers /\ i = UnlockAt(r) + 1
      /\ h = "close" <=> r.cmd = "restore" /\ i = 4
      /\ h = "DB_CLOSE" <=> r.cmd = "restore" /\ i = 5
      /\ h = "open" <=> r.cmd = "restore" /\ i = 7
      /\ h = "DB_OPEN" <=> r.cmd = "restore" /\ i = 8
  BY <1>h, <1>i, StepPlaces
<1>2. UnlockAt(r) \in {5, 9} /\ (r.cmd = "restore" => UnlockAt(r) = 9)
  BY DEF UnlockAt
<1>3. Subs \in Nat
  BY MaintenanceAssumption
<1>4. r \in Jobs /\ r.sent \in 0 .. Subs /\ r.got \in 0 .. Subs
  BY DEF IsJob, Jobs
<1>5. r.got = 0 /\ q \in 1 .. Subs /\ q \in 0 .. Subs
  BY <1>3, <1>4, JobCounts
<1>6. s.cmd = r.cmd /\ s.left = r.left /\ s.sent = q /\ s.got = 0
  BY <1>4, <1>5 DEF Jobs
<1>7. s \in Jobs
  BY <1>4, <1>5 DEF Jobs
<1>8. IsJob(s)
  <2>1. r # NoCommand
    BY DEF NoCommand
  <2>2. \E k \in 1 .. Len(Steps[s.cmd]) :
          s.left = SubSeq(Steps[s.cmd], k, Len(Steps[s.cmd]))
    BY <2>1, <1>6 DEF IsJob
  <2>3. s.cmd \in Commands /\ Head(s.left) \in PipeMessages
    BY <1>1, <1>6
  <2>4. s.got < Subs
    BY <1>3, <1>5, <1>6
  <2>5. s.got > 0 => s.sent = Subs
    BY <1>6
  <2>6. Head(s.left) \notin PipeMessages => s.sent = 0
    BY <2>3
  <2> QED BY <2>2, <2>3, <2>4, <2>5, <2>6, <1>7 DEF IsJob
<1>9. Pos(s) = i /\ UnlockAt(s) = UnlockAt(r)
  BY <1>6, <1>i DEF Pos, UnlockAt
<1>10. /\ LocksMain(s) <=> LocksMain(r)
       /\ DrainedMain(s) <=> DrainedMain(r)
       /\ ClosesMain(s) <=> ClosesMain(r)
  BY <1>6, <1>9, <1>i DEF LocksMain, DrainedMain, ClosesMain
<1>11. ASSUME NEW p \in (1 .. Subs) \ {q}
       PROVE  /\ LocksSub(s, p) <=> LocksSub(r, p)
              /\ LockedSub(s, p) <=> LockedSub(r, p)
              /\ ClosesSub(s, p) <=> ClosesSub(r, p)
              /\ Awaits(s, p) <=> Awaits(r, p)
  <2>1. q >= p <=> r.sent >= p
    BY <1>3, <1>4
  <2>2. q < p <=> r.sent < p
    BY <1>3, <1>4
  <2> QED
    BY <2>1, <2>2, <1>5, <1>6, <1>9, <1>i DEF LocksSub, LockedSub, UnlocksSub,
       ClosesSub, Awaits
<1>12. /\ LocksSub(s, q) <=> h = "DB_LOCK" \/ (LocksSub(r, q) /\ h # "DB_UNLOCK")
       /\ h = "DB_LOCK" => ~LocksSub(r, q)
       /\ h = "DB_UNLOCK" => LocksSub(r, q)
       /\ LockedSub(s, q) => LockedSub(r, q) /\ h # "DB_UNLOCK"
  <2>1. q >= q /\ ~(r.sent >= q) /\ ~(0 >= q)
    BY <1>3, <1>4, <1>5
  <2> QED
    BY <2>1, <1>1, <1>2, <1>5, <1>6, <1>9, <1>i DEF LocksSub, LockedSub,
       UnlocksSub
<1>13. ClosesSub(s, q) <=> h = "DB_CLOSE" \/ (ClosesSub(r, q) /\ h # "DB_OPEN")
  <2>1. q >= q /\ ~(r.sent >= q) /\ r.sent < q /\ ~(q < q)
    BY <1>3, <1>4, <1>5
  <2> QED BY <2>1, <1>1, <1>6, <1>9, <1>i DEF ClosesSub
<1>14. Awaits(s, q) /\ ~Awaits(r, q)
  BY <1>3, <1>4, <1>5, <1>6 DEF Awaits
<1> QED
  BY <1>h, <1>5, <1>6, <1>8, <1>10, <1>11, <1>12, <1>13, <1>14

\* An answer that is taken changes what that sub-process is to the job.
TakenJob(r) ==
  IF r.got + 1 = Subs THEN Advanced(r) ELSE [r EXCEPT !.got = r.got + 1]

LEMMA AnsweredJob ==
  ASSUME NEW r, IsJob(r), r.left # <<>>, Head(r.left) \in PipeMessages,
         r.sent = Subs,
         NEW q, q = r.got + 1,
         NEW s, s = TakenJob(r)
  PROVE  /\ IsJob(s) /\ s.sent \in {0, r.sent} /\ q \in 1 .. Subs
         /\ s.sent > 0 => s.left = r.left
         /\ LocksMain(s) <=> LocksMain(r)
         /\ DrainedMain(s) <=> DrainedMain(r)
         /\ ClosesMain(s) <=> ClosesMain(r)
         /\ \A p \in 1 .. Subs :
              /\ LocksSub(s, p) <=> LocksSub(r, p)
              /\ LockedSub(s, p) =>
                   LockedSub(r, p) \/ (Head(r.left) = "DB_LOCK" /\ p = q)
              /\ ClosesSub(s, p) <=> ClosesSub(r, p)
              /\ p # q => (Awaits(s, p) <=> Awaits(r, p))
         /\ Awaits(r, q) /\ ~Awaits(s, q)
<1>h. PICK h : h = Head(r.left)
  OBVIOUS
<1>i. PICK i : i = Pos(r)
  OBVIOUS
<1>1. /\ r.cmd \in Commands /\ i \in 1 .. Len(Steps[r.cmd]) /\ i \in Nat
      /\ h = "lock" <=> r.cmd \in Lockers /\ i = 1
      /\ h = "drain" <=> r.cmd \in Lockers /\ i = 2
      /\ h = "DB_LOCK" <=> r.cmd \in Lockers /\ i = 3
      /\ h = "unlock" <=> r.cmd \in Lockers /\ i = UnlockAt(r)
      /\ h = "DB_UNLOCK" <=> r.cmd \in Lockers /\ i = UnlockAt(r) + 1
      /\ h = "close" <=> r.cmd = "restore" /\ i = 4
      /\ h = "DB_CLOSE" <=> r.cmd = "restore" /\ i = 5
      /\ h = "open" <=> r.cmd = "restore" /\ i = 7
      /\ h = "DB_OPEN" <=> r.cmd = "restore" /\ i = 8
  BY <1>h, <1>i, StepPlaces
<1>2. UnlockAt(r) \in {5, 9} /\ (r.cmd = "restore" => UnlockAt(r) = 9)
  BY DEF UnlockAt
<1>3. Subs \in Nat /\ Subs >= 1
  BY MaintenanceAssumption
<1>4. r \in Jobs /\ r.got \in 0 .. Subs /\ r.got < Subs
  BY JobCounts DEF IsJob, Jobs
<1>5. q \in 1 .. Subs /\ q \in 0 .. Subs
  BY <1>3, <1>4
<1>6. ~Awaits(r, q) = FALSE
  BY <1>3, <1>4, <1>5 DEF Awaits
<1>7. CASE q # Subs
  <2>1. s = [r EXCEPT !.got = q]
    BY <1>7 DEF TakenJob
  <2>2. s.cmd = r.cmd /\ s.left = r.left /\ s.sent = r.sent /\ s.got = q
    BY <2>1, <1>4 DEF Jobs
  <2>3. s \in Jobs
    BY <2>1, <1>4, <1>5 DEF Jobs
  <2>4. IsJob(s)
    <3>1. r # NoCommand
      BY DEF NoCommand
    <3>2. \E k \in 1 .. Len(Steps[s.cmd]) :
            s.left = SubSeq(Steps[s.cmd], k, Len(Steps[s.cmd]))
      BY <3>1, <2>2 DEF IsJob
    <3>3. s.got < Subs
      BY <1>3, <1>5, <1>7, <2>2
    <3> QED BY <3>2, <3>3, <2>2, <2>3, <1>1 DEF IsJob
  <2>5. Pos(s) = i /\ UnlockAt(s) = UnlockAt(r)
    BY <2>2, <1>i DEF Pos, UnlockAt
  <2>6. /\ LocksMain(s) <=> LocksMain(r)
        /\ DrainedMain(s) <=> DrainedMain(r)
        /\ ClosesMain(s) <=> ClosesMain(r)
    BY <2>2, <2>5, <1>i DEF LocksMain, DrainedMain, ClosesMain
  <2>7. ASSUME NEW p \in 1 .. Subs
        PROVE  /\ LocksSub(s, p) <=> LocksSub(r, p)
               /\ LockedSub(s, p) => LockedSub(r, p) \/ (h = "DB_LOCK" /\ p = q)
               /\ ClosesSub(s, p) <=> ClosesSub(r, p)
               /\ p # q => (Awaits(s, p) <=> Awaits(r, p))
    <3>1. p # q => (q >= p <=> r.got >= p)
      BY <1>3, <1>4
    <3>2. p # q => (q < p <=> r.got < p)
      BY <1>3, <1>4
    <3> QED
      BY <3>1, <3>2, <2>2, <2>5, <1>1, <1>i DEF LocksSub, LockedSub,
         UnlocksSub,
         ClosesSub, Awaits
  <2>8. ~Awaits(s, q)
    BY <2>2, <1>5 DEF Awaits
  <2> QED BY <1>h, <1>5, <1>6, <2>2, <2>4, <2>6, <2>7, <2>8
<1>8. CASE q = Subs
  <2>1. s = Advanced(r)
    BY <1>8 DEF TakenJob
  <2>2. IsJob(s) /\ s.sent = 0 /\ s.got = 0
    BY <2>1, AdvancedIsJob
  <2>3. \A p \in 1 .. Subs : ~Awaits(s, p)
    BY <2>2 DEF Awaits
  <2>4. \A p \in 1 .. Subs : p # q => ~Awaits(r, p)
    BY <1>3, <1>4, <1>8 DEF Awaits
  <2>5. \A p \in 1 .. Subs : r.sent >= p /\ ~(r.sent < p) /\ ~(0 >= p) /\ 0 < p
    BY <1>3
  <2>6. \A p \in 1 .. Subs : r.got >= p <=> p # q
    BY <1>3, <1>4, <1>8
  <2>7. CASE s = NoCommand
    <3>1. i = Len(Steps[r.cmd])
      BY <2>1, <2>7, <1>i, AdvancedIsJob
    <3>2. r.cmd = "backup" => Len(Steps[r.cmd]) = 6 /\ UnlockAt(r) = 5
      BY StepsTable DEF UnlockAt
    <3>3. r.cmd = "restore" => Len(Steps[r.cmd]) = 10 /\ UnlockAt(r) = 9
      BY StepsTable DEF UnlockAt
    <3>4. r.cmd \in Lockers => r.cmd = "backup" \/ r.cmd = "restore"
      BY DEF Lockers
    <3>5. /\ r.cmd = "backup" => i = 6
          /\ r.cmd = "restore" => i = 10
      BY <3>1, <3>2, <3>3
    <3>6. /\ ~LocksMain(r) /\ ~DrainedMain(r) /\ ~ClosesMain(r)
          /\ \A p \in 1 .. Subs : ~LocksSub(r, p) /\ ~ClosesSub(r, p)
      BY <3>2, <3>3, <3>4, <3>5, <2>5, <1>i DEF LocksMain, DrainedMain,
         ClosesMain,
         LocksSub, UnlocksSub, ClosesSub
    <3>7. Outside(s)
      BY <2>7, NoCommandIsJob
    <3> QED BY <3>6, <3>7, <2>2, <2>3, <2>4, <1>5, <1>6 DEF Outside
  <2>8. CASE s # NoCommand
    <3>1. s.cmd = r.cmd /\ Pos(s) = i + 1
      BY <2>1, <2>8, <1>i, AdvancedIsJob
    <3>2. UnlockAt(s) = UnlockAt(r)
      BY <3>1 DEF UnlockAt
    <3>3. h \in {"DB_LOCK", "DB_UNLOCK", "DB_OPEN", "DB_CLOSE", "NEW_MASTER"}
      BY <1>h DEF PipeMessages
    <3>4. h = "NEW_MASTER" => r.cmd \notin Lockers
      <4>0. ASSUME h = "NEW_MASTER", r.cmd \in Lockers
            PROVE  FALSE
        <5>1. r # NoCommand
          BY DEF NoCommand
        <5>2. h = Steps[r.cmd][i]
          BY <5>1, <1>h, <1>i, JobPlace
        <5>3. \/ r.cmd = "backup" /\ i \in {1, 2, 3, 4, 5, 6}
              \/ r.cmd = "restore" /\ i \in {1, 2, 3, 4, 5, 6, 7, 8, 9, 10}
          BY <4>0, <5>1, <1>i, LockerPlaces
        <5> QED BY <4>0, <5>2, <5>3, StepsTable
      <4> QED BY <4>0
    <3>5. r.cmd = "restore" => r.cmd \in Lockers
      BY <1>1 DEF Lockers
    <3>6. r.cmd \in Lockers => i # 1 /\ i # 2 /\ i # UnlockAt(r)
      BY <3>3, <1>1
    <3>7. r.cmd = "restore" => i # 4 /\ i # 7
      BY <3>3, <1>1
    <3>8. /\ LocksMain(s) <=> LocksMain(r)
          /\ DrainedMain(s) <=> DrainedMain(r)
          /\ ClosesMain(s) <=> ClosesMain(r)
      BY <3>1, <3>2, <3>6, <3>7, <1>1, <1>2, <1>i
         DEF LocksMain, DrainedMain, ClosesMain
    <3>u. r.cmd \in Lockers => i <= UnlockAt(r)
      <4>1. s.cmd \in Lockers =>
              (Pos(s) \in {1, 2, 3, 4, 5, 6} /\ UnlockAt(s) = 5)
              \/ (Pos(s) \in {1, 2, 3, 4, 5, 6, 7, 8, 9, 10} /\ UnlockAt(s) = 9)
        BY <2>2, <2>8, LockerPlaces
      <4>2. r.cmd \in Lockers =>
              (i + 1 \in {1, 2, 3, 4, 5, 6} /\ UnlockAt(r) = 5)
              \/ (i + 1 \in {1, 2, 3, 4, 5, 6, 7, 8, 9, 10} /\ UnlockAt(r) = 9)
        BY <4>1, <3>1, <3>2
      <4> QED BY <4>2, <1>1
    <3>9. ASSUME NEW p \in 1 .. Subs
          PROVE  /\ LocksSub(s, p) <=> LocksSub(r, p)
                 /\ LockedSub(s, p) => LockedSub(r, p) \/ (h = "DB_LOCK" /\ p = q)
                 /\ ClosesSub(s, p) <=> ClosesSub(r, p)
      <4>1. r.sent >= p /\ ~(r.sent < p) /\ ~(0 >= p) /\ 0 < p
        BY <2>5
      <4>2. r.got >= p <=> p # q
        BY <2>6
      <4>3. LocksSub(s, p) <=> LocksSub(r, p)
        BY <4>1, <3>1, <3>2, <3>3, <3>4, <3>6, <3>u, <2>2, <1>1, <1>2, <1>i
           DEF LocksSub, UnlocksSub
      <4>4. LockedSub(s, p) => LockedSub(r, p) \/ (h = "DB_LOCK" /\ p = q)
        BY <4>1, <4>2, <3>1, <3>2, <3>3, <3>4, <3>6, <3>u, <2>2, <1>1, <1>2,
           <1>i
           DEF LockedSub, UnlocksSub
      <4>5. ClosesSub(s, p) <=> ClosesSub(r, p)
        BY <4>1, <3>1, <3>3, <3>4, <3>5, <3>7, <2>2, <1>1, <1>i
           DEF ClosesSub
      <4> QED BY <4>3, <4>4, <4>5
    <3> QED BY <3>8, <3>9, <2>2, <2>3, <2>4, <1>5, <1>6, <1>h
  <2> QED BY <2>7, <2>8
<1> QED BY <1>7, <1>8

-----------------------------------------------------------------------------
(* Gates, databases and holders.                                           *)

LEMMA GateIsInteger ==
  ASSUME NEW g \in Nat, NEW s, NEW k \in Nat
  PROVE  Gate(g, s, k) \in Int /\ Gate(g, s, 0) = g
<1>1. /\ Count(s, k, "DB_LOCK") \in Nat /\ Count(s, k, "DB_UNLOCK") \in Nat
      /\ Count(s, 0, "DB_LOCK") = 0 /\ Count(s, 0, "DB_UNLOCK") = 0
  BY CountIsNumber
<1> QED BY <1>1 DEF Gate

\* A command that is sent is handled after those before it.
LEMMA GateSend ==
  ASSUME NEW g \in Nat, NEW s \in Seq(PipeMessages), NEW e \in PipeMessages
  PROVE  /\ \A k \in 0 .. Len(s) : Gate(g, Append(s, e), k) = Gate(g, s, k)
         /\ Gate(g, Append(s, e), Len(s) + 1) =
              Gate(g, s, Len(s)) + (CASE e = "DB_LOCK" -> 1
                                      [] e = "DB_UNLOCK" -> -1
                                      [] OTHER -> 0)
<1>t. PICK t : t = Append(s, e)
  OBVIOUS
<1>0. Len(s) \in Nat
  OBVIOUS
<1>1. \A k \in 0 .. Len(s) :
        /\ Count(t, k, "DB_LOCK") = Count(s, k, "DB_LOCK")
        /\ Count(t, k, "DB_UNLOCK") = Count(s, k, "DB_UNLOCK")
  <2>1. ASSUME NEW w, NEW k \in 0 .. Len(s)
        PROVE  Count(t, k, w) = Count(s, k, w)
    <3>1. \A i \in 1 .. k : t[i] = s[i]
      BY <1>t, <1>0, AppendProperties
    <3> QED BY <3>1, <1>0, CountSame
  <2> QED BY <2>1
<1>2. /\ Count(t, Len(s) + 1, "DB_LOCK") =
           Count(s, Len(s), "DB_LOCK") + (IF e = "DB_LOCK" THEN 1 ELSE 0)
      /\ Count(t, Len(s) + 1, "DB_UNLOCK") =
           Count(s, Len(s), "DB_UNLOCK") + (IF e = "DB_UNLOCK" THEN 1 ELSE 0)
  BY <1>t, CountAppend
<1>3. Count(s, Len(s), "DB_LOCK") \in Nat /\ Count(s, Len(s), "DB_UNLOCK") \in Nat
  BY <1>0, CountIsNumber
<1>4. \A k \in 0 .. Len(s) : Gate(g, t, k) = Gate(g, s, k)
  BY <1>1 DEF Gate
<1>5. CASE e = "DB_LOCK"
  BY <1>t, <1>2, <1>3, <1>4, <1>5 DEF Gate
<1>6. CASE e = "DB_UNLOCK"
  BY <1>t, <1>2, <1>3, <1>4, <1>6 DEF Gate
<1>7. CASE e # "DB_LOCK" /\ e # "DB_UNLOCK"
  BY <1>t, <1>2, <1>3, <1>4, <1>7 DEF Gate
<1> QED BY <1>5, <1>6, <1>7

LEMMA GateMoves ==
  ASSUME NEW g \in Nat, NEW a \in Nat, NEW b \in Nat
  PROVE  /\ (g + 1) + a - b = g + (a + 1) - b
         /\ g > 0 => (g - 1) + a - b = g + a - (b + 1)
OBVIOUS

\* A command that is handled changes the gate as it would have.
LEMMA GateReceive ==
  ASSUME NEW g \in Nat, NEW s \in Seq(PipeMessages), s # <<>>,
         Gate(g, s, 1) >= 0,
         NEW h \in Nat,
         h = CASE Head(s) = "DB_LOCK" -> g + 1
               [] Head(s) = "DB_UNLOCK" -> (IF g > 0 THEN g - 1 ELSE 0)
               [] OTHER -> g
  PROVE  \A k \in 0 .. Len(s) - 1 : Gate(h, Tail(s), k) = Gate(g, s, k + 1)
<1>t. PICK t : t = Tail(s)
  OBVIOUS
<1>0. Len(s) \in Nat /\ 0 \in 0 .. Len(s) - 1 /\ 0 + 1 = 1
  OBVIOUS
<1>1. \A k \in 0 .. Len(s) - 1 :
        /\ Count(s, k + 1, "DB_LOCK") =
             Count(t, k, "DB_LOCK") + (IF Head(s) = "DB_LOCK" THEN 1 ELSE 0)
        /\ Count(s, k + 1, "DB_UNLOCK") =
             Count(t, k, "DB_UNLOCK") + (IF Head(s) = "DB_UNLOCK" THEN 1 ELSE 0)
  BY <1>t, CountTail
<1>2. \A k \in 0 .. Len(s) - 1 :
        Count(t, k, "DB_LOCK") \in Nat /\ Count(t, k, "DB_UNLOCK") \in Nat
  <2>1. \A k \in Nat :
          Count(t, k, "DB_LOCK") \in Nat /\ Count(t, k, "DB_UNLOCK") \in Nat
    BY CountIsNumber
  <2> QED BY <2>1, <1>0
<1>3. Count(t, 0, "DB_LOCK") = 0 /\ Count(t, 0, "DB_UNLOCK") = 0
  BY CountIsNumber
<1>4. CASE Head(s) = "DB_LOCK"
  <2>1. h = g + 1
    BY <1>4
  <2>2. ASSUME NEW k \in 0 .. Len(s) - 1
        PROVE  Gate(h, t, k) = Gate(g, s, k + 1)
    <3>1. /\ Count(s, k + 1, "DB_LOCK") = Count(t, k, "DB_LOCK") + 1
          /\ Count(s, k + 1, "DB_UNLOCK") = Count(t, k, "DB_UNLOCK")
          /\ Count(t, k, "DB_LOCK") \in Nat /\ Count(t, k, "DB_UNLOCK") \in Nat
      BY <1>1, <1>2, <1>4
    <3>a. PICK a : a = Count(t, k, "DB_LOCK")
      OBVIOUS
    <3>b. PICK b : b = Count(t, k, "DB_UNLOCK")
      OBVIOUS
    <3>2. a \in Nat /\ b \in Nat
      BY <3>1, <3>a, <3>b
    <3>3. h + a - b = g + (a + 1) - b
      <4>1. (g + 1) + a - b = g + (a + 1) - b
        BY <3>2, GateMoves
      <4> QED BY <4>1, <2>1, Zenon
    <3>4. Gate(h, t, k) = h + a - b
      BY <3>a, <3>b DEF Gate
    <3>5. Gate(g, s, k + 1) = g + (a + 1) - b
      BY <3>1, <3>a, <3>b DEF Gate
    <3> QED BY <3>3, <3>4, <3>5
  <2> QED BY <2>2, <1>t
<1>5. CASE Head(s) = "DB_UNLOCK"
  <2>1. /\ Count(s, 1, "DB_LOCK") = 0
        /\ Count(s, 1, "DB_UNLOCK") = 1
    BY <1>0, <1>1, <1>3, <1>5
  <2>2. g > 0
    <3>1. Gate(g, s, 1) = g + 0 - 1
      BY <2>1 DEF Gate
    <3> QED BY <3>1
  <2>3. h = g - 1
    BY <2>2, <1>5
  <2>4. ASSUME NEW k \in 0 .. Len(s) - 1
        PROVE  Gate(h, t, k) = Gate(g, s, k + 1)
    <3>1. /\ Count(s, k + 1, "DB_LOCK") = Count(t, k, "DB_LOCK")
          /\ Count(s, k + 1, "DB_UNLOCK") = Count(t, k, "DB_UNLOCK") + 1
          /\ Count(t, k, "DB_LOCK") \in Nat /\ Count(t, k, "DB_UNLOCK") \in Nat
      BY <1>1, <1>2, <1>5
    <3>a. PICK a : a = Count(t, k, "DB_LOCK")
      OBVIOUS
    <3>b. PICK b : b = Count(t, k, "DB_UNLOCK")
      OBVIOUS
    <3>2. a \in Nat /\ b \in Nat
      BY <3>1, <3>a, <3>b
    <3>3. h + a - b = g + a - (b + 1)
      <4>1. (g - 1) + a - b = g + a - (b + 1)
        BY <2>2, <3>2, GateMoves
      <4> QED BY <4>1, <2>3, Zenon
    <3>4. Gate(h, t, k) = h + a - b
      BY <3>a, <3>b DEF Gate
    <3>5. Gate(g, s, k + 1) = g + a - (b + 1)
      BY <3>1, <3>a, <3>b DEF Gate
    <3> QED BY <3>3, <3>4, <3>5
  <2> QED BY <2>4, <1>t
<1>6. CASE Head(s) # "DB_LOCK" /\ Head(s) # "DB_UNLOCK"
  BY <1>t, <1>1, <1>2, <1>6 DEF Gate
<1> QED BY <1>4, <1>5, <1>6

LEMMA ShutSend ==
  ASSUME NEW o \in BOOLEAN, NEW s \in Seq(PipeMessages), NEW e \in PipeMessages,
         Shut(o, Append(s, e))
  PROVE  e = "DB_CLOSE" \/ (Shut(o, s) /\ e # "DB_OPEN")
<1>t. PICK t : t = Append(s, e)
  OBVIOUS
<1>1. /\ Len(s) \in Nat /\ Len(t) = Len(s) + 1 /\ t[Len(s) + 1] = e
      /\ \A j \in 1 .. Len(s) : t[j] = s[j]
  BY <1>t, AppendProperties
<1>2. Len(s) + 1 \in 1 .. Len(t) /\ \A i \in 1 .. Len(t) : Len(s) + 1 \in i .. Len(t)
  BY <1>1
<1>3. Shut(o, t)
  BY <1>t
<1>4. e # "DB_OPEN"
  BY <1>1, <1>2, <1>3 DEF Shut
<1>5. CASE ~o /\ \A j \in 1 .. Len(t) : t[j] # "DB_OPEN"
  BY <1>1, <1>4, <1>5 DEF Shut
<1>6. ASSUME NEW i \in 1 .. Len(t), t[i] = "DB_CLOSE",
             \A j \in i .. Len(t) : t[j] # "DB_OPEN", e # "DB_CLOSE"
      PROVE  Shut(o, s)
  <2>1. i \in 1 .. Len(s)
    BY <1>1, <1>6
  <2>2. s[i] = "DB_CLOSE" /\ \A j \in i .. Len(s) : s[j] # "DB_OPEN"
    BY <2>1, <1>1, <1>6
  <2> QED BY <2>1, <2>2 DEF Shut
<1> QED BY <1>3, <1>4, <1>5, <1>6 DEF Shut

LEMMA ShutReceive ==
  ASSUME NEW o \in BOOLEAN, NEW s \in Seq(PipeMessages), s # <<>>,
         NEW n \in BOOLEAN,
         Head(s) = "DB_OPEN" => n,
         Head(s) \notin {"DB_OPEN", "DB_CLOSE"} => n = o,
         Shut(n, Tail(s))
  PROVE  Shut(o, s)
<1>t. PICK t : t = Tail(s)
  OBVIOUS
<1>1. /\ Len(s) \in Nat /\ Len(s) >= 1 /\ Len(t) = Len(s) - 1 /\ Head(s) = s[1]
      /\ \A j \in 1 .. Len(t) : t[j] = s[j + 1]
  BY <1>t, HeadTailProperties
<1>2. \A j \in 2 .. Len(s) : j - 1 \in 1 .. Len(t) /\ s[j] = t[j - 1]
  <2>1. ASSUME NEW j \in 2 .. Len(s)
        PROVE  j - 1 \in 1 .. Len(t) /\ s[j] = t[j - 1]
    <3>1. j - 1 \in 1 .. Len(t) /\ (j - 1) + 1 = j
      BY <1>1
    <3> QED BY <3>1, <1>1
  <2> QED BY <2>1
<1>3. Shut(n, t)
  BY <1>t
<1>4. CASE ~n /\ \A j \in 1 .. Len(t) : t[j] # "DB_OPEN"
  <2>1. \A j \in 2 .. Len(s) : s[j] # "DB_OPEN"
    BY <1>2, <1>4
  <2>2. s[1] # "DB_OPEN"
    BY <1>1, <1>4
  <2>3. \A j \in 1 .. Len(s) : s[j] # "DB_OPEN"
    BY <2>1, <2>2, <1>1
  <2>4. CASE s[1] = "DB_CLOSE"
    BY <2>3, <2>4, <1>1 DEF Shut
  <2>5. CASE s[1] # "DB_CLOSE"
    BY <2>2, <2>3, <2>5, <1>1, <1>4 DEF Shut
  <2> QED BY <2>4, <2>5
<1>5. ASSUME NEW i \in 1 .. Len(t), t[i] = "DB_CLOSE",
             \A j \in i .. Len(t) : t[j] # "DB_OPEN"
      PROVE  Shut(o, s)
  <2>1. i + 1 \in 1 .. Len(s) /\ s[i + 1] = "DB_CLOSE"
    BY <1>1, <1>5
  <2>2. ASSUME NEW j \in i + 1 .. Len(s)
        PROVE  s[j] # "DB_OPEN"
    <3>1. j \in 2 .. Len(s) /\ j - 1 \in i .. Len(t)
      BY <1>1
    <3> QED BY <3>1, <1>2, <1>5
  <2> QED BY <2>1, <2>2 DEF Shut
<1> QED BY <1>3, <1>4, <1>5 DEF Shut

\* Two sets of managers that differ at most in m.
LEMMA OneManager ==
  ASSUME NEW A, NEW B, A \subseteq Managers, B \subseteq Managers,
         NEW m \in Managers,
         \A o \in Managers \ {m} : o \in A <=> o \in B
  PROVE  /\ Cardinality(A) \in Nat /\ Cardinality(B) \in Nat
         /\ (m \in A <=> m \in B) => Cardinality(B) = Cardinality(A)
         /\ m \in B /\ m \notin A => Cardinality(B) = Cardinality(A) + 1
         /\ m \in A /\ m \notin B => Cardinality(B) = Cardinality(A) - 1
<1>1. IsFiniteSet(A) /\ IsFiniteSet(B)
  BY FS_Subset, MaintenanceAssumption
<1>2. Cardinality(A) \in Nat /\ Cardinality(B) \in Nat
  BY <1>1, FS_CardinalityType
<1>3. (m \in A <=> m \in B) => A = B
  OBVIOUS
<1>4. m \in B /\ m \notin A => B = A \cup {m}
  OBVIOUS
<1>5. m \in A /\ m \notin B => A = B \cup {m}
  OBVIOUS
<1>6. m \notin A => Cardinality(A \cup {m}) = Cardinality(A) + 1
  BY <1>1, FS_AddElement
<1>7. m \notin B => Cardinality(B \cup {m}) = Cardinality(B) + 1
  BY <1>1, FS_AddElement
<1>8. m \in B /\ m \notin A => Cardinality(B) = Cardinality(A) + 1
  BY <1>4, <1>6
<1>9. m \in A /\ m \notin B => Cardinality(B) = Cardinality(A) - 1
  <2>1. m \in A /\ m \notin B => Cardinality(A) = Cardinality(B) + 1
    BY <1>5, <1>7
  <2> QED BY <2>1, <1>2
<1> QED BY <1>2, <1>3, <1>8, <1>9

LEMMA SomeManager ==
  ASSUME NEW A, A \subseteq Managers
  PROVE  /\ IsFiniteSet(A) /\ Cardinality(A) \in Nat
         /\ A = {} <=> Cardinality(A) = 0
         /\ \A m : A = {m} => Cardinality(A) = 1
<1>1. IsFiniteSet(A)
  BY FS_Subset, MaintenanceAssumption
<1> QED BY <1>1, FS_CardinalityType, FS_EmptySet, FS_Singleton

-----------------------------------------------------------------------------
(* What a step leaves alone.                                               *)

\* A sub-process that a step does not touch, while it changes no job for it, or
\* a failure ends one.
LEMMA SubFrame ==
  ASSUME MaintenanceTyped, NEW p \in 1 .. Subs, SubIsLocked(p),
         pipe'[p] = pipe[p], answers'[p] = answers[p], manage'[p] = manage[p],
         gates'[p] = gates[p], open'[p] = open[p], entered'[p] => entered[p],
         failures' \in Nat, failures' >= failures,
         \A o \in Managers :
           /\ Awaits(manager'[o], p) <=> Awaits(manager[o], p)
           /\ LocksSub(manager'[o], p) => LocksSub(manager[o], p)
           /\ failures' = 0 => (LocksSub(manager'[o], p) <=> LocksSub(manager[o], p))
           /\ failures' = 0 => (ClosesSub(manager[o], p) => ClosesSub(manager'[o], p))
           /\ LockedSub(manager'[o], p) /\ o \notin crossed' =>
                LockedSub(manager[o], p) /\ o \notin crossed
           /\ Sole(o)' /\ Awaits(manager'[o], p) => Sole(o)
  PROVE  SubIsLocked(p)'
<1>1. Waiting(p)' = Waiting(p)
  BY DEF Waiting
<1>2. Holders(p)' \subseteq Holders(p) /\ (failures' = 0 => Holders(p)' = Holders(p))
  BY DEF Holders
<1>3. Cardinality(Holders(p)') <= Cardinality(Holders(p))
  <2>1. IsFiniteSet(Holders(p)) /\ IsFiniteSet(Holders(p)')
    BY SomeManager DEF Holders
  <2> QED BY <2>1, <1>2, FS_Subset
<1>4. failures \in Nat /\ (failures' = 0 => failures = 0)
  BY DEF MaintenanceTyped
<1>5. \A k : Balance(p, k)' = Balance(p, k)
  BY DEF Balance
<1>6. AnswersLeft(p)'
  BY <1>1 DEF SubIsLocked, AnswersLeft
<1>7. GateCounts(p)'
  <2>1. GateCounts(p)
    BY DEF SubIsLocked
  <2>2. /\ Cardinality(Holders(p)) \in Nat /\ Cardinality(Holders(p)') \in Nat
        /\ Len(pipe[p]) \in Nat
        /\ Balance(p, Len(pipe[p])) \in Int
    <3>1. pipe[p] \in Seq(PipeMessages) /\ gates[p] \in Nat
      BY DEF MaintenanceTyped, Procs
    <3>2. Len(pipe[p]) \in Nat
      BY <3>1
    <3>3. Cardinality(Holders(p)) \in Nat /\ Cardinality(Holders(p)') \in Nat
      BY SomeManager DEF Holders
    <3> QED BY <3>1, <3>2, <3>3, GateIsInteger DEF Balance
  <2>3. Balance(p, Len(pipe[p]))' = Balance(p, Len(pipe[p]))
    BY DEF Balance
  <2>4. \A k \in 0 .. Len(pipe'[p]) : Balance(p, k)' >= 0
    BY <2>1, <1>5 DEF GateCounts
  <2>5. Balance(p, Len(pipe[p]))' >= Cardinality(Holders(p)')
    BY <2>1, <2>2, <2>3, <1>3 DEF GateCounts
  <2>6. failures' = 0 => Balance(p, Len(pipe[p]))' = Cardinality(Holders(p)')
    BY <2>1, <2>3, <1>2, <1>4 DEF GateCounts
  <2> QED BY <2>4, <2>5, <2>6 DEF GateCounts
<1>8. StaysLocked(p)'
  BY <1>5 DEF SubIsLocked, StaysLocked
<1>9. OwnAnswer(p)'
  BY DEF SubIsLocked, OwnAnswer
<1>10. ShutForACommand(p)'
  BY <1>4 DEF SubIsLocked, ShutForACommand
<1> QED BY <1>6, <1>7, <1>8, <1>9, <1>10 DEF SubIsLocked

\* The main process, when a step does not touch it or only ends a transaction.
LEMMA MainFrame ==
  ASSUME MainIsLocked, failures \in Nat, failures' \in Nat, failures' >= failures,
         gates'[Main] = gates[Main], open'[Main] = open[Main],
         entered'[Main] => entered[Main],
         \A o \in Managers :
           /\ LocksMain(manager'[o]) <=> LocksMain(manager[o])
           /\ DrainedMain(manager'[o]) => DrainedMain(manager[o])
           /\ ClosesMain(manager'[o]) <=> ClosesMain(manager[o])
  PROVE  MainIsLocked'
<1>1. MainHolders' = MainHolders
  BY DEF MainHolders
<1>2. failures' = 0 => failures = 0
  OBVIOUS
<1> QED BY <1>1, <1>2 DEF MainIsLocked

LEMMA AloneFrame ==
  ASSUME Alone,
         \A o \in Managers :
           /\ Sole(o)' => Sole(o)
           /\ manager'[o].sent = manager[o].sent \/ manager'[o].sent = 0
  PROVE  Alone'
BY DEF Alone

-----------------------------------------------------------------------------
(* The transactions that a step begins and ends.                           *)

LEMMA EnteredIn ==
  ASSUME NEW t, NEW l, NEW x \in Procs
  PROVE  Entered(t, l)[x] <=>
           \E c \in Clients : Home[c] = x /\ t[c].at # "idle" /\ c \notin l
BY DEF Entered

LEMMA EnteredSame ==
  ASSUME transVars' = transVars
  PROVE  entered' = entered /\ (TransTyped => TransTyped')
<1>1. trans' = trans /\ late' = late
  BY DEF transVars
<1> QED BY <1>1 DEF entered, TransTyped

LEMMA NoneEnterSame ==
  ASSUME TransTyped, transVars' = transVars
  PROVE  NoneEnter
BY EnteredSame DEF NoneEnter

\* What a step does that leaves nobody in a transaction who was not.
LEMMA LeavingEnters ==
  ASSUME TransTyped',
         \A c \in Clients : trans'[c].at # "idle" /\ c \notin late' =>
                             trans[c].at # "idle" /\ c \notin late
  PROVE  NoneEnter
<1>1. ASSUME NEW x \in Procs, entered'[x]
      PROVE  entered[x]
  <2>1. Entered(trans', late')[x]
    BY <1>1 DEF entered
  <2>2. PICK c \in Clients : Home[c] = x /\ trans'[c].at # "idle" /\ c \notin late'
    BY <2>1, EnteredIn
  <2>3. trans[c].at # "idle" /\ c \notin late
    BY <2>2
  <2>4. Entered(trans, late)[x]
    BY <2>2, <2>3, EnteredIn
  <2> QED BY <2>4 DEF entered
<1> QED BY <1>1 DEF NoneEnter

\* A thread that is in a transaction goes on with it or ends it.
LEMMA GoingOnEnters ==
  ASSUME TransTyped, NEW c \in Clients, TransGoesOn(c)
  PROVE  NoneEnter
<1>1. PICK r \in [at : {"idle", "past", "counted"}, left : Nat] :
        /\ trans' = [trans EXCEPT ![c] = r]
        /\ r.at # "idle" => late' = late
        /\ r.at = "idle" => late' = late \ {c}
        /\ trans[c].at # "idle"
  <2>0. trans[c].left \in Nat /\ TransTries \in Nat
    BY MaintenanceAssumption DEF TransTyped
  <2>1. CASE Begin(c)
    <3>1. [at |-> "counted", left |-> trans[c].left] \in
            [at : {"idle", "past", "counted"}, left : Nat]
      BY <2>0
    <3> QED BY <2>1, <3>1 DEF Begin, Trans
  <2>2. CASE RetryLater(c)
    <3>1. [at |-> "past", left |-> trans[c].left - 1] \in
            [at : {"idle", "past", "counted"}, left : Nat]
      BY <2>0, <2>2 DEF RetryLater
    <3> QED BY <2>2, <3>1 DEF RetryLater, Trans
  <2>3. CASE CannotBegin(c) \/ EndTransaction(c)
    <3>1. Idle \in [at : {"idle", "past", "counted"}, left : Nat] /\ Idle.at = "idle"
      BY DEF Idle
    <3> QED BY <2>3, <3>1 DEF CannotBegin, EndTransaction, EndsTrans
  <2> QED BY <2>1, <2>2, <2>3 DEF TransGoesOn
<1>2. /\ TransTyped' /\ trans'[c] = r
      /\ \A d \in Clients \ {c} : trans'[d] = trans[d]
  BY <1>1 DEF TransTyped
<1>3. \A d \in Clients : trans'[d].at # "idle" /\ d \notin late' =>
                          trans[d].at # "idle" /\ d \notin late
  BY <1>1, <1>2
<1> QED BY <1>2, <1>3, LeavingEnters

\* A database that is closed ends transactions.
LEMMA ClosingEnds ==
  ASSUME TransTyped, NEW x \in Procs, EndsWithDatabase(x)
  PROVE  NoneEnter
<1>1. PICK ended :
        /\ trans' = [c \in Clients |-> IF c \in ended THEN Idle ELSE trans[c]]
        /\ late' = late \ ended
  BY DEF EndsWithDatabase
<1>2. Idle \in [at : {"idle", "past", "counted"}, left : Nat] /\ Idle.at = "idle"
  BY DEF Idle
<1>3. TransTyped'
  BY <1>1, <1>2 DEF TransTyped
<1>4. \A c \in Clients : trans'[c].at # "idle" /\ c \notin late' =>
                          trans[c].at # "idle" /\ c \notin late
  BY <1>1, <1>2
<1> QED BY <1>3, <1>4, LeavingEnters

\* When lock() returns, whoever is in a transaction is late.
LEMMA DrainingLeaves ==
  ASSUME TransTyped, NEW x \in Procs, NoneCounted(x), PastStayLate(x),
         trans' = trans
  PROVE  NoneEnter /\ ~entered'[x]
<1>1. /\ \A c \in Clients : Home[c] = x => trans[c].at # "counted"
      /\ \A c \in Clients : Home[c] = x =>
            (c \in late' <=> trans[c].at = "past")
      /\ \A c \in Clients : Home[c] # x => (c \in late' <=> c \in late)
  BY DEF NoneCounted, PastStayLate, Clerks
<1>2. \A c \in Clients : trans[c].at \in {"idle", "past", "counted"}
  BY DEF TransTyped
<1>3. \A c \in Clients : Home[c] = x /\ trans[c].at # "idle" => c \in late'
  BY <1>1, <1>2
<1>4. TransTyped'
  BY DEF TransTyped
<1>5. NoneEnter
  BY <1>1, <1>3, <1>4, LeavingEnters
<1>6. ~entered'[x]
  <2>1. ~Entered(trans', late')[x]
    BY <1>3, EnteredIn
  <2> QED BY <2>1 DEF entered
<1> QED BY <1>5, <1>6

\* A transaction passes the gate of its process only.
LEMMA PassingEnters ==
  ASSUME TransTyped, NEW c \in Clients, PassGate(c)
  PROVE  /\ TransTyped' /\ Home[c] \in Procs /\ gates[Home[c]] = 0
         /\ \A x \in Procs \ {Home[c]} : entered'[x] => entered[x]
<1>1. /\ trans' = [trans EXCEPT ![c] = [at |-> "past", left |-> TransTries]]
      /\ late' = late /\ gates[Home[c]] = 0
  BY DEF PassGate, Trans
<1>2. /\ Home[c] \in Procs
      /\ [at |-> "past", left |-> TransTries] \in
           [at : {"idle", "past", "counted"}, left : Nat]
  BY MaintenanceAssumption
<1>3. TransTyped' /\ \A d \in Clients \ {c} : trans'[d] = trans[d]
  BY <1>1, <1>2 DEF TransTyped
<1>4. ASSUME NEW x \in Procs \ {Home[c]}, entered'[x]
      PROVE  entered[x]
  <2>1. Entered(trans', late')[x]
    BY <1>4 DEF entered
  <2>2. PICK d \in Clients : Home[d] = x /\ trans'[d].at # "idle" /\ d \notin late'
    BY <2>1, EnteredIn
  <2>3. trans[d].at # "idle" /\ d \notin late
    BY <2>2, <1>1, <1>3
  <2>4. Entered(trans, late)[x]
    BY <2>2, <2>3, EnteredIn
  <2> QED BY <2>4 DEF entered
<1> QED BY <1>1, <1>2, <1>3, <1>4

-----------------------------------------------------------------------------
(* The steps of a sub-process.                                             *)

\* A step of the process p that touches nothing else.
LEMMA SubOnly ==
  ASSUME MInv, NEW p \in 1 .. Subs,
         given' = given, manager' = manager, crossed' = crossed,
         failures' \in 0 .. MaxFailures, failures' >= failures,
         pipe' \in [1 .. Subs -> Seq(PipeMessages)],
         answers' \in [1 .. Subs -> Nat],
         manage' \in [1 .. Subs -> {"recv", "drain", "dead"}],
         gates' \in [Procs -> Nat],
         open' \in [Procs -> BOOLEAN], TransTyped',
         \A q \in (1 .. Subs) \ {p} : pipe'[q] = pipe[q],
         \A q \in (1 .. Subs) \ {p} : answers'[q] = answers[q],
         \A q \in (1 .. Subs) \ {p} : manage'[q] = manage[q],
         \A x \in Procs \ {p} : gates'[x] = gates[x],
         \A x \in Procs \ {p} : open'[x] = open[x],
         \A x \in Procs \ {p} : entered'[x] => entered[x],
         SubIsLocked(p)'
  PROVE  MInv'
<1>0. MaintenanceTyped /\ failures \in Nat /\ failures' \in Nat
  <2>1. MaintenanceTyped
    BY DEF MInv
  <2>2. failures \in 0 .. MaxFailures
    BY <2>1 DEF MaintenanceTyped
  <2> QED BY <2>1, <2>2
<1>1. MaintenanceTyped'
  BY <1>0 DEF MaintenanceTyped
<1>2. Alone'
  BY DEF MInv, Alone, Sole, At
<1>3. Main \in Procs \ {p}
  BY DEF Main, Procs
<1>4. MainIsLocked'
  BY <1>0, <1>3, MainFrame DEF MInv
<1>5. ASSUME NEW q \in 1 .. Subs
      PROVE  SubIsLocked(q)'
  <2>1. CASE q = p
    BY <2>1
  <2>2. CASE q # p
    <3>1. q \in Procs \ {p}
      BY <2>2 DEF Procs
    <3>2. SubIsLocked(q)
      BY DEF MInv
    <3>3. \A o \in Managers : Sole(o)' => Sole(o)
      BY DEF Sole, At
    <3>4. /\ pipe'[q] = pipe[q] /\ answers'[q] = answers[q]
          /\ manage'[q] = manage[q] /\ gates'[q] = gates[q]
          /\ open'[q] = open[q] /\ (entered'[q] => entered[q])
      BY <2>2, <3>1
    <3> QED BY <1>0, <3>2, <3>3, <3>4, SubFrame
  <2> QED BY <2>1, <2>2
<1> QED BY <1>1, <1>2, <1>4, <1>5 DEF MInv

\* A command that the process p takes from its pipe.
LEMMA SubReceives ==
  ASSUME MaintenanceTyped, NEW p \in 1 .. Subs, SubIsLocked(p),
         manager' = manager, crossed' = crossed,
         failures' \in Nat, failures' >= failures,
         NEW h, h = Head(pipe[p]), manage[p] = "recv", pipe[p] # <<>>,
         pipe'[p] = Tail(pipe[p]), entered'[p] => entered[p],
         gates'[p] = (CASE h = "DB_LOCK" -> gates[p] + 1
                        [] h = "DB_UNLOCK" ->
                             IF gates[p] > 0 THEN gates[p] - 1 ELSE 0
                        [] OTHER -> gates[p]),
         gates'[p] \in Nat, answers'[p] \in Nat, open'[p] \in BOOLEAN,
         h = "DB_OPEN" => open'[p] \/ failures' > 0,
         h \notin {"DB_OPEN", "DB_CLOSE"} => open'[p] = open[p],
         answers'[p] + (IF manage'[p] = "recv" THEN 0 ELSE 1) = answers[p] + 1,
         OwnAnswer(p)'
  PROVE  SubIsLocked(p)'
<1>s. PICK s : s = pipe[p]
  OBVIOUS
<1>t. PICK t : t = Tail(s)
  OBVIOUS
<1>0. /\ s \in Seq(PipeMessages) /\ s # <<>> /\ Len(s) \in Nat /\ Len(s) >= 1
      /\ gates[p] \in Nat /\ answers[p] \in Nat /\ open[p] \in BOOLEAN
      /\ failures \in Nat /\ h = Head(s)
  BY <1>s DEF MaintenanceTyped, Procs
<1>1. t \in Seq(PipeMessages) /\ Len(t) = Len(s) - 1 /\ pipe'[p] = t
  BY <1>s, <1>t, <1>0, HeadTailProperties
<1>2. /\ AnswersLeft(p) /\ GateCounts(p) /\ StaysLocked(p) /\ OwnAnswer(p)
      /\ ShutForACommand(p)
  BY DEF SubIsLocked
<1>3. Waiting(p)' = Waiting(p) /\ Holders(p)' = Holders(p)
  BY DEF Waiting, Holders
<1>4. \A k \in 0 .. Len(t) : Balance(p, k)' = Balance(p, k + 1)
  <2>1. Balance(p, 1) >= 0
    BY <1>0, <1>2, <1>s DEF GateCounts
  <2>2. Gate(gates[p], s, 1) >= 0
    BY <2>1, <1>s DEF Balance
  <2>3. \A k \in 0 .. Len(s) - 1 :
          Gate(gates'[p], Tail(s), k) = Gate(gates[p], s, k + 1)
    <3>g. PICK g : g = gates[p]
      OBVIOUS
    <3>h. PICK n : n = gates'[p]
      OBVIOUS
    <3>1. n = CASE Head(s) = "DB_LOCK" -> g + 1
                [] Head(s) = "DB_UNLOCK" -> (IF g > 0 THEN g - 1 ELSE 0)
                [] OTHER -> g
      BY <3>g, <3>h, <1>0
    <3>2. g \in Nat /\ n \in Nat /\ Gate(g, s, 1) >= 0
      BY <3>g, <3>h, <1>0, <2>2
    <3>3. \A k \in 0 .. Len(s) - 1 : Gate(n, Tail(s), k) = Gate(g, s, k + 1)
      BY <3>1, <3>2, <1>0, GateReceive
    <3> QED BY <3>3, <3>g, <3>h
  <2> QED BY <2>3, <1>1, <1>s, <1>t DEF Balance
<1>5. \A k \in 0 .. Len(t) : k + 1 \in 0 .. Len(pipe[p])
  BY <1>0, <1>1, <1>s
<1>6. Len(t) \in 0 .. Len(t) /\ Len(t) + 1 = Len(pipe[p])
  BY <1>0, <1>1, <1>s
<1>7. AnswersLeft(p)'
  <2>1. Len(pipe[p]) + answers[p] = Cardinality(Waiting(p))
    BY <1>0, <1>2, <1>s DEF AnswersLeft
  <2>2. Len(t) + (answers[p] + 1) = Cardinality(Waiting(p))
    <3>l. PICK l : l = Len(t)
      OBVIOUS
    <3>c. PICK c : c = Cardinality(Waiting(p))
      OBVIOUS
    <3>1. l \in Nat /\ (l + 1) + answers[p] = c
      BY <2>1, <1>0, <1>1, <1>6, <3>l, <3>c
    <3>a. PICK a : a = answers[p]
      OBVIOUS
    <3>n. a \in Nat /\ (l + 1) + a = c
      BY <3>1, <3>a, <1>0
    <3>2. l + (a + 1) = c
      BY <3>1, <3>n
    <3> QED BY <3>2, <3>a, <3>l, <3>c
  <2>3. Len(t) + answers'[p] + (IF manage'[p] = "recv" THEN 0 ELSE 1)
          = Cardinality(Waiting(p))
    <3>1. CASE manage'[p] = "recv"
      BY <2>2, <3>1, <1>0, <1>1
    <3>2. CASE manage'[p] # "recv"
      BY <2>2, <3>2, <1>0, <1>1
    <3> QED BY <3>1, <3>2
  <2> QED BY <2>3, <1>1, <1>3 DEF AnswersLeft
<1>8. GateCounts(p)'
  <2>1. \A k \in 0 .. Len(t) : Balance(p, k)' >= 0
    BY <1>2, <1>4, <1>5 DEF GateCounts
  <2>2. Balance(p, Len(t))' = Balance(p, Len(pipe[p]))
    BY <1>4, <1>6
  <2>3. failures' = 0 => failures = 0
    BY <1>0
  <2>4. /\ Balance(p, Len(t))' >= Cardinality(Holders(p))
        /\ failures' = 0 => Balance(p, Len(t))' = Cardinality(Holders(p))
    BY <2>2, <2>3, <1>2 DEF GateCounts
  <2>5. Balance(p, Len(pipe[p]))' = Balance(p, Len(t))'
    BY <1>1 DEF Balance
  <2> QED BY <2>1, <2>4, <2>5, <1>1, <1>3 DEF GateCounts
<1>9. StaysLocked(p)'
  <2>1. ASSUME NEW m \in Managers, LockedSub(manager[m], p), m \notin crossed
        PROVE  ~entered[p] /\ \A k \in 0 .. Len(t) : Balance(p, k)' >= 1
    BY <2>1, <1>2, <1>4, <1>5 DEF StaysLocked
  <2> QED BY <2>1, <1>1 DEF StaysLocked
<1>10. ShutForACommand(p)'
  <2>1. ASSUME failures' = 0, Shut(open'[p], t)
        PROVE  \E m \in Managers : ClosesSub(manager[m], p)
    <3>1. failures = 0
      BY <2>1, <1>0
    <3>2. Shut(open[p], s)
      <4>o. PICK o : o = open[p]
        OBVIOUS
      <4>n. PICK n : n = open'[p]
        OBVIOUS
      <4>1. /\ o \in BOOLEAN /\ n \in BOOLEAN
            /\ Head(s) = "DB_OPEN" => n
            /\ Head(s) \notin {"DB_OPEN", "DB_CLOSE"} => n = o
            /\ Shut(n, Tail(s))
        BY <4>o, <4>n, <2>1, <1>0, <1>t
      <4>2. Shut(o, s)
        BY <4>1, <1>0, ShutReceive
      <4> QED BY <4>2, <4>o
    <3> QED BY <3>1, <3>2, <1>2, <1>s DEF ShutForACommand
  <2> QED BY <2>1, <1>1 DEF ShutForACommand
<1> QED BY <1>7, <1>8, <1>9, <1>10 DEF SubIsLocked

\* Whoever is alone awaits the only answer.
LEMMA AloneAwaits ==
  ASSUME MInv, NEW p \in 1 .. Subs, NEW m \in Managers, Sole(m),
         Awaits(manager[m], p)
  PROVE  Len(pipe[p]) + answers[p] + (IF manage[p] = "recv" THEN 0 ELSE 1) = 1
<1>1. \A o \in Managers \ {m} : manager[o].sent = 0
  BY DEF MInv, Alone
<1>2. \A o \in Managers \ {m} : ~Awaits(manager[o], p)
  <2>1. ~(0 >= p)
    OBVIOUS
  <2> QED BY <1>1, <2>1 DEF Awaits
<1>3. Waiting(p) = {m}
  BY <1>2 DEF Waiting
<1>4. Cardinality(Waiting(p)) = 1
  BY <1>3, SomeManager
<1>5. AnswersLeft(p)
  BY DEF MInv, SubIsLocked
<1> QED BY <1>4, <1>5 DEF AnswersLeft

LEMMA NobodyAwaits ==
  ASSUME MInv, NEW p \in 1 .. Subs, \A o \in Managers : ~Awaits(manager[o], p)
  PROVE  pipe[p] = <<>> /\ answers[p] = 0 /\ manage[p] = "recv"
<1>1. Waiting(p) = {}
  BY DEF Waiting
<1>2. Cardinality(Waiting(p)) = 0
  BY <1>1, SomeManager
<1>3. AnswersLeft(p)
  BY DEF MInv, SubIsLocked
<1>4. Len(pipe[p]) + answers[p] + (IF manage[p] = "recv" THEN 0 ELSE 1) = 0
  BY <1>2, <1>3 DEF AnswersLeft
<1>5. pipe[p] \in Seq(PipeMessages) /\ answers[p] \in Nat
  BY DEF MInv, MaintenanceTyped
<1>6. Len(pipe[p]) \in Nat
  BY <1>5
<1>7. manage[p] = "recv"
  BY <1>4, <1>5, <1>6
<1>8. Len(pipe[p]) = 0 /\ answers[p] = 0
  BY <1>4, <1>5, <1>6, <1>7
<1> QED BY <1>5, <1>7, <1>8

LEMMA SubTypes ==
  ASSUME MInv, NEW p \in 1 .. Subs
  PROVE  /\ MaintenanceTyped /\ SubIsLocked(p) /\ p \in Procs
         /\ failures \in 0 .. MaxFailures /\ failures \in Nat
         /\ gates[p] \in Nat /\ answers[p] \in Nat /\ open[p] \in BOOLEAN
         /\ pipe[p] \in Seq(PipeMessages)
         /\ pipe \in [1 .. Subs -> Seq(PipeMessages)]
         /\ answers \in [1 .. Subs -> Nat]
         /\ manage \in [1 .. Subs -> {"recv", "drain", "dead"}]
         /\ gates \in [Procs -> Nat]
         /\ open \in [Procs -> BOOLEAN] /\ TransTyped
         /\ OwnAnswer(p)
<1>1. MaintenanceTyped /\ SubIsLocked(p)
  BY DEF MInv
<1>2. p \in Procs
  BY DEF Procs
<1>3. failures \in 0 .. MaxFailures
  BY <1>1 DEF MaintenanceTyped
<1>4. failures \in Nat
  BY <1>3
<1> QED BY <1>1, <1>2, <1>3, <1>4 DEF MaintenanceTyped, SubIsLocked

LEMMA SubLockStep ==
  ASSUME MInv, NEW p \in 1 .. Subs, SubLock(p)
  PROVE  MInv'
<1>0. /\ MaintenanceTyped /\ SubIsLocked(p) /\ p \in Procs
      /\ failures \in 0 .. MaxFailures /\ failures \in Nat
      /\ gates[p] \in Nat /\ answers[p] \in Nat /\ open[p] \in BOOLEAN
      /\ pipe \in [1 .. Subs -> Seq(PipeMessages)]
      /\ answers \in [1 .. Subs -> Nat]
      /\ manage \in [1 .. Subs -> {"recv", "drain", "dead"}]
      /\ gates \in [Procs -> Nat]
      /\ open \in [Procs -> BOOLEAN] /\ TransTyped
      /\ OwnAnswer(p)
  BY SubTypes
<1>1. /\ manage[p] = "recv" /\ pipe[p] # <<>> /\ Head(pipe[p]) = "DB_LOCK"
      /\ pipe' = [pipe EXCEPT ![p] = Tail(@)]
      /\ gates' = [gates EXCEPT ![p] = @ + 1]
      /\ manage' = [manage EXCEPT ![p] = "drain"]
      /\ given' = given /\ manager' = manager /\ crossed' = crossed
      /\ answers' = answers
      /\ open' = open
      /\ failures' = failures
  BY DEF SubLock, Received
<1>2. /\ pipe' \in [1 .. Subs -> Seq(PipeMessages)]
      /\ pipe'[p] = Tail(pipe[p])
      /\ \A q \in (1 .. Subs) \ {p} : pipe'[q] = pipe[q]
  <2>1. Tail(pipe[p]) \in Seq(PipeMessages)
    BY <1>0, <1>1
  <2> QED BY <2>1, <1>0, <1>1
<1>3. /\ answers' \in [1 .. Subs -> Nat] /\ answers'[p] = answers[p]
      /\ \A q \in (1 .. Subs) \ {p} : answers'[q] = answers[q]
  BY <1>0, <1>1
<1>4. /\ manage' \in [1 .. Subs -> {"recv", "drain", "dead"}]
      /\ manage'[p] = "drain"
      /\ \A q \in (1 .. Subs) \ {p} : manage'[q] = manage[q]
  BY <1>0, <1>1
<1>5. /\ gates' \in [Procs -> Nat]
      /\ gates'[p] = gates[p] + 1
      /\ \A q \in Procs \ {p} : gates'[q] = gates[q]
  BY <1>0, <1>1
<1>6. /\ open' \in [Procs -> BOOLEAN] /\ open'[p] = open[p]
      /\ \A q \in Procs \ {p} : open'[q] = open[q]
  BY <1>0, <1>1
<1>7. /\ TransTyped' /\ (entered'[p] => entered[p])
      /\ \A q \in Procs \ {p} : entered'[q] => entered[q]
  <2>1. NoneEnter
    BY <1>0, NoneEnterSame DEF SubLock
  <2> QED BY <2>1, <1>0 DEF NoneEnter
<1>8. failures' \in 0 .. MaxFailures /\ failures' \in Nat /\ failures' >= failures
  BY <1>0, <1>1, MaintenanceAssumption
<1>9. OwnAnswer(p)'
  BY <1>0, <1>4, <1>5 DEF OwnAnswer
<1>10. SubIsLocked(p)'
  <2>h. PICK h : h = Head(pipe[p])
    OBVIOUS
  <2>1. gates'[p] = (CASE h = "DB_LOCK" -> gates[p] + 1
                       [] h = "DB_UNLOCK" ->
                            IF gates[p] > 0 THEN gates[p] - 1 ELSE 0
                       [] OTHER -> gates[p])
    BY <2>h, <1>1, <1>5
  <2>2. answers'[p] + (IF manage'[p] = "recv" THEN 0 ELSE 1) = answers[p] + 1
    BY <1>0, <1>1, <1>3, <1>4
  <2>3. /\ gates'[p] \in Nat /\ answers'[p] \in Nat /\ open'[p] \in BOOLEAN
        /\ (entered'[p] => entered[p])
    BY <1>0, <1>3, <1>5, <1>6, <1>7
  <2>4. /\ h = "DB_OPEN" => open'[p] \/ failures' > 0
        /\ h \notin {"DB_OPEN", "DB_CLOSE"} => open'[p] = open[p]
    BY <2>h, <1>0, <1>1, <1>6
  <2> QED BY <2>h, <2>1, <2>2, <2>3, <2>4, <1>0, <1>1, <1>2, <1>8, <1>9,
             SubReceives
<1> QED
  BY <1>0, <1>1, <1>2, <1>3, <1>4, <1>5, <1>6, <1>7, <1>8, <1>10, SubOnly

LEMMA SubUnlockStep ==
  ASSUME MInv, NEW p \in 1 .. Subs, SubUnlock(p)
  PROVE  MInv'
<1>0. /\ MaintenanceTyped /\ SubIsLocked(p) /\ p \in Procs
      /\ failures \in 0 .. MaxFailures /\ failures \in Nat
      /\ gates[p] \in Nat /\ answers[p] \in Nat /\ open[p] \in BOOLEAN
      /\ pipe \in [1 .. Subs -> Seq(PipeMessages)]
      /\ answers \in [1 .. Subs -> Nat]
      /\ manage \in [1 .. Subs -> {"recv", "drain", "dead"}]
      /\ gates \in [Procs -> Nat]
      /\ open \in [Procs -> BOOLEAN] /\ TransTyped
      /\ OwnAnswer(p)
  BY SubTypes
<1>1. /\ manage[p] = "recv" /\ pipe[p] # <<>> /\ Head(pipe[p]) = "DB_UNLOCK"
      /\ pipe' = [pipe EXCEPT ![p] = Tail(@)]
      /\ gates' = [gates EXCEPT ![p] = IF @ > 0 THEN @ - 1 ELSE 0]
      /\ answers' = [answers EXCEPT ![p] = @ + 1]
      /\ given' = given /\ manager' = manager /\ crossed' = crossed
      /\ manage' = manage
      /\ open' = open
      /\ failures' = failures
  BY DEF SubUnlock, Received, Answer
<1>2. /\ pipe' \in [1 .. Subs -> Seq(PipeMessages)]
      /\ pipe'[p] = Tail(pipe[p])
      /\ \A q \in (1 .. Subs) \ {p} : pipe'[q] = pipe[q]
  <2>1. Tail(pipe[p]) \in Seq(PipeMessages)
    <3>1. PICK s : s = pipe[p]
      OBVIOUS
    <3>2. s \in Seq(PipeMessages) /\ s # <<>>
      BY <3>1, <1>0, <1>1
    <3>3. Tail(s) \in Seq(PipeMessages)
      BY <3>2, HeadTailProperties
    <3> QED BY <3>1, <3>3
  <2> QED BY <2>1, <1>0, <1>1
<1>3. /\ answers' \in [1 .. Subs -> Nat]
      /\ answers'[p] = answers[p] + 1
      /\ \A q \in (1 .. Subs) \ {p} : answers'[q] = answers[q]
  BY <1>0, <1>1
<1>4. /\ manage' \in [1 .. Subs -> {"recv", "drain", "dead"}] /\ manage'[p] = manage[p]
      /\ \A q \in (1 .. Subs) \ {p} : manage'[q] = manage[q]
  BY <1>0, <1>1
<1>5. /\ gates' \in [Procs -> Nat]
      /\ gates'[p] = (IF gates[p] > 0 THEN gates[p] - 1 ELSE 0)
      /\ \A q \in Procs \ {p} : gates'[q] = gates[q]
  BY <1>0, <1>1
<1>6. /\ open' \in [Procs -> BOOLEAN] /\ open'[p] = open[p]
      /\ \A q \in Procs \ {p} : open'[q] = open[q]
  BY <1>0, <1>1
<1>7. /\ TransTyped' /\ (entered'[p] => entered[p])
      /\ \A q \in Procs \ {p} : entered'[q] => entered[q]
  <2>1. NoneEnter
    BY <1>0, NoneEnterSame DEF SubUnlock
  <2> QED BY <2>1, <1>0 DEF NoneEnter
<1>8. failures' \in 0 .. MaxFailures /\ failures' \in Nat /\ failures' >= failures
  BY <1>0, <1>1, MaintenanceAssumption
<1>9. OwnAnswer(p)'
  <2>1. ASSUME NEW m \in Managers, Sole(m)', Awaits(manager'[m], p)
        PROVE  FALSE
    <3>1. Sole(m) /\ Awaits(manager[m], p)
      BY <2>1, <1>1 DEF Sole, At
    <3>2. Len(pipe[p]) + answers[p] = 1
      BY <3>1, <1>1, AloneAwaits, SubTypes
    <3>3. Len(pipe[p]) \in Nat /\ Len(pipe[p]) >= 1
      BY <1>0, <1>1
    <3>4. answers[p] = 0
      BY <3>2, <3>3, <1>0
    <3>5. pipe[p] # <<"DB_LOCK">>
      BY <1>1
    <3> QED BY <3>1, <3>4, <3>5, <1>0, <1>1 DEF OwnAnswer
  <2> QED BY <2>1 DEF OwnAnswer
<1>10. SubIsLocked(p)'
  <2>h. PICK h : h = Head(pipe[p])
    OBVIOUS
  <2>1. gates'[p] = (CASE h = "DB_LOCK" -> gates[p] + 1
                       [] h = "DB_UNLOCK" ->
                            IF gates[p] > 0 THEN gates[p] - 1 ELSE 0
                       [] OTHER -> gates[p])
    BY <2>h, <1>1, <1>5
  <2>2. answers'[p] + (IF manage'[p] = "recv" THEN 0 ELSE 1) = answers[p] + 1
    BY <1>0, <1>1, <1>3, <1>4
  <2>3. /\ gates'[p] \in Nat /\ answers'[p] \in Nat /\ open'[p] \in BOOLEAN
        /\ (entered'[p] => entered[p])
    BY <1>0, <1>3, <1>5, <1>6, <1>7
  <2>4. /\ h = "DB_OPEN" => open'[p] \/ failures' > 0
        /\ h \notin {"DB_OPEN", "DB_CLOSE"} => open'[p] = open[p]
    BY <2>h, <1>0, <1>1, <1>6
  <2> QED BY <2>h, <2>1, <2>2, <2>3, <2>4, <1>0, <1>1, <1>2, <1>8, <1>9,
             SubReceives
<1> QED
  BY <1>0, <1>1, <1>2, <1>3, <1>4, <1>5, <1>6, <1>7, <1>8, <1>10, SubOnly

LEMMA SubOpenStep ==
  ASSUME MInv, NEW p \in 1 .. Subs, SubOpen(p)
  PROVE  MInv'
<1>0. /\ MaintenanceTyped /\ SubIsLocked(p) /\ p \in Procs
      /\ failures \in 0 .. MaxFailures /\ failures \in Nat
      /\ gates[p] \in Nat /\ answers[p] \in Nat /\ open[p] \in BOOLEAN
      /\ pipe \in [1 .. Subs -> Seq(PipeMessages)]
      /\ answers \in [1 .. Subs -> Nat]
      /\ manage \in [1 .. Subs -> {"recv", "drain", "dead"}]
      /\ gates \in [Procs -> Nat]
      /\ open \in [Procs -> BOOLEAN] /\ TransTyped
      /\ OwnAnswer(p)
  BY SubTypes
<1>b. PICK b \in BOOLEAN :
        /\ Received(p, IF b THEN "DB_OPEN" ELSE "DB_CLOSE")
        /\ open' = [open EXCEPT ![p] = b]
  BY DEF SubOpen
<1>1. /\ manage[p] = "recv" /\ pipe[p] # <<>> /\ Head(pipe[p]) = (IF b THEN "DB_OPEN" ELSE "DB_CLOSE")
      /\ pipe' = [pipe EXCEPT ![p] = Tail(@)]
      /\ open' = [open EXCEPT ![p] = b]
      /\ answers' = [answers EXCEPT ![p] = @ + 1]
      /\ given' = given /\ manager' = manager /\ crossed' = crossed
      /\ manage' = manage
      /\ gates' = gates
      /\ failures' = failures
  BY <1>b DEF SubOpen, Received, Answer
<1>2. /\ pipe' \in [1 .. Subs -> Seq(PipeMessages)]
      /\ pipe'[p] = Tail(pipe[p])
      /\ \A q \in (1 .. Subs) \ {p} : pipe'[q] = pipe[q]
  <2>1. Tail(pipe[p]) \in Seq(PipeMessages)
    BY <1>0, <1>1
  <2> QED BY <2>1, <1>0, <1>1
<1>3. /\ answers' \in [1 .. Subs -> Nat]
      /\ answers'[p] = answers[p] + 1
      /\ \A q \in (1 .. Subs) \ {p} : answers'[q] = answers[q]
  BY <1>0, <1>1
<1>4. /\ manage' \in [1 .. Subs -> {"recv", "drain", "dead"}] /\ manage'[p] = manage[p]
      /\ \A q \in (1 .. Subs) \ {p} : manage'[q] = manage[q]
  BY <1>0, <1>1
<1>5. /\ gates' \in [Procs -> Nat] /\ gates'[p] = gates[p]
      /\ \A q \in Procs \ {p} : gates'[q] = gates[q]
  BY <1>0, <1>1
<1>6. /\ open' \in [Procs -> BOOLEAN]
      /\ open'[p] = b
      /\ \A q \in Procs \ {p} : open'[q] = open[q]
  BY <1>0, <1>1
<1>7. /\ TransTyped' /\ (entered'[p] => entered[p])
      /\ \A q \in Procs \ {p} : entered'[q] => entered[q]
  <2>1. transVars' = transVars \/ EndsWithDatabase(p)
    BY DEF SubOpen
  <2>2. NoneEnter
    BY <2>1, <1>0, NoneEnterSame, ClosingEnds
  <2> QED BY <2>2, <1>0 DEF NoneEnter
<1>8. failures' \in 0 .. MaxFailures /\ failures' \in Nat /\ failures' >= failures
  BY <1>0, <1>1, MaintenanceAssumption
<1>9. OwnAnswer(p)'
  <2>1. pipe[p] # <<"DB_LOCK">>
    BY <1>1
  <2>2. \A m \in Managers : Sole(m)' => Sole(m)
    BY <1>1 DEF Sole, At
  <2>3. ASSUME NEW m \in Managers, Sole(m)', Awaits(manager'[m], p)
        PROVE  gates[p] > 0 /\ answers[p] > 0 /\ ~entered[p]
    BY <2>1, <2>2, <2>3, <1>0, <1>1 DEF OwnAnswer
  <2>4. answers[p] > 0 => answers'[p] > 0
    BY <1>0, <1>3
  <2> QED BY <2>3, <2>4, <1>1, <1>7 DEF OwnAnswer
<1>10. SubIsLocked(p)'
  <2>h. PICK h : h = Head(pipe[p])
    OBVIOUS
  <2>1. gates'[p] = (CASE h = "DB_LOCK" -> gates[p] + 1
                       [] h = "DB_UNLOCK" ->
                            IF gates[p] > 0 THEN gates[p] - 1 ELSE 0
                       [] OTHER -> gates[p])
    BY <2>h, <1>1, <1>5
  <2>2. answers'[p] + (IF manage'[p] = "recv" THEN 0 ELSE 1) = answers[p] + 1
    BY <1>0, <1>1, <1>3, <1>4
  <2>3. /\ gates'[p] \in Nat /\ answers'[p] \in Nat /\ open'[p] \in BOOLEAN
        /\ (entered'[p] => entered[p])
    BY <1>0, <1>3, <1>5, <1>6, <1>7
  <2>4. /\ h = "DB_OPEN" => open'[p] \/ failures' > 0
        /\ h \notin {"DB_OPEN", "DB_CLOSE"} => open'[p] = open[p]
    BY <2>h, <1>0, <1>1, <1>6
  <2> QED BY <2>h, <2>1, <2>2, <2>3, <2>4, <1>0, <1>1, <1>2, <1>8, <1>9,
             SubReceives
<1> QED
  BY <1>0, <1>1, <1>2, <1>3, <1>4, <1>5, <1>6, <1>7, <1>8, <1>10, SubOnly

LEMMA SubNotifiedStep ==
  ASSUME MInv, NEW p \in 1 .. Subs, SubNotified(p)
  PROVE  MInv'
<1>0. /\ MaintenanceTyped /\ SubIsLocked(p) /\ p \in Procs
      /\ failures \in 0 .. MaxFailures /\ failures \in Nat
      /\ gates[p] \in Nat /\ answers[p] \in Nat /\ open[p] \in BOOLEAN
      /\ pipe \in [1 .. Subs -> Seq(PipeMessages)]
      /\ answers \in [1 .. Subs -> Nat]
      /\ manage \in [1 .. Subs -> {"recv", "drain", "dead"}]
      /\ gates \in [Procs -> Nat]
      /\ open \in [Procs -> BOOLEAN] /\ TransTyped
      /\ OwnAnswer(p)
  BY SubTypes
<1>1. /\ manage[p] = "recv" /\ pipe[p] # <<>> /\ Head(pipe[p]) = "NEW_MASTER"
      /\ pipe' = [pipe EXCEPT ![p] = Tail(@)]
      /\ answers' = [answers EXCEPT ![p] = @ + 1]
      /\ given' = given /\ manager' = manager /\ crossed' = crossed
      /\ manage' = manage
      /\ gates' = gates
      /\ open' = open
      /\ failures' = failures
  BY DEF SubNotified, Received, Answer
<1>2. /\ pipe' \in [1 .. Subs -> Seq(PipeMessages)]
      /\ pipe'[p] = Tail(pipe[p])
      /\ \A q \in (1 .. Subs) \ {p} : pipe'[q] = pipe[q]
  <2>1. Tail(pipe[p]) \in Seq(PipeMessages)
    BY <1>0, <1>1
  <2> QED BY <2>1, <1>0, <1>1
<1>3. /\ answers' \in [1 .. Subs -> Nat]
      /\ answers'[p] = answers[p] + 1
      /\ \A q \in (1 .. Subs) \ {p} : answers'[q] = answers[q]
  BY <1>0, <1>1
<1>4. /\ manage' \in [1 .. Subs -> {"recv", "drain", "dead"}] /\ manage'[p] = manage[p]
      /\ \A q \in (1 .. Subs) \ {p} : manage'[q] = manage[q]
  BY <1>0, <1>1
<1>5. /\ gates' \in [Procs -> Nat] /\ gates'[p] = gates[p]
      /\ \A q \in Procs \ {p} : gates'[q] = gates[q]
  BY <1>0, <1>1
<1>6. /\ open' \in [Procs -> BOOLEAN] /\ open'[p] = open[p]
      /\ \A q \in Procs \ {p} : open'[q] = open[q]
  BY <1>0, <1>1
<1>7. /\ TransTyped' /\ (entered'[p] => entered[p])
      /\ \A q \in Procs \ {p} : entered'[q] => entered[q]
  <2>1. NoneEnter
    BY <1>0, NoneEnterSame DEF SubNotified
  <2> QED BY <2>1, <1>0 DEF NoneEnter
<1>8. failures' \in 0 .. MaxFailures /\ failures' \in Nat /\ failures' >= failures
  BY <1>0, <1>1, MaintenanceAssumption
<1>9. OwnAnswer(p)'
  <2>1. pipe[p] # <<"DB_LOCK">>
    BY <1>1
  <2>2. \A m \in Managers : Sole(m)' => Sole(m)
    BY <1>1 DEF Sole, At
  <2>3. ASSUME NEW m \in Managers, Sole(m)', Awaits(manager'[m], p)
        PROVE  gates[p] > 0 /\ answers[p] > 0 /\ ~entered[p]
    BY <2>1, <2>2, <2>3, <1>0, <1>1 DEF OwnAnswer
  <2>4. answers[p] > 0 => answers'[p] > 0
    BY <1>0, <1>3
  <2> QED BY <2>3, <2>4, <1>1, <1>7 DEF OwnAnswer
<1>10. SubIsLocked(p)'
  <2>h. PICK h : h = Head(pipe[p])
    OBVIOUS
  <2>1. gates'[p] = (CASE h = "DB_LOCK" -> gates[p] + 1
                       [] h = "DB_UNLOCK" ->
                            IF gates[p] > 0 THEN gates[p] - 1 ELSE 0
                       [] OTHER -> gates[p])
    BY <2>h, <1>1, <1>5
  <2>2. answers'[p] + (IF manage'[p] = "recv" THEN 0 ELSE 1) = answers[p] + 1
    BY <1>0, <1>1, <1>3, <1>4
  <2>3. /\ gates'[p] \in Nat /\ answers'[p] \in Nat /\ open'[p] \in BOOLEAN
        /\ (entered'[p] => entered[p])
    BY <1>0, <1>3, <1>5, <1>6, <1>7
  <2>4. /\ h = "DB_OPEN" => open'[p] \/ failures' > 0
        /\ h \notin {"DB_OPEN", "DB_CLOSE"} => open'[p] = open[p]
    BY <2>h, <1>0, <1>1, <1>6
  <2> QED BY <2>h, <2>1, <2>2, <2>3, <2>4, <1>0, <1>1, <1>2, <1>8, <1>9,
             SubReceives
<1> QED
  BY <1>0, <1>1, <1>2, <1>3, <1>4, <1>5, <1>6, <1>7, <1>8, <1>10, SubOnly

LEMMA SubFailsStep ==
  ASSUME MInv, NEW p \in 1 .. Subs, SubFails(p)
  PROVE  MInv'
<1>0. /\ MaintenanceTyped /\ SubIsLocked(p) /\ p \in Procs
      /\ failures \in 0 .. MaxFailures /\ failures \in Nat
      /\ gates[p] \in Nat /\ answers[p] \in Nat /\ open[p] \in BOOLEAN
      /\ pipe \in [1 .. Subs -> Seq(PipeMessages)]
      /\ answers \in [1 .. Subs -> Nat]
      /\ manage \in [1 .. Subs -> {"recv", "drain", "dead"}]
      /\ gates \in [Procs -> Nat]
      /\ open \in [Procs -> BOOLEAN] /\ TransTyped
      /\ OwnAnswer(p)
  BY SubTypes
<1>1. /\ manage[p] = "recv" /\ pipe[p] # <<>> /\ Head(pipe[p]) \in {"DB_OPEN", "DB_CLOSE"}
      /\ pipe' = [pipe EXCEPT ![p] = Tail(@)]
      /\ open' = [open EXCEPT ![p] = FALSE]
      /\ manage' = [manage EXCEPT ![p] = "dead"]
      /\ given' = given /\ manager' = manager /\ crossed' = crossed
      /\ answers' = answers
      /\ gates' = gates
      /\ failures < MaxFailures /\ failures' = failures + 1
  BY DEF SubFails, Received
<1>2. /\ pipe' \in [1 .. Subs -> Seq(PipeMessages)]
      /\ pipe'[p] = Tail(pipe[p])
      /\ \A q \in (1 .. Subs) \ {p} : pipe'[q] = pipe[q]
  <2>1. Tail(pipe[p]) \in Seq(PipeMessages)
    <3>1. PICK s : s = pipe[p]
      OBVIOUS
    <3>2. s \in Seq(PipeMessages) /\ s # <<>>
      BY <3>1, <1>0, <1>1
    <3>3. Tail(s) \in Seq(PipeMessages)
      BY <3>2, HeadTailProperties
    <3> QED BY <3>1, <3>3
  <2> QED BY <2>1, <1>0, <1>1
<1>3. /\ answers' \in [1 .. Subs -> Nat] /\ answers'[p] = answers[p]
      /\ \A q \in (1 .. Subs) \ {p} : answers'[q] = answers[q]
  BY <1>0, <1>1
<1>4. /\ manage' \in [1 .. Subs -> {"recv", "drain", "dead"}]
      /\ manage'[p] = "dead"
      /\ \A q \in (1 .. Subs) \ {p} : manage'[q] = manage[q]
  BY <1>0, <1>1
<1>5. /\ gates' \in [Procs -> Nat] /\ gates'[p] = gates[p]
      /\ \A q \in Procs \ {p} : gates'[q] = gates[q]
  BY <1>0, <1>1
<1>6. /\ open' \in [Procs -> BOOLEAN]
      /\ open'[p] = FALSE
      /\ \A q \in Procs \ {p} : open'[q] = open[q]
  BY <1>0, <1>1
<1>7. /\ TransTyped' /\ (entered'[p] => entered[p])
      /\ \A q \in Procs \ {p} : entered'[q] => entered[q]
  <2>1. NoneEnter
    BY <1>0, ClosingEnds DEF SubFails
  <2> QED BY <2>1, <1>0 DEF NoneEnter
<1>8. failures' \in 0 .. MaxFailures /\ failures' \in Nat /\ failures' >= failures
  BY <1>0, <1>1, MaintenanceAssumption
<1>9. OwnAnswer(p)'
  <2>1. pipe[p] # <<"DB_LOCK">>
    BY <1>1
  <2>2. \A m \in Managers : Sole(m)' => Sole(m)
    BY <1>1 DEF Sole, At
  <2>3. ASSUME NEW m \in Managers, Sole(m)', Awaits(manager'[m], p)
        PROVE  gates[p] > 0 /\ answers[p] > 0 /\ ~entered[p]
    BY <2>1, <2>2, <2>3, <1>0, <1>1 DEF OwnAnswer
  <2>4. answers[p] > 0 => answers'[p] > 0
    BY <1>0, <1>3
  <2> QED BY <2>3, <2>4, <1>1, <1>7 DEF OwnAnswer
<1>10. SubIsLocked(p)'
  <2>h. PICK h : h = Head(pipe[p])
    OBVIOUS
  <2>1. gates'[p] = (CASE h = "DB_LOCK" -> gates[p] + 1
                       [] h = "DB_UNLOCK" ->
                            IF gates[p] > 0 THEN gates[p] - 1 ELSE 0
                       [] OTHER -> gates[p])
    BY <2>h, <1>1, <1>5
  <2>2. answers'[p] + (IF manage'[p] = "recv" THEN 0 ELSE 1) = answers[p] + 1
    BY <1>0, <1>1, <1>3, <1>4
  <2>3. /\ gates'[p] \in Nat /\ answers'[p] \in Nat /\ open'[p] \in BOOLEAN
        /\ (entered'[p] => entered[p])
    BY <1>0, <1>3, <1>5, <1>6, <1>7
  <2>4. /\ h = "DB_OPEN" => open'[p] \/ failures' > 0
        /\ h \notin {"DB_OPEN", "DB_CLOSE"} => open'[p] = open[p]
    <3>1. h \in {"DB_OPEN", "DB_CLOSE"}
      BY <2>h, <1>1
    <3>2. failures' > 0
      BY <1>0, <1>1
    <3> QED BY <3>1, <3>2
  <2> QED BY <2>h, <2>1, <2>2, <2>3, <2>4, <1>0, <1>1, <1>2, <1>8, <1>9,
             SubReceives
<1> QED
  BY <1>0, <1>1, <1>2, <1>3, <1>4, <1>5, <1>6, <1>7, <1>8, <1>10, SubOnly

LEMMA SubDrainedStep ==
  ASSUME MInv, NEW p \in 1 .. Subs, SubDrained(p)
  PROVE  MInv'
<1>0. /\ MaintenanceTyped /\ SubIsLocked(p) /\ p \in Procs
      /\ failures \in 0 .. MaxFailures /\ failures \in Nat
      /\ gates[p] \in Nat /\ answers[p] \in Nat /\ open[p] \in BOOLEAN
      /\ pipe \in [1 .. Subs -> Seq(PipeMessages)]
      /\ answers \in [1 .. Subs -> Nat]
      /\ manage \in [1 .. Subs -> {"recv", "drain", "dead"}]
      /\ gates \in [Procs -> Nat]
      /\ open \in [Procs -> BOOLEAN] /\ TransTyped
      /\ OwnAnswer(p)
  BY SubTypes
<1>1. /\ manage' = [manage EXCEPT ![p] = "recv"]
      /\ answers' = [answers EXCEPT ![p] = @ + 1]
      /\ given' = given /\ manager' = manager /\ crossed' = crossed
      /\ pipe' = pipe
      /\ gates' = gates
      /\ open' = open
      /\ failures' = failures
      /\ manage[p] = "drain"
  BY DEF SubDrained, Answer
<1>2. /\ pipe' \in [1 .. Subs -> Seq(PipeMessages)] /\ pipe'[p] = pipe[p]
      /\ \A q \in (1 .. Subs) \ {p} : pipe'[q] = pipe[q]
  BY <1>0, <1>1
<1>3. /\ answers' \in [1 .. Subs -> Nat]
      /\ answers'[p] = answers[p] + 1
      /\ \A q \in (1 .. Subs) \ {p} : answers'[q] = answers[q]
  BY <1>0, <1>1
<1>4. /\ manage' \in [1 .. Subs -> {"recv", "drain", "dead"}]
      /\ manage'[p] = "recv"
      /\ \A q \in (1 .. Subs) \ {p} : manage'[q] = manage[q]
  BY <1>0, <1>1
<1>5. /\ gates' \in [Procs -> Nat] /\ gates'[p] = gates[p]
      /\ \A q \in Procs \ {p} : gates'[q] = gates[q]
  BY <1>0, <1>1
<1>6. /\ open' \in [Procs -> BOOLEAN] /\ open'[p] = open[p]
      /\ \A q \in Procs \ {p} : open'[q] = open[q]
  BY <1>0, <1>1
<1>7. /\ TransTyped' /\ (entered'[p] => entered[p]) /\ ~entered'[p]
      /\ \A q \in Procs \ {p} : entered'[q] => entered[q]
  <2>1. NoneEnter /\ ~entered'[p]
    BY <1>0, DrainingLeaves DEF SubDrained
  <2> QED BY <2>1, <1>0 DEF NoneEnter
<1>8. failures' \in 0 .. MaxFailures /\ failures' \in Nat /\ failures' >= failures
  BY <1>0, <1>1, MaintenanceAssumption
<1>9. OwnAnswer(p)'
  <2>1. \A m \in Managers : Sole(m)' => Sole(m)
    BY <1>1 DEF Sole, At
  <2>2. answers'[p] > 0
    BY <1>0, <1>3
  <2> QED BY <2>1, <2>2, <1>0, <1>1, <1>7 DEF OwnAnswer
<1>10. SubIsLocked(p)'
  <2>0. \A m \in Managers : Sole(m)' => Sole(m)
    BY <1>1 DEF Sole, At
  <2>1. AnswersLeft(p)'
    <3>1. Waiting(p)' = Waiting(p)
      BY <1>1 DEF Waiting
    <3>2. Len(pipe[p]) \in Nat
      BY <1>0
    <3>3. Len(pipe[p]) + answers[p] + 1 = Cardinality(Waiting(p))
      BY <1>0, <1>1 DEF SubIsLocked, AnswersLeft
    <3>4. Len(pipe[p]) + answers'[p] + 0 = Cardinality(Waiting(p))
      BY <3>2, <3>3, <1>0, <1>3
    <3> QED BY <3>1, <3>4, <1>2, <1>4 DEF AnswersLeft
  <2>2. GateCounts(p)'
    <3>1. Holders(p)' = Holders(p)
      BY <1>1 DEF Holders
    <3> QED BY <3>1, <1>0, <1>1 DEF SubIsLocked, GateCounts, Balance
  <2>3. StaysLocked(p)'
    BY <1>0, <1>1, <1>7 DEF SubIsLocked, StaysLocked, Balance
  <2>4. ShutForACommand(p)'
    BY <1>0, <1>1 DEF SubIsLocked, ShutForACommand
  <2> QED BY <2>1, <2>2, <2>3, <2>4, <1>9 DEF SubIsLocked
<1> QED
  BY <1>0, <1>1, <1>2, <1>3, <1>4, <1>5, <1>6, <1>7, <1>8, <1>10, SubOnly

LEMMA SubPasses ==
  ASSUME MInv, NEW c \in Clients, NEW p \in 1 .. Subs, Home[c] = p, PassGate(c)
  PROVE  MInv'
<1>0. /\ MaintenanceTyped /\ SubIsLocked(p) /\ p \in Procs
      /\ failures \in 0 .. MaxFailures /\ failures \in Nat
      /\ gates[p] \in Nat /\ answers[p] \in Nat /\ open[p] \in BOOLEAN
      /\ pipe \in [1 .. Subs -> Seq(PipeMessages)]
      /\ answers \in [1 .. Subs -> Nat]
      /\ manage \in [1 .. Subs -> {"recv", "drain", "dead"}]
      /\ gates \in [Procs -> Nat]
      /\ open \in [Procs -> BOOLEAN] /\ TransTyped
      /\ OwnAnswer(p)
  BY SubTypes
<1>1. /\ given' = given /\ manager' = manager /\ crossed' = crossed
      /\ pipe' = pipe
      /\ answers' = answers
      /\ manage' = manage
      /\ gates' = gates
      /\ open' = open
      /\ failures' = failures
      /\ gates[p] = 0
  BY DEF PassGate
<1>2. /\ pipe' \in [1 .. Subs -> Seq(PipeMessages)] /\ pipe'[p] = pipe[p]
      /\ \A q \in (1 .. Subs) \ {p} : pipe'[q] = pipe[q]
  BY <1>0, <1>1
<1>3. /\ answers' \in [1 .. Subs -> Nat] /\ answers'[p] = answers[p]
      /\ \A q \in (1 .. Subs) \ {p} : answers'[q] = answers[q]
  BY <1>0, <1>1
<1>4. /\ manage' \in [1 .. Subs -> {"recv", "drain", "dead"}] /\ manage'[p] = manage[p]
      /\ \A q \in (1 .. Subs) \ {p} : manage'[q] = manage[q]
  BY <1>0, <1>1
<1>5. /\ gates' \in [Procs -> Nat] /\ gates'[p] = gates[p]
      /\ \A q \in Procs \ {p} : gates'[q] = gates[q]
  BY <1>0, <1>1
<1>6. /\ open' \in [Procs -> BOOLEAN] /\ open'[p] = open[p]
      /\ \A q \in Procs \ {p} : open'[q] = open[q]
  BY <1>0, <1>1
<1>7. TransTyped' /\ \A q \in Procs \ {p} : entered'[q] => entered[q]
  BY <1>0, PassingEnters
<1>8. failures' \in 0 .. MaxFailures /\ failures' \in Nat /\ failures' >= failures
  BY <1>0, <1>1, MaintenanceAssumption
<1>9. OwnAnswer(p)'
  <2>1. \A m \in Managers : Sole(m)' => Sole(m)
    BY <1>1 DEF Sole, At
  <2>2. ~(gates[p] > 0)
    BY <1>1
  <2> QED BY <2>1, <2>2, <1>0, <1>1 DEF OwnAnswer
<1>10. SubIsLocked(p)'
  <2>1. AnswersLeft(p)'
    BY <1>0, <1>1 DEF SubIsLocked, AnswersLeft, Waiting
  <2>2. GateCounts(p)'
    <3>1. Holders(p)' = Holders(p)
      BY <1>1 DEF Holders
    <3> QED BY <3>1, <1>0, <1>1 DEF SubIsLocked, GateCounts, Balance
  <2>3. StaysLocked(p)'
    <3>1. ASSUME NEW m \in Managers, LockedSub(manager[m], p), m \notin crossed
          PROVE  FALSE
      <4>1. StaysLocked(p)
        BY <1>0 DEF SubIsLocked
      <4>2. 0 \in 0 .. Len(pipe[p])
        BY <1>0
      <4>3. Balance(p, 0) >= 1
        BY <3>1, <4>1, <4>2 DEF StaysLocked
      <4>4. Balance(p, 0) = 0
        BY <1>0, <1>1, GateIsInteger DEF Balance
      <4> QED BY <4>3, <4>4
    <3> QED BY <3>1, <1>1 DEF StaysLocked
  <2>4. ShutForACommand(p)'
    BY <1>0, <1>1 DEF SubIsLocked, ShutForACommand
  <2> QED BY <2>1, <2>2, <2>3, <2>4, <1>9 DEF SubIsLocked
<1> QED
  BY <1>0, <1>1, <1>2, <1>3, <1>4, <1>5, <1>6, <1>7, <1>8, <1>10, SubOnly

-----------------------------------------------------------------------------
(* The steps of the main process.                                          *)

LEMMA MainTypes ==
  ASSUME MInv
  PROVE  /\ MaintenanceTyped /\ MainIsLocked /\ Alone
         /\ failures \in 0 .. MaxFailures /\ failures \in Nat
         /\ given \in 0 .. MaxCommands /\ crossed \subseteq Managers
         /\ Main \in Procs /\ gates[Main] \in Nat
         /\ DOMAIN manager = Managers /\ \A m \in Managers : IsJob(manager[m])
         /\ pipe \in [1 .. Subs -> Seq(PipeMessages)]
         /\ answers \in [1 .. Subs -> Nat]
         /\ manage \in [1 .. Subs -> {"recv", "drain", "dead"}]
         /\ gates \in [Procs -> Nat]
         /\ open \in [Procs -> BOOLEAN] /\ TransTyped
<1>1. MaintenanceTyped /\ MainIsLocked /\ Alone
  BY DEF MInv
<1>2. Main \in Procs
  BY DEF Procs
<1>3. failures \in 0 .. MaxFailures
  BY <1>1 DEF MaintenanceTyped
<1>4. failures \in Nat
  BY <1>3
<1> QED BY <1>1, <1>2, <1>3, <1>4 DEF MaintenanceTyped

\* A step of a transaction that does not pass the gate, or no step.
LEMMA QuietStep ==
  ASSUME MInv, NoneEnter,
         given' = given, manager' = manager, pipe' = pipe, answers' = answers,
         manage' = manage, gates' = gates, open' = open, failures' = failures,
         crossed' = crossed
  PROVE  MInv'
<1>0. /\ MaintenanceTyped /\ MainIsLocked /\ Alone /\ failures \in Nat
      /\ Main \in Procs
  BY MainTypes
<1>1. MaintenanceTyped'
  BY <1>0 DEF MaintenanceTyped, NoneEnter
<1>2. Alone' /\ \A o \in Managers : Sole(o)' => Sole(o)
  BY <1>0 DEF Alone, Sole, At
<1>3. MainIsLocked'
  <2>1. entered'[Main] => entered[Main]
    BY <1>0 DEF NoneEnter
  <2> QED BY <2>1, <1>0, MainFrame
<1>4. ASSUME NEW p \in 1 .. Subs
      PROVE  SubIsLocked(p)'
  <2>1. SubIsLocked(p) /\ (entered'[p] => entered[p])
    BY SubTypes DEF NoneEnter
  <2> QED BY <2>1, <1>0, <1>2, SubFrame
<1> QED BY <1>1, <1>2, <1>3, <1>4 DEF MInv

\* A job that changes in the main process only.
LEMMA MainOnly ==
  ASSUME MInv, NEW m \in Managers, NEW s, IsJob(s),
         manager' = [manager EXCEPT ![m] = s],
         given' \in 0 .. MaxCommands,
         pipe' = pipe, answers' = answers, manage' = manage,
         crossed' \in {crossed, crossed \ {m}},
         failures' \in 0 .. MaxFailures, failures' >= failures,
         gates' \in [Procs -> Nat], open' \in [Procs -> BOOLEAN], NoneEnter,
         \A x \in Procs \ {Main} : gates'[x] = gates[x],
         \A x \in Procs \ {Main} : open'[x] = open[x],
         s.sent = 0, manager[m].sent = 0,
         \A p \in 1 .. Subs :
           /\ LocksSub(s, p) => LocksSub(manager[m], p)
           /\ failures' = 0 => (LocksSub(s, p) <=> LocksSub(manager[m], p))
           /\ failures' = 0 => (ClosesSub(manager[m], p) => ClosesSub(s, p))
           /\ LockedSub(s, p) => LockedSub(manager[m], p) /\ crossed' = crossed,
         MainIsLocked'
  PROVE  MInv'
<1>0. /\ MaintenanceTyped /\ Alone /\ DOMAIN manager = Managers
      /\ \A o \in Managers : IsJob(manager[o])
      /\ failures \in Nat /\ crossed \subseteq Managers
  BY MainTypes
<1>1. /\ manager'[m] = s /\ DOMAIN manager' = Managers
      /\ \A o \in Managers \ {m} : manager'[o] = manager[o]
  BY <1>0
<1>2. MaintenanceTyped'
  <2>1. \A o \in Managers : IsJob(manager'[o])
    BY <1>0, <1>1
  <2>2. crossed' \subseteq Managers
    BY <1>0
  <2>3. /\ pipe' \in [1 .. Subs -> Seq(PipeMessages)]
        /\ answers' \in [1 .. Subs -> Nat]
        /\ manage' \in [1 .. Subs -> {"recv", "drain", "dead"}]
        /\ TransTyped'
    BY MainTypes DEF NoneEnter
  <2> QED BY <2>1, <2>2, <2>3, <1>1 DEF MaintenanceTyped
<1>3. \A o \in Managers : Sole(o)' => o # m /\ Sole(o)
  <2>1. ASSUME NEW o \in Managers, Sole(o)'
        PROVE  o # m /\ Sole(o)
    <3>1. o # m
      BY <2>1, <1>1 DEF Sole
    <3>2. manager'[o] = manager[o] /\ o \notin crossed
      BY <2>1, <3>1, <1>1 DEF Sole
    <3> QED BY <2>1, <3>1, <3>2 DEF Sole, At
  <2> QED BY <2>1
<1>4. Alone'
  <2>1. \A o \in Managers :
          manager'[o].sent = manager[o].sent \/ manager'[o].sent = 0
    BY <1>1
  <2> QED BY <2>1, <1>0, <1>3, AloneFrame
<1>5. failures' \in Nat
  <2>1. failures' \in 0 .. MaxFailures
    OBVIOUS
  <2> QED BY <2>1
<1>6. ASSUME NEW p \in 1 .. Subs
      PROVE  SubIsLocked(p)'
  <2>1. p \in Procs \ {Main}
    BY DEF Procs, Main
  <2>2. SubIsLocked(p)
    BY DEF MInv
  <2>3. ~Awaits(s, p) /\ ~Awaits(manager[m], p)
    BY DEF Awaits
  <2>4. ASSUME NEW o \in Managers
        PROVE  /\ Awaits(manager'[o], p) <=> Awaits(manager[o], p)
               /\ LocksSub(manager'[o], p) => LocksSub(manager[o], p)
               /\ failures' = 0 =>
                    (LocksSub(manager'[o], p) <=> LocksSub(manager[o], p))
               /\ failures' = 0 =>
                    (ClosesSub(manager[o], p) => ClosesSub(manager'[o], p))
               /\ LockedSub(manager'[o], p) /\ o \notin crossed' =>
                    LockedSub(manager[o], p) /\ o \notin crossed
               /\ Sole(o)' /\ Awaits(manager'[o], p) => Sole(o)
    <3>1. CASE o = m
      BY <3>1, <2>3, <1>1, <1>3
    <3>2. CASE o # m
      <4>1. manager'[o] = manager[o] /\ (o \notin crossed' => o \notin crossed)
        BY <3>2, <1>1
      <4> QED BY <4>1, <1>3
    <3> QED BY <3>1, <3>2
  <2>5. /\ gates'[p] = gates[p] /\ open'[p] = open[p]
        /\ pipe'[p] = pipe[p] /\ answers'[p] = answers[p]
        /\ manage'[p] = manage[p] /\ (entered'[p] => entered[p])
    BY <2>1 DEF NoneEnter
  <2> QED BY <2>2, <2>4, <2>5, <1>0, <1>5, SubFrame
<1> QED BY <1>2, <1>4, <1>6 DEF MInv

\* What holds of the main process when one job changes.
LEMMA MainCounts ==
  ASSUME MInv, NEW m \in Managers, NEW s,
         manager' = [manager EXCEPT ![m] = s]
  PROVE  LET r == manager[m]
             n == Cardinality(MainHolders)
             k == Cardinality(MainHolders')
         IN  /\ n \in Nat /\ k \in Nat
             /\ LocksMain(r) => n >= 1
             /\ (LocksMain(s) <=> LocksMain(r)) => k = n
             /\ LocksMain(s) /\ ~LocksMain(r) => k = n + 1
             /\ LocksMain(r) /\ ~LocksMain(s) => k = n - 1
<1>0. DOMAIN manager = Managers
  BY MainTypes
<1>1. /\ manager'[m] = s
      /\ \A o \in Managers \ {m} : manager'[o] = manager[o]
  BY <1>0
<1>2. /\ m \in MainHolders <=> LocksMain(manager[m])
      /\ m \in MainHolders' <=> LocksMain(s)
      /\ \A o \in Managers \ {m} : o \in MainHolders <=> o \in MainHolders'
      /\ MainHolders \subseteq Managers /\ MainHolders' \subseteq Managers
  BY <1>1 DEF MainHolders
<1>a. PICK A : A = MainHolders
  OBVIOUS
<1>b. PICK B : B = MainHolders'
  OBVIOUS
<1>3. /\ Cardinality(A) \in Nat /\ Cardinality(B) \in Nat
      /\ (m \in A <=> m \in B) => Cardinality(B) = Cardinality(A)
      /\ m \in B /\ m \notin A => Cardinality(B) = Cardinality(A) + 1
      /\ m \in A /\ m \notin B => Cardinality(B) = Cardinality(A) - 1
  BY <1>2, <1>a, <1>b, OneManager
<1>4. m \in A => Cardinality(A) >= 1
  <2>1. m \in A => A # {}
    OBVIOUS
  <2>2. A = {} <=> Cardinality(A) = 0
    BY <1>a, <1>2, SomeManager
  <2> QED BY <2>1, <2>2, <1>3
<1> QED BY <1>2, <1>3, <1>4, <1>a, <1>b

LEMMA MainStaysLocked ==
  ASSUME MInv, NEW m \in Managers, NEW s,
         manager' = [manager EXCEPT ![m] = s],
         failures' \in Nat, failures' >= failures,
         entered'[Main] => entered[Main],
         \/ (LocksMain(s) <=> LocksMain(manager[m])) /\ gates'[Main] = gates[Main]
         \/ /\ LocksMain(s) /\ ~LocksMain(manager[m])
            /\ gates'[Main] = gates[Main] + 1
         \/ /\ LocksMain(manager[m]) /\ ~LocksMain(s)
            /\ gates'[Main] = IF gates[Main] > 0 THEN gates[Main] - 1 ELSE 0
         \/ ~LocksMain(s) /\ gates'[Main] = gates[Main] /\ failures' > 0,
         DrainedMain(s) => ~entered'[Main],
         failures' = 0 =>
           \/ open'[Main]
           \/ ClosesMain(s)
           \/ open'[Main] = open[Main] /\ (ClosesMain(manager[m]) => ClosesMain(s))
  PROVE  MainIsLocked'
<1>0. /\ MainIsLocked /\ DOMAIN manager = Managers /\ gates[Main] \in Nat
      /\ failures \in Nat
  BY MainTypes
<1>1. /\ manager'[m] = s
      /\ \A o \in Managers \ {m} : manager'[o] = manager[o]
  BY <1>0
<1>n. PICK n : n = Cardinality(MainHolders)
  OBVIOUS
<1>k. PICK k : k = Cardinality(MainHolders')
  OBVIOUS
<1>2. /\ n \in Nat /\ k \in Nat
      /\ LocksMain(manager[m]) => n >= 1
      /\ (LocksMain(s) <=> LocksMain(manager[m])) => k = n
      /\ LocksMain(s) /\ ~LocksMain(manager[m]) => k = n + 1
      /\ LocksMain(manager[m]) /\ ~LocksMain(s) => k = n - 1
  BY <1>n, <1>k, MainCounts
<1>3. gates[Main] >= n /\ (failures = 0 => gates[Main] = n)
  BY <1>0, <1>n DEF MainIsLocked
<1>4. failures' = 0 => failures = 0
  BY <1>0
<1>5. gates'[Main] >= k /\ (failures' = 0 => gates'[Main] = k)
  <2>1. CASE /\ LocksMain(s) <=> LocksMain(manager[m])
             /\ gates'[Main] = gates[Main]
    BY <2>1, <1>2, <1>3, <1>4
  <2>2. CASE /\ LocksMain(s) /\ ~LocksMain(manager[m])
             /\ gates'[Main] = gates[Main] + 1
    BY <2>2, <1>0, <1>2, <1>3, <1>4
  <2>3. CASE /\ LocksMain(manager[m]) /\ ~LocksMain(s)
             /\ gates'[Main] = IF gates[Main] > 0 THEN gates[Main] - 1 ELSE 0
    <3>1. gates'[Main] = gates[Main] - 1 /\ k = n - 1
      BY <2>3, <1>0, <1>2, <1>3
    <3> QED BY <3>1, <1>0, <1>2, <1>3, <1>4
  <2>4. CASE ~LocksMain(s) /\ gates'[Main] = gates[Main] /\ failures' > 0
    <3>1. k <= n
      BY <2>4, <1>2
    <3> QED BY <3>1, <2>4, <1>0, <1>2, <1>3
  <2> QED BY <2>1, <2>2, <2>3, <2>4
<1>6. \A o \in Managers : DrainedMain(manager'[o]) => ~entered'[Main]
  <2>1. ASSUME NEW o \in Managers, DrainedMain(manager'[o])
        PROVE  ~entered'[Main]
    <3>1. CASE o = m
      BY <2>1, <3>1, <1>1
    <3>2. CASE o # m
      BY <2>1, <3>2, <1>0, <1>1 DEF MainIsLocked
    <3> QED BY <3>1, <3>2
  <2> QED BY <2>1
<1>7. ASSUME failures' = 0, ~open'[Main]
      PROVE  \E o \in Managers : ClosesMain(manager'[o])
  <2>1. CASE ClosesMain(s)
    BY <2>1, <1>1
  <2>2. CASE open'[Main] = open[Main] /\ (ClosesMain(manager[m]) => ClosesMain(s))
    <3>1. PICK o \in Managers : ClosesMain(manager[o])
      BY <2>2, <1>0, <1>4, <1>7 DEF MainIsLocked
    <3>2. ClosesMain(manager'[o])
      BY <3>1, <2>2, <1>1
    <3> QED BY <3>2
  <2> QED BY <2>1, <2>2, <1>7
<1> QED BY <1>5, <1>6, <1>7, <1>k DEF MainIsLocked

\* The step of a job in the main process (NextStep).
LEMMA MainAdvances ==
  ASSUME MInv, NEW m \in Managers, manager[m].left # <<>>,
         Head(manager[m].left) \notin PipeMessages, NextStep(m),
         NEW s, s = Advanced(manager[m])
  PROVE  /\ manager' = [manager EXCEPT ![m] = s]
         /\ IsJob(s) /\ s.sent = 0 /\ manager[m].sent = 0
         /\ \A p \in 1 .. Subs :
              /\ LocksSub(s, p) <=> LocksSub(manager[m], p)
              /\ LockedSub(s, p) <=> LockedSub(manager[m], p)
              /\ ClosesSub(s, p) <=> ClosesSub(manager[m], p)
         /\ LocksMain(s) <=>
              \/ Head(manager[m].left) = "lock"
              \/ LocksMain(manager[m]) /\ Head(manager[m].left) # "unlock"
         /\ Head(manager[m].left) = "lock" => ~LocksMain(manager[m])
         /\ Head(manager[m].left) = "unlock" => LocksMain(manager[m])
         /\ DrainedMain(s) =>
              \/ Head(manager[m].left) = "drain"
              \/ DrainedMain(manager[m])
         /\ ClosesMain(s) <=>
              \/ Head(manager[m].left) = "close"
              \/ ClosesMain(manager[m]) /\ Head(manager[m].left) # "open"
<1>r. PICK r : r = manager[m]
  OBVIOUS
<1>1. IsJob(r)
  BY <1>r, MainTypes
<1>2. manager' = [manager EXCEPT ![m] = s]
  BY DEF NextStep, GoOn, Advanced
<1>3. /\ r.left # <<>> /\ Head(r.left) \notin PipeMessages /\ s = Advanced(r)
  BY <1>r
<1> QED BY <1>1, <1>2, <1>3, <1>r, MainAdvance

\* Together: a step of the main process.
LEMMA MainMoves ==
  ASSUME MInv, NEW m \in Managers, manager[m].left # <<>>,
         NEW h, h = Head(manager[m].left), h \notin PipeMessages, NextStep(m),
         given' = given, pipe' = pipe, answers' = answers, manage' = manage,
         NoneEnter, failures' = failures, crossed' = crossed,
         gates' = [gates EXCEPT ![Main] =
           CASE h = "lock" -> gates[Main] + 1
             [] h = "unlock" -> (IF gates[Main] > 0 THEN gates[Main] - 1 ELSE 0)
             [] OTHER -> gates[Main]],
         open' = [open EXCEPT ![Main] =
           CASE h = "open" -> TRUE [] h = "close" -> FALSE [] OTHER -> open[Main]],
         h = "drain" => ~entered'[Main]
  PROVE  MInv'
<1>s. PICK s : s = Advanced(manager[m])
  OBVIOUS
<1>0. /\ MaintenanceTyped /\ MainIsLocked /\ failures \in 0 .. MaxFailures
      /\ failures \in Nat /\ given \in 0 .. MaxCommands
      /\ Main \in Procs /\ gates[Main] \in Nat
      /\ gates \in [Procs -> Nat] /\ open \in [Procs -> BOOLEAN]
  BY MainTypes
<1>1. /\ manager' = [manager EXCEPT ![m] = s]
      /\ IsJob(s) /\ s.sent = 0 /\ manager[m].sent = 0
      /\ \A p \in 1 .. Subs :
           /\ LocksSub(s, p) <=> LocksSub(manager[m], p)
           /\ LockedSub(s, p) <=> LockedSub(manager[m], p)
           /\ ClosesSub(s, p) <=> ClosesSub(manager[m], p)
      /\ LocksMain(s) <=> h = "lock" \/ (LocksMain(manager[m]) /\ h # "unlock")
      /\ h = "lock" => ~LocksMain(manager[m])
      /\ h = "unlock" => LocksMain(manager[m])
      /\ DrainedMain(s) => h = "drain" \/ DrainedMain(manager[m])
      /\ ClosesMain(s) <=> h = "close" \/ (ClosesMain(manager[m]) /\ h # "open")
  BY <1>s, MainAdvances
<1>2. PICK g : g = CASE h = "lock" -> gates[Main] + 1
             [] h = "unlock" -> (IF gates[Main] > 0 THEN gates[Main] - 1 ELSE 0)
             [] OTHER -> gates[Main]
  OBVIOUS
<1>3. /\ h = "lock" => g = gates[Main] + 1
      /\ h = "unlock" => g = IF gates[Main] > 0 THEN gates[Main] - 1 ELSE 0
      /\ h # "lock" /\ h # "unlock" => g = gates[Main]
  BY <1>2
<1>4. g \in Nat
  BY <1>0, <1>3
<1>5. /\ gates' = [gates EXCEPT ![Main] = g] /\ gates' \in [Procs -> Nat]
      /\ gates'[Main] = g /\ \A x \in Procs \ {Main} : gates'[x] = gates[x]
  BY <1>0, <1>2, <1>4
<1>6. PICK b \in BOOLEAN :
        b = CASE h = "open" -> TRUE [] h = "close" -> FALSE [] OTHER -> open[Main]
  BY <1>0
<1>7. /\ open' \in [Procs -> BOOLEAN] /\ open'[Main] = b
      /\ \A x \in Procs \ {Main} : open'[x] = open[x]
  BY <1>0, <1>6
<1>8. MainIsLocked'
  <2>1. \/ (LocksMain(s) <=> LocksMain(manager[m])) /\ gates'[Main] = gates[Main]
        \/ /\ LocksMain(s) /\ ~LocksMain(manager[m])
           /\ gates'[Main] = gates[Main] + 1
        \/ /\ LocksMain(manager[m]) /\ ~LocksMain(s)
           /\ gates'[Main] = IF gates[Main] > 0 THEN gates[Main] - 1 ELSE 0
    <3>1. CASE h = "lock"
      BY <3>1, <1>1, <1>3, <1>5
    <3>2. CASE h = "unlock"
      BY <3>2, <1>1, <1>3, <1>5
    <3>3. CASE h # "lock" /\ h # "unlock"
      BY <3>3, <1>1, <1>3, <1>5
    <3> QED BY <3>1, <3>2, <3>3
  <2>0. entered'[Main] => entered[Main]
    BY <1>0 DEF NoneEnter
  <2>2. DrainedMain(s) => ~entered'[Main]
    BY <2>0, <1>0, <1>1 DEF MainIsLocked
  <2>3. \/ open'[Main]
        \/ ClosesMain(s)
        \/ open'[Main] = open[Main] /\ (ClosesMain(manager[m]) => ClosesMain(s))
    BY <1>1, <1>6, <1>7
  <2>4. failures' \in Nat /\ failures' >= failures
    BY <1>0
  <2> QED BY <2>0, <2>1, <2>2, <2>3, <2>4, <1>1, MainStaysLocked
<1>9. /\ given' \in 0 .. MaxCommands /\ crossed' \in {crossed, crossed \ {m}}
      /\ failures' \in 0 .. MaxFailures /\ failures' >= failures
  BY <1>0
<1> QED BY <1>1, <1>5, <1>7, <1>8, <1>9, MainOnly

\* The steps of ManagerRuns but the exchange.
LEMMA MainStep ==
  ASSUME MInv, NEW m \in Managers,
         LockMain(m) \/ MainDrained(m) \/ UnlockMain(m) \/ OpenMain(m) \/ Work(m)
  PROVE  MInv'
<1>h. PICK h : h = Head(manager[m].left)
  OBVIOUS
<1>1. /\ gates \in [Procs -> Nat] /\ open \in [Procs -> BOOLEAN] /\ Main \in Procs
      /\ TransTyped
  BY MainTypes
<1>2. /\ gates = [gates EXCEPT ![Main] = gates[Main]]
      /\ open = [open EXCEPT ![Main] = open[Main]]
  BY <1>1
<1>3. {"lock", "drain", "unlock", "open", "close", "work"} \cap PipeMessages = {}
  BY DEF PipeMessages
<1>4. CASE LockMain(m)
  <2>1. /\ h = "lock" /\ manager[m].left # <<>> /\ NextStep(m)
        /\ gates' = [gates EXCEPT ![Main] = gates[Main] + 1]
        /\ given' = given /\ pipe' = pipe /\ answers' = answers
        /\ manage' = manage /\ open' = open
        /\ failures' = failures /\ crossed' = crossed
    BY <1>4, <1>h DEF LockMain, At
  <2>2. NoneEnter
    BY <1>4, <1>1, NoneEnterSame DEF LockMain
  <2> QED BY <2>1, <2>2, <1>2, <1>3, <1>h, MainMoves
<1>5. CASE MainDrained(m)
  <2>1. /\ h = "drain" /\ manager[m].left # <<>> /\ NextStep(m)
        /\ gates' = gates
        /\ given' = given /\ pipe' = pipe /\ answers' = answers
        /\ manage' = manage /\ open' = open
        /\ failures' = failures /\ crossed' = crossed
    BY <1>5, <1>h DEF MainDrained, At
  <2>2. NoneEnter /\ ~entered'[Main]
    BY <1>5, <1>1, DrainingLeaves DEF MainDrained
  <2> QED BY <2>1, <2>2, <1>2, <1>3, <1>h, MainMoves
<1>6. CASE UnlockMain(m)
  <2>1. /\ h = "unlock" /\ manager[m].left # <<>> /\ NextStep(m)
        /\ gates' = [gates EXCEPT ![Main] =
                       IF gates[Main] > 0 THEN gates[Main] - 1 ELSE 0]
        /\ given' = given /\ pipe' = pipe /\ answers' = answers
        /\ manage' = manage /\ open' = open
        /\ failures' = failures /\ crossed' = crossed
    BY <1>6, <1>h DEF UnlockMain, At
  <2>2. NoneEnter
    BY <1>6, <1>1, NoneEnterSame DEF UnlockMain
  <2> QED BY <2>1, <2>2, <1>2, <1>3, <1>h, MainMoves
<1>7. CASE OpenMain(m)
  <2>1. /\ manager[m].left # <<>> /\ NextStep(m) /\ gates' = gates
        /\ \/ h = "open" /\ open' = [open EXCEPT ![Main] = TRUE]
           \/ h = "close" /\ open' = [open EXCEPT ![Main] = FALSE]
        /\ given' = given /\ pipe' = pipe /\ answers' = answers
        /\ manage' = manage
        /\ failures' = failures /\ crossed' = crossed
    BY <1>7, <1>h DEF OpenMain, At
  <2>2. NoneEnter
    BY <1>7, <1>1, NoneEnterSame, ClosingEnds DEF OpenMain
  <2> QED BY <2>1, <2>2, <1>2, <1>3, <1>h, MainMoves
<1>8. CASE Work(m)
  <2>1. /\ h = "work" /\ manager[m].left # <<>> /\ NextStep(m)
        /\ gates' = gates
        /\ given' = given /\ pipe' = pipe /\ answers' = answers
        /\ manage' = manage /\ open' = open
        /\ failures' = failures /\ crossed' = crossed
    BY <1>8, <1>h DEF Work, At
  <2>2. NoneEnter
    BY <1>8, <1>1, NoneEnterSame DEF Work
  <2> QED BY <2>1, <2>2, <1>2, <1>3, <1>h, MainMoves
<1> QED BY <1>4, <1>5, <1>6, <1>7, <1>8

LEMMA StartStep ==
  ASSUME MInv, NEW m \in Managers, NEW c \in Commands, StartCommand(m, c)
  PROVE  MInv'
<1>s. PICK s : s = [NoCommand EXCEPT !.cmd = c, !.left = Steps[c]]
  OBVIOUS
<1>0. /\ MainIsLocked /\ failures \in 0 .. MaxFailures /\ failures \in Nat
      /\ given \in 0 .. MaxCommands /\ Main \in Procs /\ gates[Main] \in Nat
      /\ gates \in [Procs -> Nat] /\ open \in [Procs -> BOOLEAN]
      /\ DOMAIN manager = Managers
  BY MainTypes
<1>1. /\ given < MaxCommands /\ manager[m] = NoCommand /\ given' = given + 1
      /\ manager' = [manager EXCEPT ![m].cmd = c, ![m].left = Steps[c]]
      /\ crossed' = crossed \ {m}
      /\ pipe' = pipe /\ answers' = answers /\ manage' = manage
      /\ gates' = gates /\ open' = open
      /\ failures' = failures
  BY DEF StartCommand
<1>n. NoneEnter /\ (entered'[Main] => entered[Main])
  <2>1. NoneEnter
    BY MainTypes, NoneEnterSame DEF StartCommand
  <2> QED BY <2>1, <1>0 DEF NoneEnter
<1>2. manager' = [manager EXCEPT ![m] = s]
  <2>1. manager' = [manager EXCEPT ![m] =
                      [manager[m] EXCEPT !.cmd = c, !.left = Steps[c]]]
    BY <1>0, <1>1
  <2> QED BY <2>1, <1>1, <1>s
<1>3. IsJob(s) /\ Outside(s) /\ s.sent = 0
  BY <1>s, StartedJob
<1>4. Outside(manager[m]) /\ manager[m].sent = 0
  BY <1>1, NoCommandIsJob DEF NoCommand
<1>5. given' \in 0 .. MaxCommands
  BY <1>0, <1>1, MaintenanceAssumption
<1>6. MainIsLocked'
  <2>1. LocksMain(s) <=> LocksMain(manager[m])
    BY <1>3, <1>4 DEF Outside
  <2>2. ~DrainedMain(s) /\ ~ClosesMain(manager[m])
    BY <1>3, <1>4 DEF Outside
  <2>3. failures' \in Nat /\ failures' >= failures
    BY <1>0, <1>1
  <2> QED BY <2>1, <2>2, <2>3, <1>1, <1>2, <1>n, MainStaysLocked
<1>7. \A p \in 1 .. Subs :
        /\ LocksSub(s, p) <=> LocksSub(manager[m], p)
        /\ ClosesSub(manager[m], p) => ClosesSub(s, p)
        /\ ~LockedSub(s, p)
  BY <1>3, <1>4 DEF Outside
<1>8. failures' \in 0 .. MaxFailures /\ failures' >= failures
  BY <1>0, <1>1
<1> QED
  BY <1>0, <1>1, <1>2, <1>3, <1>4, <1>5, <1>6, <1>7, <1>8, <1>n, MainOnly

LEMMA OpenFailsStep ==
  ASSUME MInv, NEW m \in Managers, OpenFails(m)
  PROVE  MInv'
<1>h. PICK h : h = Head(manager[m].left)
  OBVIOUS
<1>0. /\ MainIsLocked /\ failures \in 0 .. MaxFailures /\ failures \in Nat
      /\ given \in 0 .. MaxCommands /\ Main \in Procs /\ gates[Main] \in Nat
      /\ gates \in [Procs -> Nat] /\ open \in [Procs -> BOOLEAN]
      /\ DOMAIN manager = Managers /\ IsJob(manager[m])
  BY MainTypes
<1>1. /\ failures < MaxFailures /\ failures' = failures + 1
      /\ h \in {"open", "close"} /\ manager[m].left # <<>>
      /\ manager' = [manager EXCEPT ![m] = NoCommand]
      /\ open' = [open EXCEPT ![Main] = FALSE]
      /\ given' = given /\ pipe' = pipe /\ answers' = answers
      /\ manage' = manage /\ gates' = gates
      /\ crossed' = crossed
  BY <1>h DEF OpenFails, At, GoOn
<1>n. NoneEnter /\ (entered'[Main] => entered[Main])
  <2>1. NoneEnter
    BY <1>0, MainTypes, ClosingEnds DEF OpenFails
  <2> QED BY <2>1, <1>0 DEF NoneEnter
<1>2. h \notin PipeMessages
  BY <1>1 DEF PipeMessages
<1>3. manager[m].sent = 0
  BY <1>0, <1>1, <1>2, <1>h, JobCounts
<1>4. IsJob(NoCommand) /\ Outside(NoCommand) /\ NoCommand.sent = 0
  BY NoCommandIsJob DEF NoCommand
<1>5. failures' > 0 /\ failures' \in Nat /\ failures' >= failures
  BY <1>0, <1>1
<1>6. failures' \in 0 .. MaxFailures
  BY <1>0, <1>1, MaintenanceAssumption
<1>7. MainIsLocked'
  <2>1. ~LocksMain(NoCommand) /\ ~DrainedMain(NoCommand)
    BY <1>4 DEF Outside
  <2>2. gates'[Main] = gates[Main]
    BY <1>1
  <2>3. ~(failures' = 0)
    BY <1>5
  <2> QED BY <2>1, <2>2, <2>3, <1>1, <1>5, <1>n, MainStaysLocked
<1>8. /\ open' \in [Procs -> BOOLEAN] /\ gates' \in [Procs -> Nat]
      /\ \A x \in Procs \ {Main} : open'[x] = open[x]
      /\ \A x \in Procs \ {Main} : gates'[x] = gates[x]
  BY <1>0, <1>1
<1>9. \A p \in 1 .. Subs : ~LocksSub(NoCommand, p) /\ ~LockedSub(NoCommand, p)
  BY <1>4 DEF Outside
<1>10. ~(failures' = 0)
  BY <1>5
<1> QED
  BY <1>0, <1>1, <1>3, <1>4, <1>5, <1>6, <1>7, <1>8, <1>9, <1>10, <1>n,
     MainOnly

\* A transaction of the main process passes its gate.
LEMMA MainPasses ==
  ASSUME MInv, NEW c \in Clients, Home[c] = Main, PassGate(c)
  PROVE  MInv'
<1>0. /\ MaintenanceTyped /\ MainIsLocked /\ Alone /\ failures \in Nat
      /\ Main \in Procs /\ TransTyped
      /\ \A m \in Managers : IsJob(manager[m])
  BY MainTypes
<1>1. /\ given' = given /\ manager' = manager /\ pipe' = pipe
      /\ answers' = answers /\ manage' = manage /\ gates' = gates
      /\ open' = open /\ failures' = failures /\ crossed' = crossed
      /\ gates[Main] = 0
  BY DEF PassGate
<1>2. TransTyped' /\ \A x \in Procs \ {Main} : entered'[x] => entered[x]
  BY <1>0, PassingEnters
<1>3. MaintenanceTyped'
  BY <1>0, <1>1, <1>2 DEF MaintenanceTyped
<1>4. Alone' /\ \A o \in Managers : Sole(o)' => Sole(o)
  BY <1>0, <1>1 DEF Alone, Sole, At
<1>5. MainIsLocked'
  <2>1. MainHolders' = MainHolders
    BY <1>1 DEF MainHolders
  <2>2. ASSUME NEW m \in Managers, DrainedMain(manager[m])
        PROVE  FALSE
    <3>1. gates[Main] = 0
      BY <1>1
    <3>2. m \in MainHolders
      <4>1. PICK r : r = manager[m]
        OBVIOUS
      <4>2. DrainedMain(r)
        BY <2>2, <4>1
      <4>3. LocksMain(r)
        BY <4>2 DEF LocksMain, DrainedMain
      <4> QED BY <4>1, <4>3 DEF MainHolders
    <3>3. /\ MainHolders = {} <=> Cardinality(MainHolders) = 0
          /\ Cardinality(MainHolders) \in Nat
      <4>1. MainHolders \subseteq Managers
        BY DEF MainHolders
      <4> QED BY <4>1, SomeManager
    <3>4. gates[Main] >= Cardinality(MainHolders)
      BY <1>0 DEF MainIsLocked
    <3> QED BY <3>1, <3>2, <3>3, <3>4
  <2> QED BY <2>1, <2>2, <1>0, <1>1 DEF MainIsLocked
<1>6. ASSUME NEW p \in 1 .. Subs
      PROVE  SubIsLocked(p)'
  <2>1. p \in Procs \ {Main}
    BY DEF Procs, Main
  <2>2. SubIsLocked(p)
    BY DEF MInv
  <2>3. entered'[p] => entered[p]
    BY <2>1, <1>2
  <2> QED BY <2>2, <2>3, <1>0, <1>1, <1>4, SubFrame
<1> QED BY <1>3, <1>4, <1>5, <1>6 DEF MInv

-----------------------------------------------------------------------------
(* The exchange with the sub-processes.                                    *)

\* How many commands have locked a sub-process, and how many await its answer,
\* when one job changes.
LEMMA SubCounts ==
  ASSUME MInv, NEW p \in 1 .. Subs, NEW m \in Managers, NEW s,
         manager' = [manager EXCEPT ![m] = s]
  PROVE  LET r == manager[m]
             n == Cardinality(Holders(p))
             k == Cardinality(Holders(p)')
             w == Cardinality(Waiting(p))
             v == Cardinality(Waiting(p)')
         IN  /\ n \in Nat /\ k \in Nat /\ w \in Nat /\ v \in Nat
             /\ (LocksSub(s, p) <=> LocksSub(r, p)) => k = n
             /\ LocksSub(s, p) /\ ~LocksSub(r, p) => k = n + 1
             /\ LocksSub(r, p) /\ ~LocksSub(s, p) => k = n - 1
             /\ Awaits(s, p) /\ ~Awaits(r, p) => v = w + 1
             /\ Awaits(r, p) /\ ~Awaits(s, p) => v = w - 1
<1>0. DOMAIN manager = Managers
  BY MainTypes
<1>1. /\ manager'[m] = s
      /\ \A o \in Managers \ {m} : manager'[o] = manager[o]
  BY <1>0
<1>2. /\ m \in Holders(p) <=> LocksSub(manager[m], p)
      /\ m \in Holders(p)' <=> LocksSub(s, p)
      /\ \A o \in Managers \ {m} : o \in Holders(p) <=> o \in Holders(p)'
      /\ Holders(p) \subseteq Managers /\ Holders(p)' \subseteq Managers
  BY <1>1 DEF Holders
<1>3. /\ m \in Waiting(p) <=> Awaits(manager[m], p)
      /\ m \in Waiting(p)' <=> Awaits(s, p)
      /\ \A o \in Managers \ {m} : o \in Waiting(p) <=> o \in Waiting(p)'
      /\ Waiting(p) \subseteq Managers /\ Waiting(p)' \subseteq Managers
  BY <1>1 DEF Waiting
<1>a. PICK A : A = Holders(p)
  OBVIOUS
<1>b. PICK B : B = Holders(p)'
  OBVIOUS
<1>c. PICK C : C = Waiting(p)
  OBVIOUS
<1>d. PICK D : D = Waiting(p)'
  OBVIOUS
<1>4. /\ Cardinality(A) \in Nat /\ Cardinality(B) \in Nat
      /\ (m \in A <=> m \in B) => Cardinality(B) = Cardinality(A)
      /\ m \in B /\ m \notin A => Cardinality(B) = Cardinality(A) + 1
      /\ m \in A /\ m \notin B => Cardinality(B) = Cardinality(A) - 1
  BY <1>2, <1>a, <1>b, OneManager
<1>5. /\ Cardinality(C) \in Nat /\ Cardinality(D) \in Nat
      /\ m \in D /\ m \notin C => Cardinality(D) = Cardinality(C) + 1
      /\ m \in C /\ m \notin D => Cardinality(D) = Cardinality(C) - 1
  BY <1>3, <1>c, <1>d, OneManager
<1> QED BY <1>2, <1>3, <1>4, <1>5, <1>a, <1>b, <1>c, <1>d

\* A sub-process that the exchange does not reach in this step.
LEMMA SubElsewhere ==
  ASSUME MInv, NEW p \in 1 .. Subs, NEW m \in Managers, NEW s,
         manager' = [manager EXCEPT ![m] = s],
         pipe'[p] = pipe[p], answers'[p] = answers[p],
         manage' = manage, gates' = gates, open' = open, NoneEnter,
         failures' = failures, crossed \subseteq crossed',
         Awaits(s, p) <=> Awaits(manager[m], p),
         LocksSub(s, p) <=> LocksSub(manager[m], p),
         ClosesSub(s, p) <=> ClosesSub(manager[m], p),
         LockedSub(s, p) => LockedSub(manager[m], p),
         Sole(m)' /\ Awaits(s, p) => Sole(m)
  PROVE  SubIsLocked(p)'
<1>0. MaintenanceTyped /\ DOMAIN manager = Managers /\ failures \in Nat
  BY MainTypes
<1>1. /\ manager'[m] = s
      /\ \A o \in Managers \ {m} : manager'[o] = manager[o]
  BY <1>0
<1>2. SubIsLocked(p)
  BY DEF MInv
<1>3. ASSUME NEW o \in Managers
      PROVE  /\ Awaits(manager'[o], p) <=> Awaits(manager[o], p)
             /\ LocksSub(manager'[o], p) => LocksSub(manager[o], p)
             /\ failures' = 0 =>
                  (LocksSub(manager'[o], p) <=> LocksSub(manager[o], p))
             /\ failures' = 0 =>
                  (ClosesSub(manager[o], p) => ClosesSub(manager'[o], p))
             /\ LockedSub(manager'[o], p) /\ o \notin crossed' =>
                  LockedSub(manager[o], p) /\ o \notin crossed
             /\ Sole(o)' /\ Awaits(manager'[o], p) => Sole(o)
  <2>0. o \notin crossed' => o \notin crossed
    OBVIOUS
  <2>1. CASE o = m
    BY <2>0, <2>1, <1>1
  <2>2. CASE o # m
    <3>1. manager'[o] = manager[o]
      BY <2>2, <1>1
    <3>2. Sole(o)' => Sole(o)
      BY <3>1, <2>0 DEF Sole, At
    <3> QED BY <3>1, <3>2, <2>0
  <2> QED BY <2>1, <2>2
<1>4. entered'[p] => entered[p]
  BY DEF NoneEnter, Procs
<1> QED BY <1>0, <1>2, <1>3, <1>4, SubFrame

LEMMA SendTypes ==
  ASSUME MInv, NEW m \in Managers, Send(m),
         NEW q, q = manager[m].sent + 1,
         NEW s, s = [manager[m] EXCEPT !.sent = q],
         NEW e, e = Head(manager[m].left)
  PROVE  /\ manager[m].left # <<>> /\ e \in PipeMessages /\ manager[m].sent < Subs
         /\ IsJob(manager[m])
         /\ q \in 1 .. Subs /\ q - 1 = manager[m].sent
         /\ manager' = [manager EXCEPT ![m] = s]
         /\ manager'[m] = s /\ \A o \in Managers \ {m} : manager'[o] = manager[o]
         /\ IsJob(s) /\ s.sent = q /\ s.left = manager[m].left
         /\ pipe' \in [1 .. Subs -> Seq(PipeMessages)]
         /\ pipe'[q] = Append(pipe[q], e)
         /\ \A p \in (1 .. Subs) \ {q} : pipe'[p] = pipe[p]
         /\ crossed' = IF q = 1 THEN crossed \cup Meeting(m) ELSE crossed
         /\ given' = given /\ answers' = answers /\ manage' = manage
         /\ gates' = gates /\ open' = open /\ transVars' = transVars
         /\ failures' = failures
<1>0. /\ DOMAIN manager = Managers /\ IsJob(manager[m])
      /\ pipe \in [1 .. Subs -> Seq(PipeMessages)]
  BY MainTypes
<1>1. /\ manager[m].left # <<>> /\ e \in PipeMessages /\ manager[m].sent < Subs
      /\ pipe' = [pipe EXCEPT ![q] = Append(@, e)]
      /\ manager' = [manager EXCEPT ![m].sent = q]
      /\ crossed' = IF q = 1 THEN crossed \cup Meeting(m) ELSE crossed
      /\ given' = given /\ answers' = answers /\ manage' = manage
      /\ gates' = gates /\ open' = open /\ transVars' = transVars
      /\ failures' = failures
  BY DEF Send, Exchanging
<1>r. PICK r : r = manager[m]
  OBVIOUS
<1>2. manager' = [manager EXCEPT ![m] = s]
  BY <1>0, <1>1
<1>3. IsJob(s) /\ s.sent = q /\ s.left = r.left /\ q \in 1 .. Subs
  BY <1>0, <1>1, <1>r, SentJob
<1>4. manager[m].sent \in 0 .. Subs
  BY <1>0, JobCounts
<1>5. Append(pipe[q], e) \in Seq(PipeMessages)
  BY <1>0, <1>1, <1>3
<1>6. q - 1 = manager[m].sent
  BY <1>4
<1> QED BY <1>0, <1>1, <1>2, <1>3, <1>5, <1>6, <1>r

\* Whoever sends first while others exchange is crossed, and so are they.
LEMMA SendAlone ==
  ASSUME MInv, NEW m \in Managers, Send(m)
  PROVE  Alone' /\ \A o \in Managers : Sole(o)' => o = m
<1>q. PICK q : q = manager[m].sent + 1
  OBVIOUS
<1>s. PICK s : s = [manager[m] EXCEPT !.sent = q]
  OBVIOUS
<1>e. PICK e : e = Head(manager[m].left)
  OBVIOUS
<1>0. Alone /\ \A o \in Managers : IsJob(manager[o])
  BY MainTypes
<1>1. /\ manager[m].left # <<>> /\ q \in 1 .. Subs /\ q - 1 = manager[m].sent
      /\ manager'[m] = s /\ \A o \in Managers \ {m} : manager'[o] = manager[o]
      /\ s.sent = q /\ s.left = manager[m].left /\ e \in PipeMessages
      /\ crossed' = IF q = 1 THEN crossed \cup Meeting(m) ELSE crossed
  BY <1>q, <1>s, <1>e, SendTypes
<1>2. \A o \in Managers : manager[o].sent > 0 => Exchanging(o)
  BY <1>0, JobCounts DEF Exchanging
<1>3. \A o \in Managers : manager[o].sent \in 0 .. Subs
  BY <1>0, JobCounts
<1>4. ASSUME NEW o \in Managers \ {m}, Sole(o)'
      PROVE  FALSE
  <2>1. /\ manager[o].left # <<>> /\ Head(manager[o].left) = "DB_LOCK"
        /\ manager[o].sent > 0 /\ o \notin crossed'
    BY <1>1, <1>4 DEF Sole, At
  <2>2. CASE q = 1
    <3>1. o \in Meeting(m)
      BY <2>1, <1>2 DEF Meeting, At
    <3> QED BY <3>1, <2>1, <2>2, <1>1
  <2>3. CASE q # 1
    <3>1. Sole(o)
      BY <2>1, <2>3, <1>1 DEF Sole, At
    <3>2. manager[m].sent = 0
      BY <3>1, <1>0 DEF Alone
    <3> QED BY <3>2, <2>3, <1>1
  <2> QED BY <2>2, <2>3
<1>5. ASSUME Sole(m)', NEW o \in Managers \ {m}
      PROVE  manager'[o].sent = 0
  <2>1. /\ Head(manager[m].left) = "DB_LOCK" /\ m \notin crossed'
    BY <1>1, <1>5 DEF Sole, At
  <2>2. CASE q = 1
    <3>1. m \notin Meeting(m)
      BY <2>1, <2>2, <1>1
    <3>2. ~(manager[o].sent > 0)
      BY <3>1, <2>1, <1>1, <1>2 DEF Meeting, At
    <3> QED BY <3>2, <1>1, <1>3
  <2>3. CASE q # 1
    <3>1. Sole(m)
      BY <2>1, <2>3, <1>1 DEF Sole, At
    <3>2. manager[o].sent = 0
      BY <3>1, <1>0 DEF Alone
    <3> QED BY <3>2, <1>1
  <2> QED BY <2>2, <2>3
<1> QED BY <1>4, <1>5 DEF Alone

\* The sub-process that is sent to.
LEMMA SendReaches ==
  ASSUME MInv, NEW m \in Managers, Send(m),
         NEW q, q = manager[m].sent + 1
  PROVE  SubIsLocked(q)'
<1>s. PICK s : s = [manager[m] EXCEPT !.sent = q]
  OBVIOUS
<1>e. PICK e : e = Head(manager[m].left)
  OBVIOUS
<1>x. PICK x : x = pipe[q]
  OBVIOUS
<1>y. PICK y : y = Append(x, e)
  OBVIOUS
<1>0. /\ IsJob(manager[m]) /\ manager[m].left # <<>> /\ e \in PipeMessages
      /\ manager[m].sent < Subs /\ q \in 1 .. Subs /\ q - 1 = manager[m].sent
      /\ manager' = [manager EXCEPT ![m] = s] /\ manager'[m] = s
      /\ \A o \in Managers \ {m} : manager'[o] = manager[o]
      /\ s.sent = q /\ s.left = manager[m].left
      /\ pipe'[q] = Append(pipe[q], e)
  BY <1>s, <1>e, SendTypes
<1>1. /\ manager[m].left # <<>> /\ e \in PipeMessages /\ manager[m].sent < Subs
      /\ IsJob(manager[m]) /\ q \in 1 .. Subs /\ q - 1 = manager[m].sent
      /\ manager' = [manager EXCEPT ![m] = s] /\ manager'[m] = s
      /\ \A o \in Managers \ {m} : manager'[o] = manager[o]
      /\ s.sent = q /\ s.left = manager[m].left
      /\ pipe'[q] = y
      /\ crossed' = IF q = 1 THEN crossed \cup Meeting(m) ELSE crossed
      /\ answers' = answers /\ manage' = manage
      /\ gates' = gates /\ open' = open /\ transVars' = transVars
      /\ failures' = failures
  <2>1. pipe'[q] = y
    BY <1>0, <1>x, <1>y
  <2>2. /\ crossed' = IF q = 1 THEN crossed \cup Meeting(m) ELSE crossed
        /\ answers' = answers /\ manage' = manage
        /\ gates' = gates /\ open' = open /\ transVars' = transVars
        /\ failures' = failures
    BY DEF Send
  <2> QED BY <1>0, <2>1, <2>2
<1>f. entered' = entered
  BY <1>1, EnteredSame
<1>2. /\ gates[q] \in Nat /\ open[q] \in BOOLEAN /\ x \in Seq(PipeMessages)
      /\ answers[q] \in Nat /\ failures \in Nat
  BY <1>1, <1>x, SubTypes
<1>3. /\ y \in Seq(PipeMessages) /\ Len(x) \in Nat /\ Len(y) = Len(x) + 1
      /\ \A k \in 0 .. Len(y) : k \in 0 .. Len(x) \/ k = Len(x) + 1
  BY <1>1, <1>2, <1>y
<1>r. PICK r : r = manager[m]
  OBVIOUS
<1>4. /\ LocksSub(s, q) <=> e = "DB_LOCK" \/ (LocksSub(r, q) /\ e # "DB_UNLOCK")
      /\ e = "DB_LOCK" => ~LocksSub(r, q)
      /\ e = "DB_UNLOCK" => LocksSub(r, q)
      /\ LockedSub(s, q) => LockedSub(r, q) /\ e # "DB_UNLOCK"
      /\ ClosesSub(s, q) <=> e = "DB_CLOSE" \/ (ClosesSub(r, q) /\ e # "DB_OPEN")
      /\ Awaits(s, q) /\ ~Awaits(r, q) /\ IsJob(s)
  <2>1. /\ IsJob(r) /\ r.left # <<>> /\ Head(r.left) \in PipeMessages
        /\ r.sent < Subs /\ q = r.sent + 1 /\ s = [r EXCEPT !.sent = q]
        /\ e = Head(r.left)
    BY <1>1, <1>r, <1>s, <1>e
  <2> QED BY <2>1, SentJob
<1>5. SubIsLocked(q) /\ \A o \in Managers : IsJob(manager[o])
  BY <1>1, MainTypes DEF MInv
<1>6. /\ AnswersLeft(q) /\ GateCounts(q) /\ StaysLocked(q) /\ OwnAnswer(q)
      /\ ShutForACommand(q)
  BY <1>5 DEF SubIsLocked
<1>n. PICK n : n = Cardinality(Holders(q))
  OBVIOUS
<1>k. PICK k : k = Cardinality(Holders(q)')
  OBVIOUS
<1>w. PICK w : w = Cardinality(Waiting(q))
  OBVIOUS
<1>v. PICK v : v = Cardinality(Waiting(q)')
  OBVIOUS
<1>7. /\ n \in Nat /\ k \in Nat /\ w \in Nat /\ v \in Nat
      /\ (LocksSub(s, q) <=> LocksSub(r, q)) => k = n
      /\ LocksSub(s, q) /\ ~LocksSub(r, q) => k = n + 1
      /\ LocksSub(r, q) /\ ~LocksSub(s, q) => k = n - 1
      /\ Awaits(s, q) /\ ~Awaits(r, q) => v = w + 1
  BY <1>1, <1>r, <1>n, <1>k, <1>w, <1>v, SubCounts
<1>8. AnswersLeft(q)'
  <2>1. v = w + 1
    BY <1>4, <1>7
  <2>2. Len(x) + answers[q] + (IF manage[q] = "recv" THEN 0 ELSE 1) = w
    BY <1>6, <1>x, <1>w DEF AnswersLeft
  <2>3. Len(y) + answers[q] + (IF manage[q] = "recv" THEN 0 ELSE 1) = v
    <3>1. PICK d \in {0, 1} : d = IF manage[q] = "recv" THEN 0 ELSE 1
      OBVIOUS
    <3>l. PICK l : l = Len(x)
      OBVIOUS
    <3>2. l \in Nat /\ l + answers[q] + d = w
      BY <3>1, <3>l, <2>2, <1>3
    <3>3. (l + 1) + answers[q] + d = v
      <4>1. d \in Nat /\ answers[q] \in Nat
        BY <3>1, <1>2
      <4> QED BY <4>1, <3>2, <2>1
    <3> QED BY <3>1, <3>l, <3>3, <1>3
  <2> QED BY <2>3, <1>1, <1>v DEF AnswersLeft
<1>b. /\ \A j \in 0 .. Len(x) : Balance(q, j)' = Balance(q, j)
      /\ Balance(q, Len(y))' =
           Balance(q, Len(x)) + (CASE e = "DB_LOCK" -> 1
                                   [] e = "DB_UNLOCK" -> -1
                                   [] OTHER -> 0)
      /\ Balance(q, Len(x)) \in Int
  <2>g. PICK g : g = gates[q]
    OBVIOUS
  <2>1. /\ \A j \in 0 .. Len(x) : Gate(g, y, j) = Gate(g, x, j)
        /\ Gate(g, y, Len(x) + 1) =
             Gate(g, x, Len(x)) + (CASE e = "DB_LOCK" -> 1
                                     [] e = "DB_UNLOCK" -> -1
                                     [] OTHER -> 0)
    BY <2>g, <1>1, <1>2, <1>y, GateSend
  <2>2. Gate(g, x, Len(x)) \in Int
    BY <2>g, <1>2, <1>3, GateIsInteger
  <2>3. \A j : Balance(q, j)' = Gate(g, y, j) /\ Balance(q, j) = Gate(g, x, j)
    BY <2>g, <1>1, <1>x DEF Balance
  <2> QED BY <2>1, <2>2, <2>3, <1>3
<1>9. /\ Balance(q, Len(y))' >= k
      /\ failures = 0 => Balance(q, Len(y))' = k
  <2>c. PICK c : c = Balance(q, Len(x))
    OBVIOUS
  <2>d. PICK d : d = Balance(q, Len(y))'
    OBVIOUS
  <2>1. c \in Int /\ c >= n /\ (failures = 0 => c = n)
    BY <2>c, <1>6, <1>x, <1>n, <1>b DEF GateCounts
  <2>2. d = c + (CASE e = "DB_LOCK" -> 1 [] e = "DB_UNLOCK" -> -1 [] OTHER -> 0)
    BY <2>c, <2>d, <1>b
  <2>3. CASE e = "DB_LOCK"
    <3>1. d = c + 1 /\ k = n + 1
      BY <2>2, <2>3, <1>4, <1>7
    <3> QED BY <3>1, <2>1, <2>d, <1>7
  <2>4. CASE e = "DB_UNLOCK"
    <3>1. d = c + (-1) /\ k = n - 1
      BY <2>2, <2>4, <1>4, <1>7
    <3> QED BY <3>1, <2>1, <2>d, <1>7
  <2>5. CASE e # "DB_LOCK" /\ e # "DB_UNLOCK"
    <3>1. d = c + 0 /\ k = n
      BY <2>2, <2>5, <1>4, <1>7
    <3> QED BY <3>1, <2>1, <2>d, <1>7
  <2> QED BY <2>3, <2>4, <2>5
<1>i. Balance(q, Len(y))' \in Int
  <2>1. /\ gates'[q] \in Nat /\ Len(y) \in Nat
    BY <1>1, <1>2, <1>3
  <2> QED BY <2>1, GateIsInteger DEF Balance
<1>10. GateCounts(q)'
  <2>1. \A j \in 0 .. Len(y) : Balance(q, j)' >= 0
    <3>1. ASSUME NEW j \in 0 .. Len(y)
          PROVE  Balance(q, j)' >= 0
      <4>1. CASE j \in 0 .. Len(x)
        BY <4>1, <1>6, <1>b, <1>x DEF GateCounts
      <4>2. CASE j = Len(y)
        BY <4>2, <1>7, <1>9, <1>i
      <4> QED BY <4>1, <4>2, <1>3
    <3> QED BY <3>1
  <2>2. Balance(q, Len(pipe[q]))' = Balance(q, Len(y))'
    BY <1>1 DEF Balance
  <2> QED BY <2>1, <2>2, <1>1, <1>9, <1>k DEF GateCounts
<1>11. StaysLocked(q)'
  <2>1. ASSUME NEW o \in Managers, LockedSub(manager'[o], q), o \notin crossed'
        PROVE  ~entered[q] /\ \A j \in 0 .. Len(y) : Balance(q, j)' >= 1
    <3>1. LockedSub(manager[o], q) /\ o \notin crossed
      <4>1. o \notin crossed
        BY <2>1, <1>1
      <4>2. CASE o = m
        BY <4>1, <4>2, <2>1, <1>1, <1>4, <1>r
      <4>3. CASE o # m
        BY <4>1, <4>3, <2>1, <1>1
      <4> QED BY <4>2, <4>3
    <3>2. ~entered[q] /\ \A j \in 0 .. Len(x) : Balance(q, j) >= 1
      BY <3>1, <1>6, <1>x DEF StaysLocked
    <3>3. k >= 1
      <4>0. IsJob(manager'[o])
        BY <1>1, <1>4, <1>5
      <4>1. LocksSub(manager'[o], q)
        BY <4>0, <2>1, <1>1, JobImplications
      <4>2. o \in Holders(q)'
        BY <4>1 DEF Holders
      <4>3. Holders(q)' \subseteq Managers
        BY DEF Holders
      <4>4. PICK B : B = Holders(q)'
        OBVIOUS
      <4>5. B = {} <=> Cardinality(B) = 0
        BY <4>3, <4>4, SomeManager
      <4>6. k # 0
        BY <4>2, <4>4, <4>5, <1>k
      <4> QED BY <4>6, <1>7
    <3>4. ASSUME NEW j \in 0 .. Len(y)
          PROVE  Balance(q, j)' >= 1
      <4>1. CASE j \in 0 .. Len(x)
        BY <4>1, <3>2, <1>b
      <4>2. CASE j = Len(y)
        BY <4>2, <3>3, <1>7, <1>9, <1>i
      <4> QED BY <4>1, <4>2, <1>3
    <3> QED BY <3>2, <3>4
  <2> QED BY <2>1, <1>1, <1>f DEF StaysLocked
<1>12. OwnAnswer(q)'
  <2>1. ASSUME NEW o \in Managers, Sole(o)', Awaits(manager'[o], q)
        PROVE  pipe'[q] = <<"DB_LOCK">>
    <3>1. o = m
      BY <2>1, SendAlone
    <3>2. \A a \in Managers \ {m} : manager[a].sent = 0
      <4>1. Alone'
        BY SendAlone
      <4>2. \A a \in Managers \ {m} : manager'[a].sent = 0
        BY <4>1, <3>1, <2>1 DEF Alone
      <4> QED BY <4>2, <1>1
    <3>3. \A a \in Managers : ~Awaits(manager[a], q)
      <4>1. ~(0 >= q)
        BY <1>1
      <4>2. \A a \in Managers \ {m} : ~Awaits(manager[a], q)
        BY <4>1, <3>2 DEF Awaits
      <4> QED BY <4>2, <1>4, <1>r
    <3>4. x = <<>>
      BY <3>3, <1>1, <1>x, NobodyAwaits
    <3>5. e = "DB_LOCK"
      BY <3>1, <2>1, <1>1, <1>e DEF Sole, At
    <3> QED BY <3>4, <3>5, <1>1, <1>y
  <2> QED BY <2>1 DEF OwnAnswer
<1>13. ShutForACommand(q)'
  <2>1. ASSUME failures = 0, Shut(open[q], y)
        PROVE  \E o \in Managers : ClosesSub(manager'[o], q)
    <3>b. PICK b : b = open[q]
      OBVIOUS
    <3>1. e = "DB_CLOSE" \/ (Shut(b, x) /\ e # "DB_OPEN")
      BY <3>b, <2>1, <1>1, <1>2, <1>y, ShutSend
    <3>2. CASE e = "DB_CLOSE"
      BY <3>2, <1>1, <1>4
    <3>3. CASE Shut(b, x) /\ e # "DB_OPEN"
      <4>1. PICK o \in Managers : ClosesSub(manager[o], q)
        BY <3>b, <3>3, <2>1, <1>6, <1>x DEF ShutForACommand
      <4>2. ClosesSub(manager'[o], q)
        <5>1. CASE o = m
          BY <5>1, <4>1, <3>3, <1>1, <1>4, <1>r
        <5>2. CASE o # m
          BY <5>2, <4>1, <1>1
        <5> QED BY <5>1, <5>2
      <4> QED BY <4>2
    <3> QED BY <3>1, <3>2, <3>3
  <2> QED BY <2>1, <1>1 DEF ShutForACommand
<1> QED BY <1>8, <1>10, <1>11, <1>12, <1>13 DEF SubIsLocked

LEMMA SendStep ==
  ASSUME MInv, NEW m \in Managers, Send(m)
  PROVE  MInv'
<1>q. PICK q : q = manager[m].sent + 1
  OBVIOUS
<1>s. PICK s : s = [manager[m] EXCEPT !.sent = q]
  OBVIOUS
<1>e. PICK e : e = Head(manager[m].left)
  OBVIOUS
<1>0. /\ MaintenanceTyped /\ MainIsLocked /\ DOMAIN manager = Managers
      /\ \A o \in Managers : IsJob(manager[o])
      /\ failures \in Nat /\ crossed \subseteq Managers
  BY MainTypes
<1>1. /\ manager[m].left # <<>> /\ e \in PipeMessages /\ manager[m].sent < Subs
      /\ q \in 1 .. Subs /\ q - 1 = manager[m].sent
      /\ manager' = [manager EXCEPT ![m] = s] /\ manager'[m] = s
      /\ \A o \in Managers \ {m} : manager'[o] = manager[o]
      /\ IsJob(s) /\ s.sent = q /\ s.left = manager[m].left
      /\ pipe' \in [1 .. Subs -> Seq(PipeMessages)]
      /\ \A p \in (1 .. Subs) \ {q} : pipe'[p] = pipe[p]
      /\ crossed' = IF q = 1 THEN crossed \cup Meeting(m) ELSE crossed
      /\ given' = given /\ answers' = answers /\ manage' = manage
      /\ gates' = gates /\ open' = open /\ transVars' = transVars
      /\ failures' = failures
  BY <1>q, <1>s, <1>e, SendTypes
<1>n. NoneEnter /\ (entered'[Main] => entered[Main])
  <2>1. NoneEnter
    BY <1>1, MainTypes, NoneEnterSame
  <2> QED BY <2>1, MainTypes DEF NoneEnter
<1>r. PICK r : r = manager[m]
  OBVIOUS
<1>2. /\ LocksMain(s) <=> LocksMain(r)
      /\ DrainedMain(s) <=> DrainedMain(r)
      /\ ClosesMain(s) <=> ClosesMain(r)
      /\ \A p \in (1 .. Subs) \ {q} :
           /\ LocksSub(s, p) <=> LocksSub(r, p)
           /\ LockedSub(s, p) <=> LockedSub(r, p)
           /\ ClosesSub(s, p) <=> ClosesSub(r, p)
           /\ Awaits(s, p) <=> Awaits(r, p)
  <2>1. /\ IsJob(r) /\ r.left # <<>> /\ Head(r.left) \in PipeMessages
        /\ r.sent < Subs /\ q = r.sent + 1 /\ s = [r EXCEPT !.sent = q]
    BY <1>0, <1>1, <1>r, <1>s, <1>e, <1>q
  <2> QED BY <2>1, SentJob
<1>3. Meeting(m) \subseteq Managers
  BY DEF Meeting
<1>4. MaintenanceTyped'
  <2>1. DOMAIN manager' = Managers /\ \A o \in Managers : IsJob(manager'[o])
    BY <1>0, <1>1
  <2>2. crossed' \subseteq Managers
    BY <1>0, <1>1, <1>3
  <2> QED BY <2>1, <2>2, <1>0, <1>1, <1>n DEF MaintenanceTyped, NoneEnter
<1>5. Alone'
  BY SendAlone
<1>6. MainIsLocked'
  <2>1. \A o \in Managers :
          /\ LocksMain(manager'[o]) <=> LocksMain(manager[o])
          /\ DrainedMain(manager'[o]) => DrainedMain(manager[o])
          /\ ClosesMain(manager'[o]) <=> ClosesMain(manager[o])
    BY <1>1, <1>2, <1>r
  <2>2. failures' \in Nat /\ failures' >= failures
    BY <1>0, <1>1
  <2> QED BY <2>1, <2>2, <1>0, <1>1, <1>n, MainFrame
<1>7. ASSUME NEW p \in 1 .. Subs
      PROVE  SubIsLocked(p)'
  <2>1. CASE p = q
    BY <2>1, <1>q, SendReaches
  <2>2. CASE p # q
    <3>1. crossed \subseteq crossed' /\ pipe'[p] = pipe[p] /\ answers'[p] = answers[p]
      BY <2>2, <1>1
    <3>2. Sole(m)' /\ Awaits(s, p) => Sole(m)
      <4>1. ASSUME Sole(m)', Awaits(s, p)
            PROVE  Sole(m)
        <5>1. q # 1
          BY <4>1, <2>2, <1>1 DEF Awaits
        <5>2. manager[m].sent > 0
          BY <5>1, <1>1
        <5> QED BY <4>1, <5>1, <5>2, <1>1 DEF Sole, At
      <4> QED BY <4>1
    <3>3. /\ LocksSub(s, p) <=> LocksSub(manager[m], p)
          /\ LockedSub(s, p) => LockedSub(manager[m], p)
          /\ ClosesSub(s, p) <=> ClosesSub(manager[m], p)
          /\ Awaits(s, p) <=> Awaits(manager[m], p)
      BY <2>2, <1>2, <1>r
    <3> QED BY <3>1, <3>2, <3>3, <1>1, <1>n, SubElsewhere
  <2> QED BY <2>1, <2>2
<1> QED BY <1>4, <1>5, <1>6, <1>7 DEF MInv

LEMMA RecvTypes ==
  ASSUME MInv, NEW m \in Managers, Recv(m),
         NEW q, q = manager[m].got + 1,
         NEW s, s = TakenJob(manager[m])
  PROVE  /\ manager[m].left # <<>> /\ Head(manager[m].left) \in PipeMessages
         /\ manager[m].sent = Subs /\ IsJob(manager[m]) /\ q \in 1 .. Subs
         /\ manager' = [manager EXCEPT ![m] = s]
         /\ manager'[m] = s /\ \A o \in Managers \ {m} : manager'[o] = manager[o]
         /\ answers[q] \in Nat /\ answers[q] > 0
         /\ answers' \in [1 .. Subs -> Nat] /\ answers'[q] = answers[q] - 1
         /\ \A p \in (1 .. Subs) \ {q} : answers'[p] = answers[p]
         /\ given' = given /\ pipe' = pipe /\ manage' = manage
         /\ gates' = gates /\ open' = open /\ transVars' = transVars
         /\ failures' = failures /\ crossed' = crossed
<1>0. /\ DOMAIN manager = Managers /\ IsJob(manager[m])
      /\ answers \in [1 .. Subs -> Nat]
  BY MainTypes
<1>1. /\ manager[m].left # <<>> /\ Head(manager[m].left) \in PipeMessages
      /\ manager[m].sent = Subs /\ answers[q] > 0
      /\ answers' = [answers EXCEPT ![q] = @ - 1]
      /\ IF q = Subs THEN NextStep(m)
         ELSE manager' = [manager EXCEPT ![m].got = q]
      /\ given' = given /\ pipe' = pipe /\ manage' = manage
      /\ gates' = gates /\ open' = open /\ transVars' = transVars
      /\ failures' = failures /\ crossed' = crossed
  BY DEF Recv, Exchanging
<1>2. q \in 1 .. Subs
  <2>1. manager[m].got \in 0 .. Subs /\ manager[m].got < Subs
    BY <1>0, <1>1, JobCounts
  <2> QED BY <2>1, MaintenanceAssumption
<1>3. manager' = [manager EXCEPT ![m] = s]
  <2>1. CASE q = Subs
    <3>1. s = Advanced(manager[m])
      BY <2>1 DEF TakenJob
    <3>2. NextStep(m)
      BY <2>1, <1>1
    <3> QED BY <3>1, <3>2 DEF NextStep, GoOn, Advanced
  <2>2. CASE q # Subs
    <3>1. s = [manager[m] EXCEPT !.got = q]
      BY <2>2 DEF TakenJob
    <3> QED BY <3>1, <2>2, <1>0, <1>1
  <2> QED BY <2>1, <2>2
<1>4. answers[q] \in Nat /\ answers[q] - 1 \in Nat
  BY <1>0, <1>1, <1>2
<1> QED BY <1>0, <1>1, <1>2, <1>3, <1>4

\* The sub-process whose answer is taken.
LEMMA RecvReaches ==
  ASSUME MInv, NEW m \in Managers, Recv(m),
         NEW q, q = manager[m].got + 1
  PROVE  SubIsLocked(q)'
<1>s. PICK s : s = TakenJob(manager[m])
  OBVIOUS
<1>r. PICK r : r = manager[m]
  OBVIOUS
<1>1. /\ r.left # <<>> /\ Head(r.left) \in PipeMessages
      /\ r.sent = Subs /\ IsJob(r) /\ q \in 1 .. Subs
      /\ manager' = [manager EXCEPT ![m] = s]
      /\ manager'[m] = s /\ \A o \in Managers \ {m} : manager'[o] = manager[o]
      /\ answers[q] \in Nat /\ answers[q] > 0 /\ answers'[q] = answers[q] - 1
      /\ pipe' = pipe /\ manage' = manage
      /\ gates' = gates /\ open' = open /\ transVars' = transVars
      /\ failures' = failures /\ crossed' = crossed
  BY <1>s, <1>r, RecvTypes
<1>f. entered' = entered
  BY <1>1, EnteredSame
<1>2. /\ s.sent \in {0, r.sent} /\ (s.sent > 0 => s.left = r.left)
      /\ LocksSub(s, q) <=> LocksSub(r, q)
      /\ LockedSub(s, q) => LockedSub(r, q) \/ Head(r.left) = "DB_LOCK"
      /\ ClosesSub(s, q) <=> ClosesSub(r, q)
      /\ Awaits(r, q) /\ ~Awaits(s, q)
  <2>1. q = r.got + 1 /\ s = TakenJob(r)
    BY <1>r, <1>s
  <2> QED BY <2>1, <1>1, AnsweredJob
<1>3. /\ SubIsLocked(q) /\ Alone /\ failures \in Nat
      /\ gates[q] \in Nat /\ pipe[q] \in Seq(PipeMessages)
  BY <1>1, MainTypes, SubTypes
<1>4. /\ AnswersLeft(q) /\ GateCounts(q) /\ StaysLocked(q) /\ OwnAnswer(q)
      /\ ShutForACommand(q)
  BY <1>3 DEF SubIsLocked
<1>5. Len(pipe[q]) \in Nat
  BY <1>3
<1>6. /\ Cardinality(Waiting(q)) \in Nat
      /\ Cardinality(Waiting(q)') = Cardinality(Waiting(q)) - 1
      /\ Cardinality(Holders(q)') = Cardinality(Holders(q))
  BY <1>1, <1>2, <1>r, SubCounts
<1>7. AnswersLeft(q)'
  <2>d. PICK d \in {0, 1} : d = IF manage[q] = "recv" THEN 0 ELSE 1
    OBVIOUS
  <2>l. PICK l : l = Len(pipe[q])
    OBVIOUS
  <2>w. PICK w : w = Cardinality(Waiting(q))
    OBVIOUS
  <2>1. l + answers[q] + d = w
    BY <1>4, <2>d, <2>l, <2>w DEF AnswersLeft
  <2>2. l + answers'[q] + d = w - 1
    <3>a. PICK x : x = answers[q]
      OBVIOUS
    <3>b. PICK y : y = answers'[q]
      OBVIOUS
    <3>1. x \in Nat /\ y = x - 1
      BY <3>a, <3>b, <1>1
    <3>2. l \in Nat /\ w \in Nat
      BY <1>5, <1>6, <2>l, <2>w
    <3>3. l + x + d = w
      BY <2>1, <3>a
    <3>4. l + y + d = w - 1
      BY <3>1, <3>2, <3>3
    <3> QED BY <3>4, <3>b
  <2> QED BY <2>2, <2>d, <2>l, <2>w, <1>1, <1>6 DEF AnswersLeft
<1>8. \A j : Balance(q, j)' = Balance(q, j)
  BY <1>1 DEF Balance
<1>9. GateCounts(q)'
  BY <1>1, <1>4, <1>6, <1>8 DEF GateCounts, Balance
<1>10. ASSUME NEW o \in Managers, Sole(o)', Awaits(manager'[o], q)
       PROVE  FALSE
  <2>1. o # m
    BY <1>1, <1>2, <1>10
  <2>2. Sole(o)
    BY <2>1, <1>1, <1>10 DEF Sole, At
  <2>3. r.sent = 0
    BY <2>1, <2>2, <1>3, <1>r DEF Alone
  <2> QED BY <2>3, <1>1, MaintenanceAssumption
<1>11. OwnAnswer(q)'
  BY <1>10 DEF OwnAnswer
<1>12. ASSUME ~LockedSub(r, q), Head(r.left) = "DB_LOCK", m \notin crossed
       PROVE  ~entered[q] /\ \A j \in 0 .. Len(pipe[q]) : Balance(q, j) >= 1
  <2>1. Sole(m) /\ Awaits(manager[m], q)
    <3>1. r.sent > 0
      BY <1>1, MaintenanceAssumption
    <3> QED BY <3>1, <1>1, <1>2, <1>12, <1>r DEF Sole, At
  <2>2. Len(pipe[q]) + answers[q] + (IF manage[q] = "recv" THEN 0 ELSE 1) = 1
    BY <2>1, <1>1, AloneAwaits
  <2>3. manage[q] = "recv"
    BY <2>2, <1>1, <1>5
  <2>4. Len(pipe[q]) = 0
    BY <2>2, <2>3, <1>1, <1>5
  <2>5. pipe[q] # <<"DB_LOCK">>
    <3>1. Len(<<"DB_LOCK">>) = 1
      OBVIOUS
    <3>2. PICK x : x = pipe[q]
      OBVIOUS
    <3>3. Len(x) = 0
      BY <3>2, <2>4
    <3>4. x # <<"DB_LOCK">>
      BY <3>1, <3>3
    <3> QED BY <3>2, <3>4
  <2>6. gates[q] > 0 /\ ~entered[q]
    BY <2>1, <2>3, <2>5, <1>4 DEF OwnAnswer
  <2>7. Balance(q, 0) = gates[q]
    BY <1>3, GateIsInteger DEF Balance
  <2>8. \A j \in 0 .. Len(pipe[q]) : j = 0
    BY <2>4
  <2> QED BY <2>6, <2>7, <2>8, <1>3
<1>13. StaysLocked(q)'
  <2>1. ASSUME NEW o \in Managers, LockedSub(manager'[o], q), o \notin crossed
        PROVE  ~entered[q] /\ \A j \in 0 .. Len(pipe[q]) : Balance(q, j) >= 1
    <3>1. CASE LockedSub(manager[o], q)
      BY <2>1, <3>1, <1>4 DEF StaysLocked
    <3>2. CASE ~LockedSub(manager[o], q)
      <4>1. o = m
        BY <3>2, <2>1, <1>1
      <4> QED BY <4>1, <3>2, <2>1, <1>1, <1>2, <1>12, <1>r
    <3> QED BY <3>1, <3>2
  <2> QED BY <2>1, <1>1, <1>8, <1>f DEF StaysLocked
<1>14. ShutForACommand(q)'
  <2>1. \A o \in Managers : ClosesSub(manager[o], q) => ClosesSub(manager'[o], q)
    BY <1>1, <1>2, <1>r
  <2> QED BY <2>1, <1>1, <1>4 DEF ShutForACommand
<1> QED BY <1>7, <1>9, <1>11, <1>13, <1>14 DEF SubIsLocked

LEMMA RecvStep ==
  ASSUME MInv, NEW m \in Managers, Recv(m)
  PROVE  MInv'
<1>q. PICK q : q = manager[m].got + 1
  OBVIOUS
<1>s. PICK s : s = TakenJob(manager[m])
  OBVIOUS
<1>r. PICK r : r = manager[m]
  OBVIOUS
<1>0. /\ MaintenanceTyped /\ MainIsLocked /\ Alone /\ DOMAIN manager = Managers
      /\ \A o \in Managers : IsJob(manager[o])
      /\ failures \in Nat
  BY MainTypes
<1>1. /\ r.left # <<>> /\ Head(r.left) \in PipeMessages
      /\ r.sent = Subs /\ IsJob(r) /\ q \in 1 .. Subs
      /\ manager' = [manager EXCEPT ![m] = s]
      /\ manager'[m] = s /\ \A o \in Managers \ {m} : manager'[o] = manager[o]
      /\ answers' \in [1 .. Subs -> Nat]
      /\ \A p \in (1 .. Subs) \ {q} : answers'[p] = answers[p]
      /\ given' = given /\ pipe' = pipe /\ manage' = manage
      /\ gates' = gates /\ open' = open /\ transVars' = transVars
      /\ failures' = failures /\ crossed' = crossed
  BY <1>q, <1>s, <1>r, RecvTypes
<1>n. NoneEnter /\ (entered'[Main] => entered[Main])
  <2>1. NoneEnter
    BY <1>1, MainTypes, NoneEnterSame
  <2> QED BY <2>1, MainTypes DEF NoneEnter
<1>2. /\ IsJob(s) /\ s.sent \in {0, r.sent} /\ (s.sent > 0 => s.left = r.left)
      /\ LocksMain(s) <=> LocksMain(r)
      /\ DrainedMain(s) <=> DrainedMain(r)
      /\ ClosesMain(s) <=> ClosesMain(r)
      /\ \A p \in 1 .. Subs :
           /\ LocksSub(s, p) <=> LocksSub(r, p)
           /\ LockedSub(s, p) =>
                LockedSub(r, p) \/ (Head(r.left) = "DB_LOCK" /\ p = q)
           /\ ClosesSub(s, p) <=> ClosesSub(r, p)
           /\ p # q => (Awaits(s, p) <=> Awaits(r, p))
  <2>1. q = r.got + 1 /\ s = TakenJob(r)
    BY <1>q, <1>r, <1>s
  <2> QED BY <2>1, <1>1, AnsweredJob
<1>3. MaintenanceTyped'
  <2>1. DOMAIN manager' = Managers /\ \A o \in Managers : IsJob(manager'[o])
    BY <1>0, <1>1, <1>2
  <2> QED BY <2>1, <1>0, <1>1, <1>n DEF MaintenanceTyped, NoneEnter
<1>4. \A o \in Managers : Sole(o)' => Sole(o)
  <2>1. Sole(m)' => Sole(m)
    BY <1>1, <1>2, <1>r DEF Sole, At
  <2> QED BY <2>1, <1>1 DEF Sole, At
<1>5. Alone'
  <2>1. \A o \in Managers :
          manager'[o].sent = manager[o].sent \/ manager'[o].sent = 0
    BY <1>1, <1>2, <1>r
  <2> QED BY <2>1, <1>0, <1>4, AloneFrame
<1>6. MainIsLocked'
  <2>1. \A o \in Managers :
          /\ LocksMain(manager'[o]) <=> LocksMain(manager[o])
          /\ DrainedMain(manager'[o]) => DrainedMain(manager[o])
          /\ ClosesMain(manager'[o]) <=> ClosesMain(manager[o])
    BY <1>1, <1>2, <1>r
  <2>2. failures' \in Nat /\ failures' >= failures
    BY <1>0, <1>1
  <2> QED BY <2>1, <2>2, <1>0, <1>1, <1>n, MainFrame
<1>7. ASSUME NEW p \in 1 .. Subs
      PROVE  SubIsLocked(p)'
  <2>1. CASE p = q
    BY <2>1, <1>q, RecvReaches
  <2>2. CASE p # q
    <3>1. /\ crossed \subseteq crossed' /\ pipe'[p] = pipe[p]
          /\ answers'[p] = answers[p]
      BY <2>2, <1>1
    <3>2. Sole(m)' /\ Awaits(s, p) => Sole(m)
      BY <1>4
    <3>3. /\ LocksSub(s, p) <=> LocksSub(manager[m], p)
          /\ LockedSub(s, p) => LockedSub(manager[m], p)
          /\ ClosesSub(s, p) <=> ClosesSub(manager[m], p)
          /\ Awaits(s, p) <=> Awaits(manager[m], p)
      BY <2>2, <1>2, <1>r
    <3> QED BY <3>1, <3>2, <3>3, <1>1, <1>n, SubElsewhere
  <2> QED BY <2>1, <2>2
<1> QED BY <1>3, <1>5, <1>6, <1>7 DEF MInv

-----------------------------------------------------------------------------
(* The theorem.                                                            *)

LEMMA MInvInit == MaintenanceInit => MInv
<1> SUFFICES ASSUME MaintenanceInit
             PROVE  MInv
  OBVIOUS
<1>1. \A m \in Managers : manager[m] = NoCommand
  BY DEF MaintenanceInit
<1>2. IsJob(NoCommand) /\ Outside(NoCommand) /\ NoCommand.sent = 0
  BY NoCommandIsJob DEF NoCommand
<1>t. TransTyped /\ \A c \in Clients : trans[c].at = "idle"
  BY DEF TransTyped, MaintenanceInit, Idle
<1>e. \A x \in Procs : ~entered[x]
  <2>1. ASSUME NEW x \in Procs
        PROVE  ~Entered(trans, late)[x]
    BY <1>t, EnteredIn
  <2> QED BY <2>1 DEF entered
<1>3. MaintenanceTyped
  BY <1>1, <1>2, <1>t, MaintenanceAssumption
  DEF MaintenanceTyped, MaintenanceInit
<1>4. Alone
  BY <1>1, <1>2 DEF Alone
<1>5. MainIsLocked
  <2>1. MainHolders = {}
    BY <1>1, <1>2 DEF MainHolders, Outside
  <2>2. Cardinality(MainHolders) = 0
    BY <2>1, SomeManager
  <2>3. gates[Main] = 0 /\ open[Main] /\ ~entered[Main]
    BY <1>e DEF MaintenanceInit, Procs
  <2> QED BY <2>2, <2>3 DEF MainIsLocked
<1>6. ASSUME NEW p \in 1 .. Subs
      PROVE  SubIsLocked(p)
  <2>1. /\ pipe[p] = <<>> /\ answers[p] = 0 /\ manage[p] = "recv"
        /\ gates[p] = 0 /\ open[p] /\ ~entered[p]
    BY <1>e DEF MaintenanceInit, Procs
  <2>2. Waiting(p) = {} /\ Holders(p) = {}
    BY <1>1, <1>2 DEF Waiting, Holders, Outside
  <2>3. Cardinality(Waiting(p)) = 0 /\ Cardinality(Holders(p)) = 0
    BY <2>2, SomeManager
  <2>4. Len(pipe[p]) = 0
    BY <2>1
  <2>5. AnswersLeft(p)
    BY <2>1, <2>3, <2>4 DEF AnswersLeft
  <2>6. Balance(p, 0) = 0
    BY <2>1, GateIsInteger DEF Balance
  <2>7. GateCounts(p)
    <3>1. \A k \in 0 .. Len(pipe[p]) : k = 0
      BY <2>4
    <3> QED BY <3>1, <2>3, <2>4, <2>6 DEF GateCounts
  <2>8. StaysLocked(p)
    BY <1>1, <1>2 DEF StaysLocked, Outside
  <2>9. OwnAnswer(p)
    BY <1>1, <1>2 DEF OwnAnswer, Sole
  <2>10. ShutForACommand(p)
    <3>1. ~Shut(open[p], pipe[p])
      BY <2>1, <2>4 DEF Shut
    <3> QED BY <3>1 DEF ShutForACommand
  <2> QED BY <2>5, <2>7, <2>8, <2>9, <2>10 DEF SubIsLocked
<1> QED BY <1>3, <1>4, <1>5, <1>6 DEF MInv

LEMMA MInvStep == MInv /\ [MaintenanceNext]_maintenanceVars => MInv'
<1> SUFFICES ASSUME MInv, [MaintenanceNext]_maintenanceVars
             PROVE  MInv'
  OBVIOUS
<1>0. TransTyped
  BY MainTypes
<1>1. ASSUME NEW c \in Clients, PassGate(c) \/ TransGoesOn(c)
      PROVE  MInv'
  <2>1. CASE PassGate(c)
    <3>1. Home[c] \in Procs
      BY <2>1, <1>0, PassingEnters
    <3>2. Home[c] = Main \/ Home[c] \in 1 .. Subs
      BY <3>1 DEF Procs
    <3> QED BY <3>2, <2>1, MainPasses, SubPasses
  <2>2. CASE TransGoesOn(c)
    <3>1. NoneEnter
      BY <2>2, <1>0, GoingOnEnters
    <3>2. /\ given' = given /\ manager' = manager /\ pipe' = pipe
          /\ answers' = answers /\ manage' = manage /\ gates' = gates
          /\ open' = open /\ failures' = failures /\ crossed' = crossed
      BY <2>2 DEF TransGoesOn, Begin, CannotBegin, RetryLater, EndTransaction
    <3> QED BY <3>1, <3>2, QuietStep
  <2> QED BY <1>1, <2>1, <2>2
<1>2. ASSUME NEW p \in 1 .. Subs, SubManages(p) \/ SubFails(p)
      PROVE  MInv'
  BY <1>2, SubLockStep, SubDrainedStep, SubUnlockStep, SubOpenStep,
     SubNotifiedStep, SubFailsStep DEF SubManages
<1>3. ASSUME NEW m \in Managers, ManagerRuns(m)
      PROVE  MInv'
  BY <1>3, MainStep, SendStep, RecvStep DEF ManagerRuns
<1>4. ASSUME NEW m \in Managers, OpenFails(m)
      PROVE  MInv'
  BY <1>4, OpenFailsStep
<1>5. ASSUME NEW m \in Managers, NEW c \in Commands, StartCommand(m, c)
      PROVE  MInv'
  BY <1>5, StartStep
<1>6. CASE UNCHANGED maintenanceVars
  <2>1. /\ given' = given /\ manager' = manager /\ pipe' = pipe
        /\ answers' = answers /\ manage' = manage /\ gates' = gates
        /\ open' = open /\ transVars' = transVars /\ failures' = failures
        /\ crossed' = crossed
    BY <1>6 DEF maintenanceVars
  <2>2. NoneEnter
    BY <2>1, <1>0, NoneEnterSame
  <2> QED BY <2>1, <2>2, QuietStep
<1> QED BY <1>1, <1>2, <1>3, <1>4, <1>5, <1>6 DEF MaintenanceNext

LEMMA MInvSafe == MInv => MaintenanceSafe
<1> SUFFICES ASSUME MInv
             PROVE  MaintenanceSafe
  OBVIOUS
<1>0. /\ MainIsLocked /\ gates[Main] \in Nat
      /\ \A m \in Managers : IsJob(manager[m])
  BY MainTypes
<1>1. WorksOnLockedDatabase
  <2>1. ASSUME NEW m \in Managers, At(m, "work"), m \notin crossed
        PROVE  \A x \in Procs : gates[x] > 0 /\ ~entered[x]
    <3>r. PICK r : r = manager[m]
      OBVIOUS
    <3>1. IsJob(r) /\ r.left # <<>> /\ Head(r.left) = "work"
      BY <3>r, <2>1, <1>0 DEF At
    <3>2. r.cmd \in Lockers /\ Pos(r) \in 4 .. 6 /\ Pos(r) < UnlockAt(r)
      BY <3>1, StepPlaces
    <3>3. UnlockAt(r) \in {5, 9}
      BY DEF UnlockAt
    <3>4. LocksMain(r) /\ DrainedMain(r)
      BY <3>2, <3>3 DEF LocksMain, DrainedMain
    <3>5. gates[Main] > 0 /\ ~entered[Main]
      <4>1. m \in MainHolders /\ MainHolders \subseteq Managers
        BY <3>4, <3>r DEF MainHolders
      <4>2. PICK A : A = MainHolders
        OBVIOUS
      <4>3. Cardinality(A) \in Nat /\ (A = {} <=> Cardinality(A) = 0)
        BY <4>1, <4>2, SomeManager
      <4>4. Cardinality(A) # 0
        BY <4>1, <4>2, <4>3
      <4>5. gates[Main] >= Cardinality(A)
        BY <4>2, <1>0 DEF MainIsLocked
      <4>6. gates[Main] > 0
        BY <4>3, <4>4, <4>5, <1>0
      <4> QED BY <4>6, <3>4, <3>r, <1>0 DEF MainIsLocked
    <3>6. ASSUME NEW p \in 1 .. Subs
          PROVE  gates[p] > 0 /\ ~entered[p]
      <4>1. LockedSub(r, p)
        BY <3>2, <3>3 DEF LockedSub, UnlocksSub
      <4>2. StaysLocked(p) /\ gates[p] \in Nat /\ pipe[p] \in Seq(PipeMessages)
        BY SubTypes DEF SubIsLocked
      <4>3. 0 \in 0 .. Len(pipe[p])
        BY <4>2
      <4>4. ~entered[p] /\ Balance(p, 0) >= 1
        BY <4>1, <4>2, <4>3, <3>r, <2>1 DEF StaysLocked
      <4>5. Balance(p, 0) = gates[p]
        BY <4>2, GateIsInteger DEF Balance
      <4> QED BY <4>2, <4>4, <4>5
    <3> QED BY <3>5, <3>6 DEF Procs
  <2>2. ASSUME NEW m \in Managers, At(m, "work"), m \notin crossed,
               NEW c \in Clients, trans[c].at # "idle"
        PROVE  c \in late
    <3>1. Home[c] \in Procs
      BY MaintenanceAssumption
    <3>2. ~Entered(trans, late)[Home[c]]
      BY <3>1, <2>1, <2>2 DEF entered
    <3> QED BY <3>1, <3>2, <2>2, EnteredIn
  <2> QED BY <2>1, <2>2 DEF WorksOnLockedDatabase
<1>2. AnswersAddUp
  <2>1. ASSUME NEW p \in 1 .. Subs, manage[p] # "dead"
        PROVE  Len(pipe[p]) + answers[p] + (IF manage[p] = "drain" THEN 1 ELSE 0) =
                 Cardinality({m \in Managers :
                                manager[m].sent >= p /\ manager[m].got < p})
    <3>1. AnswersLeft(p) /\ manage[p] \in {"recv", "drain", "dead"}
      BY DEF MInv, SubIsLocked, MaintenanceTyped
    <3>2. (IF manage[p] = "drain" THEN 1 ELSE 0) =
             IF manage[p] = "recv" THEN 0 ELSE 1
      BY <3>1, <2>1
    <3>3. Waiting(p) = {m \in Managers :
                          manager[m].sent >= p /\ manager[m].got < p}
      BY DEF Waiting, Awaits
    <3> QED BY <3>1, <3>2, <3>3 DEF AnswersLeft
  <2> QED BY <2>1 DEF AnswersAddUp
<1>3. GatesAreReleased
  <2>1. ASSUME \A m \in Managers : manager[m] = NoCommand, failures = 0
        PROVE  \A x \in Procs : gates[x] = 0 /\ open[x]
    <3>1. Outside(NoCommand)
      BY NoCommandIsJob
    <3>2. gates[Main] = 0 /\ open[Main]
      <4>1. MainHolders = {}
        BY <2>1, <3>1 DEF MainHolders, Outside
      <4>2. Cardinality(MainHolders) = 0
        BY <4>1, SomeManager
      <4>3. \A m \in Managers : ~ClosesMain(manager[m])
        BY <2>1, <3>1 DEF Outside
      <4> QED BY <4>2, <4>3, <2>1, <1>0 DEF MainIsLocked
    <3>3. ASSUME NEW p \in 1 .. Subs
          PROVE  gates[p] = 0 /\ open[p]
      <4>1. \A m \in Managers : ~Awaits(manager[m], p) /\ ~ClosesSub(manager[m], p)
        BY <2>1, <3>1 DEF Outside
      <4>2. pipe[p] = <<>>
        BY <4>1, NobodyAwaits
      <4>3. Holders(p) = {}
        BY <2>1, <3>1 DEF Holders, Outside
      <4>4. Cardinality(Holders(p)) = 0
        BY <4>3, SomeManager
      <4>5. GateCounts(p) /\ ShutForACommand(p) /\ gates[p] \in Nat /\ open[p] \in BOOLEAN
        BY SubTypes DEF SubIsLocked
      <4>6. Len(pipe[p]) = 0
        BY <4>2
      <4>7. Balance(p, 0) = 0
        BY <4>4, <4>5, <4>6, <2>1 DEF GateCounts
      <4>8. gates[p] = 0
        BY <4>5, <4>7, GateIsInteger DEF Balance
      <4>9. ~Shut(open[p], pipe[p])
        BY <4>1, <4>5, <2>1 DEF ShutForACommand
      <4>10. open[p]
        BY <4>5, <4>6, <4>9 DEF Shut
      <4> QED BY <4>8, <4>10
    <3> QED BY <3>2, <3>3 DEF Procs
  <2> QED BY <2>1 DEF GatesAreReleased
<1> QED BY <1>1, <1>2, <1>3 DEF MaintenanceSafe

\* The invariant that the proof needs: every gate counts the commands that hold
\* it, what is in the pipes included, every answer on the way is awaited, and
\* whoever is in a transaction of a process that a command has locked is late
\* (_db.lock, _db.get_transaction, Transaction._retry).
THEOREM MaintenanceInvariance == MaintenanceSpec => []MInv
BY MInvInit, MInvStep, PTL DEF MaintenanceSpec

\* Whatever the number of management threads, sub-processes, commands and
\* transactions, a command works on a database that every process has locked
\* against all transactions but the late ones, every answer is awaited and no
\* gate stays closed (services.lock_db, BaseServer.send).
THEOREM MaintenanceIsSafe == MaintenanceSpec => []MaintenanceSafe
BY MaintenanceInvariance, MInvSafe, PTL
=============================================================================
