---------------------------- MODULE SharedQueue -----------------------------
(***************************************************************************)
(* The queue in shared memory between the processes of a server            *)
(* (core.servicetypes.asyncserver, init_queue), used where sockets cannot  *)
(* be handed to another process.                                           *)
(*                                                                         *)
(* An array of slots holds the messages in chunks.  A message belongs to a *)
(* file number, and the chunks that follow each other with the same file   *)
(* number are taken for one message.  The array's lock is held during get  *)
(* and put but not while a thread waits for item_pushed or item_popped:    *)
(* what a thread does between two waits is one step.                       *)
(***************************************************************************)
EXTENDS Integers, Sequences, FiniteSets

CONSTANTS
  Putters,    \* the threads that put messages
  Getters,    \* the threads that get messages
  Files,      \* the messages: a sequence of the file number of each
  Capacity    \* bound: the slots of the array

EndOfFile == -1   \* the file number of the sentinel

\* 0 is the standard input of the server and no connection.
ASSUME SharedQueueAssumption ==
  /\ IsFiniteSet(Putters) /\ IsFiniteSet(Getters)
  /\ Putters \cap Getters = {}
  /\ Files \in Seq((Nat \ {0}) \cup {EndOfFile})
  /\ Capacity \in Nat \ {0}

Messages == DOMAIN Files
NoMessage == 0

VARIABLES
  size,      \* the chunks of each message
  unsent,    \* the messages that nobody has begun to put
  putting,   \* the message that a thread puts
  slots,     \* the array
  qsize,     \* qsize.value
  qlock,     \* "free", or "lost" when a thread ended in its critical section
  qstate,    \* each thread
  received   \* the messages got, each as the sequence of its chunks

queueVars ==
  <<size, unsent, putting, slots, qsize, qlock, qstate, received>>

Chunk == [msg : Messages, part : 1 .. Capacity]
Blank == [msg |-> NoMessage, part |-> 1]

\* The file number of a slot: 0 in an array that was never written.
FileOf(chunk) == IF chunk.msg = NoMessage THEN 0 ELSE Files[chunk.msg]

QueueTypeOK ==
  /\ size \in [Messages -> 1 .. Capacity + 1]
  /\ unsent \subseteq Messages
  /\ putting \in [Putters -> Messages \cup {NoMessage}]
  /\ slots \in [1 .. Capacity -> Chunk \cup {Blank}]
  /\ qsize \in 0 .. Capacity
  /\ qlock \in {"free", "lost"}
  /\ qstate \in [Putters \cup Getters -> {"idle", "ready", "asleep", "ended"}]
  /\ received \in Seq(Seq(Chunk))

\* A request or a response has content; it may be larger than the array.
QueueInit ==
  /\ size \in [Messages -> 1 .. Capacity + 1]
  /\ \A m \in Messages : Files[m] = EndOfFile => size[m] = 1
  /\ unsent = Messages
  /\ putting = [p \in Putters |-> NoMessage]
  /\ slots = [i \in 1 .. Capacity |-> Blank]
  /\ qsize = 0
  /\ qlock = "free"
  /\ qstate = [t \in Putters \cup Getters |->
                IF t \in Putters THEN "idle" ELSE "ready"]
  /\ received = <<>>

-----------------------------------------------------------------------------
Sleeping(T) == {t \in T : qstate[t] = "asleep"}

MutantNotify(T, mine, next) == qstate' = [qstate EXCEPT ![mine] = next]

\* Condition.notify: one of the threads that sleep is woken, whichever; the
\* thread itself goes on to next.
Notify(T, mine, next) ==
  \/ /\ Sleeping(T) = {}
     /\ qstate' = [qstate EXCEPT ![mine] = next]
  \/ \E t \in Sleeping(T) :
       qstate' = [qstate EXCEPT ![t] = "ready", ![mine] = next]

MutantUnderway(f) ==
  \E i \in 1 .. qsize : slots[i].part > 1 /\ FileOf(slots[i]) = f

\* The message of a file number that is not yet got: a connection has one
\* request at a time, and the next one only when it has the response.
Underway(f) ==
  \/ \E p \in Putters : putting[p] # NoMessage /\ Files[putting[p]] = f
  \/ \E i \in 1 .. qsize : FileOf(slots[i]) = f

BeginPut(p, m) ==
  /\ qstate[p] = "idle"
  /\ m \in unsent
  /\ Files[m] # EndOfFile => ~Underway(Files[m])
  /\ unsent' = unsent \ {m}
  /\ putting' = [putting EXCEPT ![p] = m]
  /\ qstate' = [qstate EXCEPT ![p] = "ready"]
  /\ UNCHANGED <<size, slots, qsize, qlock, received>>

MutantFits(m) == qsize + 1 <= Capacity

Fits(m) == qsize + size[m] <= Capacity

\* The lock is taken and the message does not fit.
PutWaits(p) ==
  /\ qstate[p] = "ready" /\ qlock = "free"
  /\ ~Fits(putting[p])
  /\ qstate' = [qstate EXCEPT ![p] = "asleep"]
  /\ UNCHANGED <<size, unsent, putting, slots, qsize, qlock, received>>

PutChunks(p) ==
  LET m == putting[p] IN
  /\ qstate[p] = "ready" /\ qlock = "free"
  /\ Fits(m)
  /\ slots' = [i \in 1 .. Capacity |->
                 IF i \in qsize + 1 .. qsize + size[m]
                 THEN [msg |-> m, part |-> i - qsize] ELSE slots[i]]
  /\ qsize' = qsize + size[m]
  /\ putting' = [putting EXCEPT ![p] = NoMessage]
  /\ Notify(Getters, p, "idle")
  /\ UNCHANGED <<size, unsent, qlock, received>>

-----------------------------------------------------------------------------
\* The slots from the first that have its file number.  A sentinel is alone.
SameFile(n) ==
  \A i \in 1 .. n : FileOf(slots[i]) = FileOf(slots[1])

MutantTaken == IF FileOf(slots[1]) > 0
               THEN CHOOSE n \in 1 .. Capacity :
                      /\ SameFile(n)
                      /\ n = Capacity \/ FileOf(slots[n + 1]) # FileOf(slots[1])
               ELSE 1

\* The number of slots that get takes.
Taken ==
  IF FileOf(slots[1]) > 0
  THEN CHOOSE n \in 1 .. qsize : SameFile(n) /\ (n = qsize \/ ~SameFile(n + 1))
  ELSE 1

\* The loop looks at the next slot before it asks whether there is one.
PastTheEnd ==
  qsize = Capacity /\ FileOf(slots[1]) > 0 /\ SameFile(Capacity)

GetWaits(g) ==
  /\ qstate[g] = "ready" /\ qlock = "free"
  /\ qsize = 0
  /\ qstate' = [qstate EXCEPT ![g] = "asleep"]
  /\ UNCHANGED <<size, unsent, putting, slots, qsize, qlock, received>>

\* A thread that gets the sentinel ends.
GetChunks(g) ==
  /\ qstate[g] = "ready" /\ qlock = "free"
  /\ qsize > 0
  /\ ~PastTheEnd
  /\ received' = Append(received, SubSeq(slots, 1, Taken))
  /\ slots' = [i \in 1 .. Capacity |->
                 IF i <= qsize - Taken THEN slots[i + Taken] ELSE slots[i]]
  /\ qsize' = qsize - Taken
  /\ Notify(Putters, g,
            IF FileOf(slots[1]) = EndOfFile THEN "ended" ELSE "ready")
  /\ UNCHANGED <<size, unsent, putting, qlock>>

\* The array raises IndexError and the thread ends with the lock.
GetFails(g) ==
  /\ qstate[g] = "ready" /\ qlock = "free"
  /\ qsize > 0
  /\ PastTheEnd
  /\ qlock' = "lost"
  /\ qstate' = [qstate EXCEPT ![g] = "ended"]
  /\ UNCHANGED <<size, unsent, putting, slots, qsize, received>>

Putter(p) == PutWaits(p) \/ PutChunks(p)
Getter(g) == GetWaits(g) \/ GetChunks(g) \/ GetFails(g)

QueueNext ==
  \/ \E p \in Putters : Putter(p) \/ \E m \in Messages : BeginPut(p, m)
  \/ \E g \in Getters : Getter(g)

\* The operating system runs every thread that can go on.
QueueFairness ==
  /\ \A p \in Putters : WF_queueVars(Putter(p))
  /\ \A g \in Getters : WF_queueVars(Getter(g))

QueueSpec == QueueInit /\ [][QueueNext]_queueVars /\ QueueFairness
-----------------------------------------------------------------------------
(* Properties.                                                             *)

Whole(m) == [i \in 1 .. size[m] |-> [msg |-> m, part |-> i]]

\* The message that the chunks are, NoMessage when they are not one.
MessageOf(chunks) ==
  IF chunks = Whole(chunks[1].msg) THEN chunks[1].msg ELSE NoMessage

FirstChunk(m) == [msg |-> m, part |-> 1]

\* The messages whose first chunk is in the queue, and those of them that come
\* no later than m.
InSlots == {m \in Messages : \E i \in 1 .. qsize : slots[i] = FirstChunk(m)}
UpTo(m) ==
  {k \in InSlots : \E i, j \in 1 .. qsize :
     i <= j /\ slots[i] = FirstChunk(k) /\ slots[j] = FirstChunk(m)}

\* The n-th message of the queue.
Nth(n) == CHOOSE m \in InSlots : Cardinality(UpTo(m)) = n

Unput == unsent \cup ({putting[p] : p \in Putters} \ {NoMessage})
InQueue == [n \in 1 .. Cardinality(InSlots) |-> Nth(n)]
Delivered == [i \in DOMAIN received |-> MessageOf(received[i])]

\* The queue implements a queue of whole messages (get and put).
Fifo == INSTANCE MessageQueue WITH
  unput <- Unput, inQueue <- InQueue, delivered <- Delivered

MessagesStayWhole == Fifo!FifoSpec

\* The lock is lost only to a message that fills the array by itself.
LockLostToFullMessage ==
  qlock = "lost" => \E m \in Messages : size[m] = Capacity /\ slots = Whole(m)

\* No later put can end: the lock is lost, a message that is larger than the
\* array waits and takes the notifications of the others, or nobody gets.
Stuck ==
  \/ qlock = "lost"
  \/ \E p \in Putters : putting[p] # NoMessage /\ size[putting[p]] > Capacity
  \/ \A g \in Getters : qstate[g] = "ended"

\* A thread that puts a message is not left asleep, whoever else is notified.
\* (A ~> ~A \/ B is written []<>(~A \/ B), which is the same.)
PutsEnd == \A p \in Putters : []<>(qstate[p] = "idle" \/ Stuck)

\* Everything that was put is got.
PutsAreReceived == []<>(qsize = 0 \/ Stuck)
=============================================================================
