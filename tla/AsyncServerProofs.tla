------------------------- MODULE AsyncServerProofs -------------------------
(***************************************************************************)
(* Proofs about AsyncServer for any number of workers and connections.     *)
(* Invariance and the theorems after it assume that a response is written  *)
(* in one call, as the mod_python and wsgi interfaces do.                  *)
(***************************************************************************)
EXTENDS AsyncServer, FiniteSetTheorems, SequenceTheorems, TLAPS

Live == main.at \in {"running", "stopping"}

\* The handler has a request and no response yet, and is marked or about to.
Ready(h) ==
  /\ h \in Known
  /\ conn[h] # None
  /\ input[h] = conn[h]
  /\ output[h] = <<>>
  /\ hasRequest[h] \/ (poll.at = "mark" /\ poll.rh = h)

FreeInv ==
  /\ \A i, j \in DOMAIN free : free[i] = free[j] => i = j
  /\ \A i \in DOMAIN free : /\ conn[free[i]] = None
                            /\ input[free[i]] = None
                            /\ output[free[i]] = <<>>

ConnInv ==
  /\ \A g, h \in Known : conn[g] = conn[h] /\ conn[g] # None => g = h
  /\ \A h \in Known : conn[h] # None => client[conn[h]] = "open"
  /\ \A h \in Known : input[h] \in {None, conn[h]}
  /\ \A h \in Known : output[h] # <<>> =>
       hasRequest[h] \/ (poll.at = "mark" /\ poll.rh = h)

QueueInv ==
  Live =>
    /\ \A i \in DOMAIN queue : queue[i] # Sentinel => Ready(queue[i])
    /\ \A i, j \in DOMAIN queue :
         queue[i] = queue[j] /\ queue[i] # Sentinel => i = j

PollInv ==
  poll.at = "put" /\ Live =>
    /\ conn[poll.rh] # None
    /\ input[poll.rh] = conn[poll.rh]
    /\ output[poll.rh] = <<>>
    /\ ~hasRequest[poll.rh]

WorkerInv ==
  /\ ~Live => \A w \in Workers : worker[w].at = "stopped"
  /\ \A w \in Serving :
       /\ Ready(worker[w].rh)
       /\ worker[w].req = conn[worker[w].rh]
       /\ \A v \in Serving : worker[v].rh = worker[w].rh => v = w
       /\ \A i \in DOMAIN queue : queue[i] # worker[w].rh

IInv == TypeOK /\ FreeInv /\ ConnInv /\ QueueInv /\ PollInv /\ WorkerInv

-----------------------------------------------------------------------------
(* Sequences.                                                              *)

\* What Append does to the length, the domain and the elements.
LEMMA AppendFacts ==
  ASSUME NEW S, NEW s \in Seq(S), NEW e \in S
  PROVE  /\ Append(s, e) \in Seq(S)
         /\ Len(Append(s, e)) = Len(s) + 1
         /\ DOMAIN Append(s, e) = 1 .. Len(s) + 1
         /\ \A i \in 1 .. Len(s) : Append(s, e)[i] = s[i]
         /\ Append(s, e)[Len(s) + 1] = e
  OBVIOUS

\* What Head and Tail do to a sequence that is not empty.
LEMMA TailFacts ==
  ASSUME NEW S, NEW s \in Seq(S), s # <<>>
  PROVE  /\ Head(s) \in S
         /\ Head(s) = s[1]
         /\ 1 \in DOMAIN s
         /\ DOMAIN s = 1 .. Len(s)
         /\ Tail(s) \in Seq(S)
         /\ Len(Tail(s)) = Len(s) - 1
         /\ DOMAIN Tail(s) = 1 .. Len(s) - 1
         /\ \A i \in 1 .. Len(s) - 1 : Tail(s)[i] = s[i + 1]
  OBVIOUS

\* A sequence over a set is a sequence over every larger set.
LEMMA SeqMono ==
  ASSUME NEW S, NEW T, S \subseteq T, NEW s \in Seq(S)
  PROVE  s \in Seq(T)
  OBVIOUS

\* Append to a function on 1 .. n.
LEMMA AppendFcn ==
  ASSUME NEW S, NEW n \in Nat, NEW f \in [1 .. n -> S], NEW e \in S
  PROVE  /\ Append(f, e) \in [1 .. n + 1 -> S]
         /\ \A i \in 1 .. n : Append(f, e)[i] = f[i]
         /\ Append(f, e)[n + 1] = e
<1>1. f \in Seq(S)
  BY SeqDef
<1>2. Len(f) = n
  BY <1>1
<1>3. Append(f, e) \in [1 .. n + 1 -> S]
  <2>1. /\ Append(f, e) \in Seq(S)
        /\ Len(Append(f, e)) = n + 1
    BY <1>1, <1>2, AppendFacts
  <2> DEFINE g == Append(f, e)
  <2> HIDE DEF g
  <2>2. g \in Seq(S) /\ Len(g) = n + 1
    BY <2>1 DEF g
  <2>3. g \in [1 .. n + 1 -> S]
    BY <2>2, LenProperties
  <2> QED
    BY <2>3 DEF g
<1> QED
  BY <1>1, <1>2, <1>3, AppendFacts

\* The maxsize of the queue is a natural number.
LEMMA QueueSizeNat == Cardinality(Workers) \in Nat /\ QueueSize \in Nat
  BY AsyncServerAssumption, FS_CardinalityType DEF QueueSize

-----------------------------------------------------------------------------
(* Types.                                                                  *)

\* The initial state has the types.
LEMMA InitType == Init => TypeOK
  BY QueueSizeNat, AsyncServerAssumption
     DEF Init, TypeOK, WorkerState, Known, Idle, None, Sentinel

\* Close keeps the types of what it changes.
LEMMA CloseType ==
  ASSUME TypeOK, NEW h \in Known, Close(h)
  PROVE  /\ client' \in [Conns -> {"away", "open", "closed"}]
         /\ created' = created
         /\ conn' \in [Known -> Conns \cup {None}]
         /\ input' \in [Known -> Conns \cup {None}]
         /\ hasRequest' \in [Known -> BOOLEAN]
         /\ output' \in [Known -> Seq(Conns)]
         /\ free' \in Seq(Known)
<1>1. free \in Seq(Known)
  BY DEF TypeOK
<1>2. Append(free, h) \in Seq(Known)
  BY <1>1, AppendFacts
<1>3. output' \in [Known -> Seq(Conns)]
  BY DEF TypeOK, WorkerState, Close
<1> QED
  BY <1>2, <1>3 DEF TypeOK, WorkerState, Close

\* Every step keeps the types.
LEMMA TypeStep == TypeOK /\ [Next]_vars => TypeOK'
<1> SUFFICES ASSUME TypeOK, [Next]_vars PROVE TypeOK'
  OBVIOUS
<1>1. ASSUME NEW c \in Conns, Reset(c) PROVE TypeOK'
  BY <1>1 DEF TypeOK, WorkerState, Reset, handlers, Known
<1>2. ASSUME NEW c \in Conns, Accept(c), AcceptReusing(c) PROVE TypeOK'
  <2>1. free' \in Seq(Known) /\ Head(free) \in Known
    BY <1>2, TailFacts DEF TypeOK, WorkerState, AcceptReusing
  <2>2. /\ client' \in [Conns -> {"away", "open", "closed"}]
        /\ unread' \in [Conns -> {"request", "eof"}]
    BY <1>2 DEF TypeOK, WorkerState, Accept, AcceptReusing
  <2>3. conn' \in [Known -> Conns \cup {None}]
    BY <1>2, <2>1 DEF TypeOK, WorkerState, AcceptReusing
  <2> QED
    BY <1>2, <2>1, <2>2, <2>3 DEF TypeOK, WorkerState, Accept, AcceptReusing,
       Known
<1>3. ASSUME NEW c \in Conns, Accept(c), AcceptCreating(c) PROVE TypeOK'
  <2>1. /\ conn' \in [1 .. created + 1 -> Conns \cup {None}]
        /\ input' \in [1 .. created + 1 -> Conns \cup {None}]
    BY <1>3, AppendFcn DEF TypeOK, WorkerState, AcceptCreating, Known
  <2>2. hasRequest' \in [1 .. created + 1 -> BOOLEAN]
    BY <1>3, AppendFcn DEF TypeOK, WorkerState, AcceptCreating, Known
  <2>3. <<>> \in Seq(Conns)
    OBVIOUS
  <2>4. output' \in [1 .. created + 1 -> Seq(Conns)]
    BY <1>3, <2>3, AppendFcn DEF TypeOK, WorkerState, AcceptCreating, Known
  <2>5. Known \subseteq Known' /\ Known' = 1 .. created + 1 /\ created' \in Nat
    BY <1>3 DEF TypeOK, WorkerState, AcceptCreating, Known
  <2>6. free' \in Seq(Known') /\ queue' \in Seq(Known' \cup {Sentinel})
    BY <1>3, <2>5, SeqMono DEF TypeOK, WorkerState, Accept, AcceptCreating
  <2>7. /\ client' \in [Conns -> {"away", "open", "closed"}]
        /\ unread' \in [Conns -> {"request", "eof"}]
    BY <1>3 DEF TypeOK, WorkerState, Accept, AcceptCreating
  <2>8. /\ poll' \in [at : {"poll", "put", "mark", "ended"},
                      rh : Known' \cup {Sentinel}]
        /\ worker' \in [Workers -> WorkerState']
    BY <1>3, <2>5 DEF TypeOK, WorkerState, Accept
  <2> QED
    BY <1>3, <2>1, <2>2, <2>4, <2>5, <2>6, <2>7, <2>8 DEF TypeOK, WorkerState,
       Accept
<1>4. ASSUME NEW h \in Known, Receive(h) PROVE TypeOK'
  <2>1. conn[h] \in Conns
    BY <1>4 DEF TypeOK, WorkerState, Receive, Readable
  <2> QED
    BY <1>4, <2>1 DEF TypeOK, WorkerState, Receive, Known
<1>5. ASSUME NEW h \in Known, ReceiveEnd(h) PROVE TypeOK'
  <2>1. CASE Close(h) /\ UNCHANGED poll
    BY <1>5, <2>1, CloseType DEF TypeOK, WorkerState, ReceiveEnd, Known
  <2>2. CASE poll' = [at |-> "put", rh |-> h] /\ UNCHANGED <<client, handlers>>
    BY <1>5, <2>2 DEF TypeOK, WorkerState, ReceiveEnd, Known, handlers
  <2> QED
    BY <1>5, <2>1, <2>2 DEF ReceiveEnd
<1>6. ASSUME NEW h \in Known, Send(h) PROVE TypeOK'
  <2>1. PICK n \in 1 .. Len(output[h]) :
          /\ got' = [got EXCEPT ![conn[h]] = @ \o SubSeq(output[h], 1, n)]
          /\ \/ SentAll(h, n) /\ Close(h)
             \/ /\ ~SentAll(h, n)
                /\ output' = [output EXCEPT ![h] = SubSeq(@, n + 1, Len(@))]
                /\ UNCHANGED <<client, created, conn, input, hasRequest, free>>
    BY <1>6 DEF Send
  <2>2. output[h] \in Seq(Conns) /\ conn[h] \in Conns /\ got[conn[h]] \in Seq(Conns)
    BY <1>6 DEF TypeOK, WorkerState, Send
  <2>3. SubSeq(output[h], 1, n) \in Seq(Conns)
    BY <2>1, <2>2
  <2>4. SubSeq(output[h], n + 1, Len(output[h])) \in Seq(Conns)
    BY <2>1, <2>2
  <2>5. got' \in [Conns -> Seq(Conns)]
    BY <2>1, <2>2, <2>3 DEF TypeOK
  <2>6. CASE Close(h)
    BY <1>6, <2>5, <2>6, CloseType DEF TypeOK, WorkerState, Send, Known
  <2>7. CASE /\ output' = [output EXCEPT ![h] = SubSeq(@, n + 1, Len(@))]
             /\ UNCHANGED <<client, created, conn, input, hasRequest, free>>
    BY <1>6, <2>4, <2>5, <2>7 DEF TypeOK, WorkerState, Send, Known
  <2> QED
    BY <2>1, <2>6, <2>7
<1>7. ASSUME NEW h \in Known, SendError(h) PROVE TypeOK'
  BY <1>7, CloseType DEF TypeOK, WorkerState, SendError, Known
<1>8. CASE PutRequest
  <2>1. poll.rh \in Known \cup {Sentinel}
    BY DEF TypeOK
  <2>2. /\ queue' \in Seq(Known \cup {Sentinel})
        /\ Len(queue') <= QueueSize
    BY <1>8, <2>1, AppendFacts, QueueSizeNat DEF TypeOK, WorkerState,
       PutRequest
  <2> QED
    BY <1>8, <2>2 DEF TypeOK, WorkerState, PutRequest, clients, handlers, Known
<1>9. CASE Mark
  BY <1>9 DEF TypeOK, WorkerState, Mark, clients, Known
<1>10. CASE EndLoop
  BY <1>10 DEF TypeOK, WorkerState, EndLoop, clients, handlers, Known
<1>11. ASSUME NEW w \in Workers, Take(w) PROVE TypeOK'
  <2>1. /\ Head(queue) \in Known
        /\ queue' \in Seq(Known \cup {Sentinel})
        /\ Len(queue') <= QueueSize
    BY <1>11, TailFacts, QueueSizeNat DEF TypeOK, WorkerState, Take
  <2>2. Writes \in 0 .. Writes
    BY AsyncServerAssumption
  <2> QED
    <3>1. input[Head(queue)] \in Conns \cup {None}
      BY <2>1 DEF TypeOK
    <3> DEFINE r == [at |-> "serving", rh |-> Head(queue),
                     req |-> input[Head(queue)], left |-> Writes]
    <3>2. /\ r \in WorkerState
          /\ r.rh \in Known /\ r.left > 0
      BY <2>1, <2>2, <3>1, AsyncServerAssumption DEF WorkerState
    <3>3. worker' = [worker EXCEPT ![w] = r]
      BY <1>11 DEF Take
    <3> HIDE DEF r
    <3>4. /\ worker' \in [Workers -> WorkerState]
          /\ \A v \in Workers : worker'[v].at = "serving" =>
               worker'[v].rh \in Known /\ worker'[v].left > 0
      BY <3>2, <3>3 DEF TypeOK
    <3> QED
      BY <1>11, <2>1, <3>4 DEF TypeOK, WorkerState, Take, clients, handlers,
         Known
<1>12. ASSUME NEW w \in Workers, Stop(w) PROVE TypeOK'
  <2>1. /\ queue' \in Seq(Known \cup {Sentinel})
        /\ Len(queue') <= QueueSize
    BY <1>12, TailFacts, QueueSizeNat DEF TypeOK, WorkerState, Stop
  <2>2. /\ worker' \in [Workers -> WorkerState]
        /\ \A v \in Workers : worker'[v].at = "serving" => worker'[v] = worker[v]
    <3>1. worker' = [worker EXCEPT ![w] = [worker[w] EXCEPT !.at = "stopped"]]
      BY <1>12 DEF Stop
    <3>2. worker[w] \in WorkerState
      BY DEF TypeOK
    <3>3. /\ [worker[w] EXCEPT !.at = "stopped"].at = "stopped"
          /\ [worker[w] EXCEPT !.at = "stopped"] \in WorkerState
      BY <3>2 DEF WorkerState
    <3> QED
      BY <3>1, <3>3 DEF TypeOK
  <2> QED
    BY <1>12, <2>1, <2>2 DEF TypeOK, WorkerState, Stop, clients, handlers,
       Known
<1>13. ASSUME NEW w \in Workers, WriteBuffer(w) PROVE TypeOK'
  <2>1. /\ worker[w].rh \in Known \cup {Sentinel}
        /\ worker[w].req \in Conns
        /\ worker[w].left \in 0 .. Writes
    BY <1>13 DEF TypeOK, WorkerState, WriteBuffer
  <2>2. [i \in 1 .. Size |-> worker[w].req] \in Seq(Conns)
    BY <2>1, AsyncServerAssumption
  <2>3. output' \in [Known -> Seq(Conns)]
    BY <1>13, <2>2 DEF TypeOK, WorkerState, WriteBuffer
  <2>4. /\ Served(w) \in WorkerState
        /\ Served(w).at = "serving" =>
             Served(w).rh \in Known /\ Served(w).left > 0
    <3>1. CASE worker[w].left = 1
      BY <3>1, AsyncServerAssumption DEF Served, WorkerState, Idle, Sentinel
    <3>2. CASE worker[w].left # 1
      <4>1. worker[w].left > 0 /\ worker[w].left - 1 \in 1 .. Writes
        BY <1>13, <2>1, <3>2, AsyncServerAssumption DEF TypeOK, WorkerState,
           WriteBuffer
      <4> QED
        <5>1. worker[w] \in WorkerState
          BY DEF TypeOK
        <5>2. worker[w].rh \in Known
          BY <1>13 DEF TypeOK, WorkerState, WriteBuffer
        <5> QED
          BY <3>2, <4>1, <5>1, <5>2 DEF Served, WorkerState
    <3> QED
      BY <3>1, <3>2
  <2>5. /\ worker' \in [Workers -> WorkerState]
        /\ \A v \in Workers : worker'[v].at = "serving" =>
             worker'[v].rh \in Known /\ worker'[v].left > 0
    BY <1>13, <2>4 DEF TypeOK, WorkerState, WriteBuffer
  <2> QED
    BY <1>13, <2>3, <2>5 DEF TypeOK, WorkerState, WriteBuffer, clients, Known
<1>14. ASSUME NEW w \in Workers, Fail(w) PROVE TypeOK'
  <2>2. worker[w].rh \in Known
    BY <1>14 DEF TypeOK, WorkerState, Fail
  <2>3. /\ worker' \in [Workers -> WorkerState]
        /\ \A v \in Workers : worker'[v].at = "serving" =>
             worker'[v].rh \in Known /\ worker'[v].left > 0
    BY <1>14, AsyncServerAssumption DEF TypeOK, WorkerState, Fail, Idle,
       Sentinel
  <2>4. Close(worker[w].rh)
    BY <1>14 DEF Fail
  <2> QED
    BY <1>14, <2>2, <2>3, <2>4, CloseType DEF TypeOK, WorkerState, Fail, Known
<1>15. CASE Shutdown
  BY <1>15, QueueSizeNat DEF TypeOK, WorkerState, Shutdown, Sentinels, clients,
     handlers, Known
<1>16. CASE PutSentinel
  <2>1. /\ queue' \in Seq(Known \cup {Sentinel})
        /\ Len(queue') <= QueueSize
    BY <1>16, AppendFacts, QueueSizeNat DEF TypeOK, WorkerState, PutSentinel
  <2>2. main' \in [at : {"running", "stopping", "closing", "ended"},
                   toPut : 0 .. Cardinality(Workers)]
    <3>1. main.toPut - 1 \in 0 .. Cardinality(Workers)
      BY <1>16, QueueSizeNat DEF TypeOK, WorkerState, PutSentinel
    <3> QED
      BY <1>16, <3>1 DEF TypeOK, WorkerState, PutSentinel
  <2> QED
    BY <1>16, <2>1, <2>2 DEF TypeOK, WorkerState, PutSentinel, clients,
       handlers, Known
<1>17. CASE Join
  BY <1>17 DEF TypeOK, WorkerState, Join, clients, handlers, Known
<1>18. ASSUME NEW h \in Known, CloseNext(h) PROVE TypeOK'
  BY <1>18, CloseType DEF TypeOK, WorkerState, CloseNext, Known
<1>19. CASE End
  BY <1>19 DEF TypeOK, WorkerState, End, clients, handlers, Known
<1>20. CASE UNCHANGED vars
  BY <1>20 DEF TypeOK, WorkerState, vars, clients, handlers, Known
<1> QED
  BY <1>1, <1>2, <1>3, <1>4, <1>5, <1>6, <1>7, <1>8, <1>9, <1>10, <1>11,
     <1>12, <1>13, <1>14, <1>15, <1>16, <1>17, <1>18, <1>19, <1>20
     DEF Next, Asyncore, Worker, Main, Accept

-----------------------------------------------------------------------------
(* What the steps do to the handlers.                                      *)

Same(g) ==
  /\ conn'[g] = conn[g]
  /\ input'[g] = input[g]
  /\ hasRequest'[g] = hasRequest[g]
  /\ output'[g] = output[g]

\* Close resets one handler and leaves the others alone.
LEMMA CloseFacts ==
  ASSUME TypeOK, NEW h \in Known, Close(h)
  PROVE  /\ Known' = Known
         /\ \A g \in Known \ {h} : Same(g)
         /\ conn'[h] = None
         /\ input'[h] = None
         /\ hasRequest'[h] = FALSE
         /\ output'[h] = <<>>
         /\ DOMAIN free = 1 .. Len(free)
         /\ Len(free) \in Nat
         /\ DOMAIN free' = 1 .. Len(free) + 1
         /\ \A i \in 1 .. Len(free) : free'[i] = free[i] /\ free[i] \in Known
         /\ free'[Len(free) + 1] = h
         /\ \A c \in Conns : c # conn[h] => client'[c] = client[c]
<1>1. free \in Seq(Known)
  BY DEF TypeOK
<1>2. /\ DOMAIN free = 1 .. Len(free)
      /\ Len(free) \in Nat
      /\ \A i \in 1 .. Len(free) : free[i] \in Known
  BY <1>1
<1>3. /\ DOMAIN free' = 1 .. Len(free) + 1
      /\ \A i \in 1 .. Len(free) : free'[i] = free[i]
      /\ free'[Len(free) + 1] = h
  BY <1>1, AppendFacts DEF Close
<1>4. /\ \A g \in Known \ {h} : Same(g)
      /\ conn'[h] = None
      /\ input'[h] = None
      /\ hasRequest'[h] = FALSE
      /\ output'[h] = <<>>
  BY DEF TypeOK, Close, Same
<1>5. \A c \in Conns : c # conn[h] => client'[c] = client[c]
  BY DEF TypeOK, Close
<1> QED
  BY <1>2, <1>3, <1>4, <1>5 DEF Close, Known

\* A new handler is clean and leaves the others alone.
LEMMA CreateFacts ==
  ASSUME TypeOK, NEW c \in Conns, AcceptCreating(c)
  PROVE  /\ \A g \in Known : Same(g)
         /\ conn'[created + 1] = c
         /\ input'[created + 1] = None
         /\ hasRequest'[created + 1] = FALSE
         /\ output'[created + 1] = <<>>
<1>0. created \in Nat
  BY DEF TypeOK
<1>1. (\A g \in 1 .. created : conn'[g] = conn[g]) /\ conn'[created + 1] = c
  BY <1>0, AppendFcn DEF TypeOK, AcceptCreating, Known
<1>2. /\ \A g \in 1 .. created : input'[g] = input[g]
      /\ input'[created + 1] = None
  BY <1>0, AppendFcn DEF TypeOK, AcceptCreating, Known
<1>3. /\ \A g \in 1 .. created : hasRequest'[g] = hasRequest[g]
      /\ hasRequest'[created + 1] = FALSE
  <2> DEFINE S == BOOLEAN
  <2> DEFINE e == FALSE
  <2>1. e \in S /\ hasRequest \in [1 .. created -> S]
    BY DEF TypeOK, Known
  <2>2. hasRequest' = Append(hasRequest, e)
    BY DEF AcceptCreating
  <2> HIDE DEF S, e
  <2>3. /\ \A g \in 1 .. created : hasRequest'[g] = hasRequest[g]
        /\ hasRequest'[created + 1] = e
    BY <2>1, <2>2, <1>0, AppendFcn
  <2> QED
    BY <2>3 DEF e
<1>4. /\ \A g \in 1 .. created : output'[g] = output[g]
      /\ output'[created + 1] = <<>>
  <2> DEFINE S == Seq(Conns)
  <2>1. <<>> \in S /\ output \in [1 .. created -> S]
    BY DEF TypeOK, Known
  <2>2. output' = Append(output, <<>>)
    BY DEF AcceptCreating
  <2> HIDE DEF S
  <2> QED
    BY <2>1, <2>2, <1>0, AppendFcn
<1> QED
  BY <1>1, <1>2, <1>3, <1>4 DEF Same, Known

\* Closing a handler that has a connection keeps the handlers in order.
LEMMA CloseKeeps ==
  ASSUME TypeOK, FreeInv, ConnInv, NEW h \in Known, conn[h] # None, Close(h),
         poll' = poll
  PROVE  FreeInv' /\ ConnInv'
<1>0. /\ Known' = Known
      /\ \A g \in Known \ {h} : Same(g)
      /\ conn'[h] = None /\ input'[h] = None
      /\ hasRequest'[h] = FALSE /\ output'[h] = <<>>
  BY CloseFacts
<1>f. /\ DOMAIN free = 1 .. Len(free)
      /\ Len(free) \in Nat
      /\ DOMAIN free' = 1 .. Len(free) + 1
      /\ \A i \in 1 .. Len(free) : free'[i] = free[i] /\ free[i] \in Known
      /\ free'[Len(free) + 1] = h
  BY CloseFacts
<1>c. \A c \in Conns : c # conn[h] => client'[c] = client[c]
  BY CloseFacts
<1>1. FreeInv'
  <2>1. \A i \in 1 .. Len(free) : free[i] # h
    BY <1>0, <1>f, <1>c DEF FreeInv
  <2>2. \A i, j \in DOMAIN free' : free'[i] = free'[j] => i = j
    <3> SUFFICES ASSUME NEW i \in 1 .. Len(free) + 1,
                        NEW j \in 1 .. Len(free) + 1, free'[i] = free'[j]
                 PROVE  i = j
      BY <1>0, <1>f, <1>c
    <3>1. CASE i \in 1 .. Len(free) /\ j \in 1 .. Len(free)
      BY <3>1, <1>0, <1>f, <1>c DEF FreeInv
    <3>2. CASE i = Len(free) + 1 \/ j = Len(free) + 1
      BY <2>1, <3>2, <1>0, <1>f, <1>c
    <3> QED
      BY <3>1, <3>2, <1>0, <1>f, <1>c
  <2>3. \A i \in DOMAIN free' : /\ conn'[free'[i]] = None
                                /\ input'[free'[i]] = None
                                /\ output'[free'[i]] = <<>>
    <3> SUFFICES ASSUME NEW i \in 1 .. Len(free) + 1
                 PROVE  /\ conn'[free'[i]] = None
                        /\ input'[free'[i]] = None
                        /\ output'[free'[i]] = <<>>
      BY <1>0, <1>f, <1>c
    <3>1. CASE i \in 1 .. Len(free)
      BY <2>1, <3>1, <1>0, <1>f, <1>c DEF FreeInv, Same
    <3>2. CASE i = Len(free) + 1
      BY <3>2, <1>0, <1>f, <1>c
    <3> QED
      BY <3>1, <3>2, <1>0, <1>f, <1>c
  <2> QED
    BY <2>2, <2>3 DEF FreeInv
<1>2. \A g, k \in Known' : conn'[g] = conn'[k] /\ conn'[g] # None => g = k
  <2> SUFFICES ASSUME NEW g \in Known, NEW k \in Known,
                      conn'[g] = conn'[k], conn'[g] # None
               PROVE  g = k
    BY <1>0, <1>f, <1>c
  <2>1. g # h /\ k # h
    BY <1>0, <1>f, <1>c
  <2> QED
    BY <2>1, <1>0, <1>f, <1>c DEF ConnInv, Same
<1>3. \A g \in Known' : conn'[g] # None => client'[conn'[g]] = "open"
  <2> SUFFICES ASSUME NEW g \in Known', conn'[g] # None
               PROVE  client'[conn'[g]] = "open"
    OBVIOUS
  <2>1. g \in Known /\ g # h /\ conn'[g] = conn[g]
    BY <1>0, <1>f, <1>c DEF Same
  <2>2. conn[g] \in Conns /\ conn[g] # conn[h]
    BY <2>1 DEF TypeOK, ConnInv
  <2>3. client'[conn[g]] = client[conn[g]]
    BY <2>2, <1>0, <1>f, <1>c
  <2>4. client[conn[g]] = "open"
    BY <2>1, <2>2 DEF ConnInv, Conns, None
  <2> QED
    BY <2>1, <2>3, <2>4
<1>4. \A g \in Known' : input'[g] \in {None, conn'[g]}
  BY <1>0, <1>f, <1>c DEF ConnInv, Same
<1>5. \A g \in Known' : output'[g] # <<>> =>
        hasRequest'[g] \/ (poll'.at = "mark" /\ poll'.rh = g)
  BY <1>0, <1>f, <1>c DEF ConnInv, Same
<1> QED
  BY <1>1, <1>2, <1>3, <1>4, <1>5 DEF ConnInv

\* Every step keeps a connection with one handler and a free handler clean.
LEMMA FreeConnStep ==
  ASSUME IInv, TypeOK', [Next]_vars
  PROVE  FreeInv' /\ ConnInv'
<1> USE DEF IInv
<1>1. ASSUME NEW c \in Conns, Reset(c) PROVE FreeInv' /\ ConnInv'
  BY <1>1 DEF Reset, handlers, FreeInv, ConnInv, Known
<1>2. ASSUME NEW c \in Conns, Accept(c), AcceptReusing(c)
      PROVE  FreeInv' /\ ConnInv'
  <2> DEFINE h == Head(free)
  <2>1. /\ h \in Known /\ h = free[1] /\ 1 \in DOMAIN free
        /\ DOMAIN free = 1 .. Len(free)
        /\ DOMAIN free' = 1 .. Len(free) - 1
        /\ \A i \in 1 .. Len(free) - 1 : free'[i] = free[i + 1]
        /\ Len(free) \in Nat
    BY <1>2, TailFacts DEF TypeOK, AcceptReusing
  <2>2. conn[h] = None /\ input[h] = None /\ output[h] = <<>>
    BY <2>1 DEF FreeInv
  <2>3. \A i \in 1 .. Len(free) - 1 : free'[i] # h /\ free'[i] \in Known
    <3> SUFFICES ASSUME NEW i \in 1 .. Len(free) - 1
                 PROVE  free'[i] # h /\ free'[i] \in Known
      OBVIOUS
    <3>1. i + 1 \in DOMAIN free /\ i + 1 # 1 /\ free'[i] = free[i + 1]
      BY <2>1
    <3>2. free[i + 1] # free[1]
      BY <2>1, <3>1 DEF FreeInv
    <3>3. free[i + 1] \in Known
      BY <3>1 DEF TypeOK
    <3> QED
      BY <2>1, <3>1, <3>2, <3>3
  <2>4. /\ conn'[h] = c
        /\ \A g \in Known \ {h} : conn'[g] = conn[g]
        /\ Known' = Known
        /\ UNCHANGED <<input, hasRequest, output, poll>>
    BY <1>2, <2>1 DEF TypeOK, Accept, AcceptReusing, Known
  <2>5. \A i, j \in DOMAIN free' : free'[i] = free'[j] => i = j
    <3> SUFFICES ASSUME NEW i \in DOMAIN free', NEW j \in DOMAIN free',
                        free'[i] = free'[j]
                 PROVE  i = j
      OBVIOUS
    <3>1. /\ i + 1 \in DOMAIN free /\ j + 1 \in DOMAIN free
          /\ i \in Int /\ j \in Int
      BY <2>1
    <3>2. free[i + 1] = free[j + 1]
      BY <2>1
    <3> QED
      BY <3>1, <3>2 DEF FreeInv
  <2>6. \A i \in DOMAIN free' : /\ conn'[free'[i]] = None
                                /\ input'[free'[i]] = None
                                /\ output'[free'[i]] = <<>>
    BY <2>1, <2>3, <2>4 DEF FreeInv
  <2>7. /\ client[c] = "away"
        /\ client'[c] = "open"
        /\ \A d \in Conns : d # c => client'[d] = client[d]
    BY <1>2, <2>2 DEF Accept, AcceptReusing, TypeOK, Conns, None
  <2>8. \A g \in Known : conn[g] # c
    BY <2>7 DEF ConnInv, Conns, None
  <2>9. \A g, k \in Known' : conn'[g] = conn'[k] /\ conn'[g] # None => g = k
    BY <2>4, <2>8 DEF ConnInv
  <2>10. \A g \in Known' : conn'[g] # None => client'[conn'[g]] = "open"
    <3> SUFFICES ASSUME NEW g \in Known, conn'[g] # None
                 PROVE  client'[conn'[g]] = "open"
      BY <2>4
    <3>1. CASE g = h
      BY <2>4, <2>7, <3>1
    <3>2. CASE g # h
      <4>1. conn'[g] = conn[g] /\ conn[g] \in Conns /\ conn[g] # c
        BY <2>4, <2>8, <3>2 DEF TypeOK
      <4>2. client[conn[g]] = "open"
        BY <4>1 DEF ConnInv, Conns, None
      <4> QED
        BY <2>7, <4>1, <4>2
    <3> QED
      BY <3>1, <3>2
  <2>11. \A g \in Known' : input'[g] \in {None, conn'[g]}
    BY <2>2, <2>4 DEF ConnInv
  <2> QED
    BY <2>4, <2>5, <2>6, <2>9, <2>10, <2>11 DEF FreeInv, ConnInv
<1>3. ASSUME NEW c \in Conns, Accept(c), AcceptCreating(c)
      PROVE  FreeInv' /\ ConnInv'
  <2>1. created \in Nat
    BY DEF TypeOK
  <2>2. /\ \A g \in Known : Same(g)
        /\ conn'[created + 1] = c
        /\ input'[created + 1] = None
        /\ hasRequest'[created + 1] = FALSE
        /\ output'[created + 1] = <<>>
    BY <1>3, CreateFacts
  <2>3. /\ Known' = Known \cup {created + 1} /\ created + 1 \notin Known
        /\ free' = <<>> /\ poll' = poll
    BY <1>3, <2>1 DEF Accept, AcceptCreating, Known
  <2>4. /\ client[c] = "away"
        /\ client'[c] = "open"
        /\ \A d \in Conns : d # c => client'[d] = client[d]
    BY <1>3 DEF Accept, AcceptCreating, TypeOK
  <2>5. FreeInv'
    BY <2>3 DEF FreeInv
  <2>6. \A g \in Known : conn[g] # c
    BY <2>4 DEF ConnInv, Conns, None
  <2>7. \A g, k \in Known' : conn'[g] = conn'[k] /\ conn'[g] # None => g = k
    BY <2>2, <2>3, <2>6 DEF ConnInv, Same
  <2>8. \A g \in Known' : conn'[g] # None => client'[conn'[g]] = "open"
    BY <2>2, <2>3, <2>4 DEF ConnInv, Same, TypeOK
  <2>9. \A g \in Known' : input'[g] \in {None, conn'[g]}
    BY <2>2, <2>3 DEF ConnInv, Same
  <2>10. \A g \in Known' : output'[g] # <<>> =>
           hasRequest'[g] \/ (poll'.at = "mark" /\ poll'.rh = g)
    BY <2>2, <2>3 DEF ConnInv, Same
  <2> QED
    BY <2>5, <2>7, <2>8, <2>9, <2>10 DEF ConnInv
<1>4. ASSUME NEW h \in Known, Receive(h) PROVE FreeInv' /\ ConnInv'
  <2>1. /\ conn[h] # None
        /\ input' = [input EXCEPT ![h] = conn[h]]
        /\ UNCHANGED <<client, created, conn, hasRequest, output, free, poll>>
    BY <1>4 DEF Receive, Readable
  <2>2. \A i \in DOMAIN free : free[i] \in Known /\ free[i] # h
    BY <2>1 DEF TypeOK, FreeInv
  <2>3. /\ input'[h] = conn[h]
        /\ \A g \in Known \ {h} : input'[g] = input[g]
    BY <2>1 DEF TypeOK
  <2> QED
    BY <2>1, <2>2, <2>3 DEF FreeInv, ConnInv, Known
<1>5. ASSUME NEW h \in Known, ReceiveEnd(h) PROVE FreeInv' /\ ConnInv'
  <2>1. CASE Close(h) /\ UNCHANGED poll
    BY <1>5, <2>1, CloseKeeps DEF ReceiveEnd, Readable
  <2>2. CASE poll' = [at |-> "put", rh |-> h] /\ UNCHANGED <<client, handlers>>
    BY <1>5, <2>2 DEF ReceiveEnd, handlers, FreeInv, ConnInv, Known
  <2> QED
    BY <1>5, <2>1, <2>2 DEF ReceiveEnd
<1>6. ASSUME NEW h \in Known, Send(h) PROVE FreeInv' /\ ConnInv'
  <2>1. CASE Close(h)
    BY <1>6, <2>1, CloseKeeps DEF Send
  <2>2. CASE ~Close(h)
    <3>1. PICK n \in 1 .. Len(output[h]) :
            /\ output' = [output EXCEPT ![h] = SubSeq(@, n + 1, Len(@))]
            /\ UNCHANGED <<client, created, conn, input, hasRequest, free, poll>>
      BY <1>6, <2>2 DEF Send
    <3>2. \A i \in DOMAIN free : free[i] \in Known /\ free[i] # h
      BY <1>6 DEF TypeOK, FreeInv, Send
    <3>3. \A g \in Known \ {h} : output'[g] = output[g]
      BY <3>1 DEF TypeOK
    <3> QED
      BY <1>6, <3>1, <3>2, <3>3 DEF FreeInv, ConnInv, Known, Send
  <2> QED
    BY <2>1, <2>2
<1>7. ASSUME NEW h \in Known, SendError(h) PROVE FreeInv' /\ ConnInv'
  BY <1>7, CloseKeeps DEF SendError
<1>8. CASE PutRequest
  BY <1>8 DEF PutRequest, clients, handlers, FreeInv, ConnInv, Known
<1>9. CASE Mark
  BY <1>9 DEF Mark, clients, FreeInv, ConnInv, Known, TypeOK
<1>10. CASE EndLoop
  BY <1>10 DEF EndLoop, clients, handlers, FreeInv, ConnInv, Known
<1>11. ASSUME NEW w \in Workers, Take(w) PROVE FreeInv' /\ ConnInv'
  BY <1>11 DEF Take, clients, handlers, FreeInv, ConnInv, Known
<1>12. ASSUME NEW w \in Workers, Stop(w) PROVE FreeInv' /\ ConnInv'
  BY <1>12 DEF Stop, clients, handlers, FreeInv, ConnInv, Known
<1>13. ASSUME NEW w \in Workers, WriteBuffer(w) PROVE FreeInv' /\ ConnInv'
  <2> DEFINE h == worker[w].rh
  <2>1. Ready(h)
    BY <1>13 DEF WriteBuffer, WorkerInv, Serving
  <2>2. /\ UNCHANGED <<client, created, conn, input, hasRequest, free, poll>>
        /\ \A g \in Known \ {h} : output'[g] = output[g]
    BY <1>13 DEF WriteBuffer, clients, TypeOK
  <2>3. \A i \in DOMAIN free : free[i] \in Known /\ free[i] # h
    BY <2>1 DEF TypeOK, FreeInv, Ready
  <2> QED
    BY <2>1, <2>2, <2>3 DEF FreeInv, ConnInv, Known, Ready
<1>14. ASSUME NEW w \in Workers, Fail(w) PROVE FreeInv' /\ ConnInv'
  <2>1. Ready(worker[w].rh)
    BY <1>14 DEF Fail, WorkerInv, Serving
  <2> QED
    BY <1>14, <2>1, CloseKeeps DEF Fail, Ready
<1>15. CASE Shutdown
  BY <1>15 DEF Shutdown, clients, handlers, FreeInv, ConnInv, Known
<1>16. CASE PutSentinel
  BY <1>16 DEF PutSentinel, clients, handlers, FreeInv, ConnInv, Known
<1>17. CASE Join
  BY <1>17 DEF Join, clients, handlers, FreeInv, ConnInv, Known
<1>18. ASSUME NEW h \in Known, CloseNext(h) PROVE FreeInv' /\ ConnInv'
  BY <1>18, CloseKeeps DEF CloseNext
<1>19. CASE End
  BY <1>19 DEF End, clients, handlers, FreeInv, ConnInv, Known
<1>20. CASE UNCHANGED vars
  BY <1>20 DEF vars, clients, handlers, FreeInv, ConnInv, Known
<1> QED
  BY <1>1, <1>2, <1>3, <1>4, <1>5, <1>6, <1>7, <1>8, <1>9, <1>10, <1>11,
     <1>12, <1>13, <1>14, <1>15, <1>16, <1>17, <1>18, <1>19, <1>20
     DEF Next, Asyncore, Worker, Main, Accept

-----------------------------------------------------------------------------
(* What the steps do to the queue and the threads.                         *)

\* A handler that is ready stays so when nothing touches it.
LEMMA ReadyKeeps ==
  ASSUME NEW g, Ready(g), g \in Known', Same(g),
         poll.at = "mark" /\ poll.rh = g =>
           hasRequest'[g] \/ (poll'.at = "mark" /\ poll'.rh = g)
  PROVE  Ready(g)'
  BY DEF Ready, Same

WorkInv == QueueInv /\ PollInv /\ WorkerInv

\* Nothing that WorkInv is about changes.
LEMMA QuietWork ==
  ASSUME WorkInv, Live' = Live,
         UNCHANGED <<created, conn, input, hasRequest, output, queue, poll,
                     worker>>
  PROVE  WorkInv'
  BY DEF WorkInv, QueueInv, PollInv, WorkerInv, Ready, Known, Serving

\* The asyncore thread closes a handler that is not ready.
LEMMA CloseWork ==
  ASSUME TypeOK, WorkInv, NEW h \in Known, conn[h] # None, ~Ready(h), Close(h),
         poll.at = "poll", UNCHANGED <<queue, poll, worker, main>>
  PROVE  WorkInv'
<1>1. Known' = Known /\ \A g \in Known \ {h} : Same(g)
  BY CloseFacts
<1>2. \A g : Ready(g) => Ready(g)' /\ g # h
  BY <1>1 DEF Ready, Same
<1>3. \A g \in Known : Ready(g) => conn'[g] = conn[g]
  BY <1>1, <1>2 DEF Same
<1>4. QueueInv'
  BY <1>2 DEF WorkInv, QueueInv, Live
<1>5. PollInv'
  BY DEF WorkInv, PollInv, Live
<1>6. WorkerInv'
  BY <1>2, <1>3 DEF WorkInv, WorkerInv, Live, Serving, Ready
<1> QED
  BY <1>4, <1>5, <1>6 DEF WorkInv

\* With one write per response every step keeps what the threads rely on.
\* (With more, the asyncore thread may close a handler between two writes.)
LEMMA WorkStep ==
  ASSUME Writes = 1, IInv, TypeOK', [Next]_vars
  PROVE  WorkInv'
<1> USE DEF IInv
<1>0. WorkInv
  BY DEF WorkInv
<1>1. ASSUME NEW c \in Conns, Reset(c) PROVE WorkInv'
  BY <1>0, <1>1, QuietWork DEF Reset, handlers, Live
<1>2. ASSUME NEW c \in Conns, Accept(c), AcceptReusing(c) PROVE WorkInv'
  <2> DEFINE h == Head(free)
  <2>1. h \in Known /\ h = free[1] /\ 1 \in DOMAIN free
    BY <1>2, TailFacts DEF TypeOK, AcceptReusing
  <2>2. conn[h] = None
    BY <2>1 DEF FreeInv
  <2>3. /\ \A g \in Known \ {h} : Same(g)
        /\ Known' = Known
        /\ poll.at = "poll"
        /\ UNCHANGED <<queue, poll, worker, main>>
    BY <1>2, <2>1 DEF TypeOK, Accept, AcceptReusing, Known, Same
  <2>4. \A g : Ready(g) => Ready(g)' /\ g # h /\ conn'[g] = conn[g]
    BY <2>2, <2>3 DEF Ready, Same
  <2>5. QueueInv' /\ PollInv'
    BY <2>3, <2>4 DEF QueueInv, PollInv, Live
  <2>6. WorkerInv'
    BY <2>3, <2>4 DEF WorkerInv, Live, Serving
  <2> QED
    BY <2>5, <2>6 DEF WorkInv
<1>3. ASSUME NEW c \in Conns, Accept(c), AcceptCreating(c) PROVE WorkInv'
  <2>1. \A g \in Known : Same(g)
    BY <1>3, CreateFacts
  <2>2. /\ Known \subseteq Known'
        /\ poll.at = "poll"
        /\ UNCHANGED <<queue, poll, worker, main>>
    BY <1>3 DEF TypeOK, Accept, AcceptCreating, Known
  <2>3. \A g : Ready(g) => Ready(g)' /\ conn'[g] = conn[g]
    BY <2>1, <2>2 DEF Ready, Same
  <2>4. QueueInv' /\ PollInv'
    BY <2>2, <2>3 DEF QueueInv, PollInv, Live
  <2>5. WorkerInv'
    BY <2>2, <2>3 DEF WorkerInv, Live, Serving
  <2> QED
    BY <2>4, <2>5 DEF WorkInv
<1>4. ASSUME NEW h \in Known, Receive(h) PROVE WorkInv'
  <2>1. /\ ~hasRequest[h]
        /\ poll.at = "poll"
        /\ UNCHANGED <<created, conn, hasRequest, output, queue, poll, worker,
                       main>>
        /\ \A g \in Known \ {h} : input'[g] = input[g]
    BY <1>4 DEF Receive, Readable, TypeOK
  <2>2. \A g : Ready(g) => Ready(g)'
    BY <2>1 DEF Ready, Known
  <2>3. QueueInv' /\ PollInv'
    BY <2>1, <2>2 DEF QueueInv, PollInv, Live
  <2>4. WorkerInv'
    BY <2>1, <2>2 DEF WorkerInv, Live, Serving
  <2> QED
    BY <2>3, <2>4 DEF WorkInv
<1>5. ASSUME NEW h \in Known, ReceiveEnd(h) PROVE WorkInv'
  <2>1. ~Ready(h) /\ conn[h] # None
    BY <1>5 DEF ReceiveEnd, Readable, Ready
  <2>2. CASE Close(h) /\ UNCHANGED poll
    BY <1>0, <1>5, <2>1, <2>2, CloseWork DEF ReceiveEnd
  <2>3. CASE /\ input[h] # None
             /\ poll' = [at |-> "put", rh |-> h]
             /\ UNCHANGED <<client, handlers>>
    <3>1. /\ poll.at = "poll" /\ ~hasRequest[h]
          /\ UNCHANGED <<created, conn, input, hasRequest, output, queue,
                         worker, main>>
      BY <1>5, <2>3 DEF ReceiveEnd, Readable, handlers
    <3>2. input[h] = conn[h] /\ output[h] = <<>>
      BY <2>3, <3>1 DEF ConnInv
    <3>3. \A g : Ready(g) => Ready(g)'
      BY <3>1 DEF Ready, Known
    <3>4. QueueInv'
      BY <3>1, <3>3 DEF QueueInv, Live
    <3>5. PollInv'
      BY <2>1, <2>3, <3>1, <3>2 DEF PollInv
    <3>6. WorkerInv'
      BY <3>1, <3>3 DEF WorkerInv, Live, Serving
    <3> QED
      BY <3>4, <3>5, <3>6 DEF WorkInv
  <2> QED
    BY <1>5, <2>2, <2>3 DEF ReceiveEnd
<1>6. ASSUME NEW h \in Known, Send(h) PROVE WorkInv'
  <2>1. ~Ready(h)
    BY <1>6 DEF Send, Ready
  <2>2. CASE Close(h)
    BY <1>0, <1>6, <2>1, <2>2, CloseWork DEF Send
  <2>3. CASE ~Close(h)
    <3>1. PICK n \in 1 .. Len(output[h]) :
            /\ output' = [output EXCEPT ![h] = SubSeq(@, n + 1, Len(@))]
            /\ UNCHANGED <<created, conn, input, hasRequest, queue, poll,
                           worker, main>>
      BY <1>6, <2>3 DEF Send
    <3>2. \A g \in Known \ {h} : output'[g] = output[g]
      BY <3>1 DEF TypeOK
    <3>3. \A g : Ready(g) => Ready(g)'
      BY <2>1, <3>1, <3>2 DEF Ready, Known
    <3>4. QueueInv'
      BY <3>1, <3>3 DEF QueueInv, Live
    <3>5. PollInv'
      BY <1>6, <3>1 DEF PollInv, Send
    <3>6. WorkerInv'
      BY <3>1, <3>3 DEF WorkerInv, Live, Serving
    <3> QED
      BY <3>4, <3>5, <3>6 DEF WorkInv
  <2> QED
    BY <2>2, <2>3
<1>7. ASSUME NEW h \in Known, SendError(h) PROVE WorkInv'
  <2>1. ~Ready(h)
    BY <1>7 DEF SendError, Ready
  <2> QED
    BY <1>0, <1>7, <2>1, CloseWork DEF SendError
<1>8. CASE PutRequest
  <2> DEFINE h == poll.rh
  <2>1. /\ poll.at = "put" /\ h \in Known
        /\ poll' = [poll EXCEPT !.at = "mark"]
        /\ UNCHANGED <<created, conn, input, hasRequest, output, worker, main>>
        /\ queue' = Append(queue, h)
    BY <1>8 DEF PutRequest, handlers, TypeOK
  <2>2. poll'.at = "mark" /\ poll'.rh = h
    BY <2>1 DEF TypeOK
  <2>3. \A g : Ready(g) => Ready(g)' /\ hasRequest[g]
    BY <2>1 DEF Ready, Known
  <2>4. Live => Ready(h)' /\ ~hasRequest[h] /\ h # Sentinel
    BY <2>1, <2>2 DEF PollInv, Ready, Known, Sentinel, TypeOK
  <2>5. /\ DOMAIN queue = 1 .. Len(queue) /\ Len(queue) \in Nat
        /\ DOMAIN queue' = 1 .. Len(queue) + 1
        /\ \A i \in 1 .. Len(queue) : queue'[i] = queue[i]
        /\ queue'[Len(queue) + 1] = h
    BY <2>1, AppendFacts DEF TypeOK
  <2>6. Live => \A i \in 1 .. Len(queue) : queue[i] # h
    BY <2>3, <2>4, <2>5 DEF QueueInv
  <2>7. QueueInv'
    <3>1. ASSUME Live, NEW i \in DOMAIN queue', NEW g, g = queue'[i],
                 g # Sentinel
          PROVE  Ready(g)'
      <4>1. CASE i \in 1 .. Len(queue)
        BY <2>3, <2>5, <3>1, <4>1 DEF QueueInv
      <4>2. CASE i = Len(queue) + 1
        <5>1. g = poll'.rh
          BY <2>2, <2>5, <3>1, <4>2
        <5> QED
          BY <2>4, <3>1, <5>1
      <4> QED
        BY <2>5, <4>1, <4>2
    <3>2. ASSUME Live, NEW i \in DOMAIN queue', NEW j \in DOMAIN queue',
                 queue'[i] = queue'[j], queue'[i] # Sentinel
          PROVE  i = j
      <4>1. CASE i \in 1 .. Len(queue) /\ j \in 1 .. Len(queue)
        BY <2>5, <3>2, <4>1 DEF QueueInv
      <4>2. CASE i = Len(queue) + 1 \/ j = Len(queue) + 1
        BY <2>5, <2>6, <3>2, <4>2
      <4> QED
        BY <2>5, <4>1, <4>2
    <3>3. Live' = Live
      BY <2>1 DEF Live
    <3> QED
      BY <3>1, <3>2, <3>3 DEF QueueInv
  <2>8. PollInv'
    BY <2>2 DEF PollInv
  <2>9. WorkerInv'
    <3>1. ASSUME NEW w \in Serving, NEW g, g = worker[w].rh
          PROVE  /\ Ready(g)'
                 /\ \A i \in DOMAIN queue' : queue'[i] # g
      <4>1. Ready(g) /\ Live
        BY <3>1 DEF WorkerInv, Serving, TypeOK
      <4>2. g # h
        BY <2>3, <2>4, <4>1
      <4>3. \A i \in 1 .. Len(queue) : queue[i] # g
        BY <2>5, <3>1 DEF WorkerInv
      <4> QED
        BY <2>3, <2>5, <4>1, <4>2, <4>3
    <3>2. /\ Serving' = Serving /\ Live' = Live
          /\ UNCHANGED <<conn, worker>>
      BY <2>1 DEF Serving, Live
    <3> QED
      BY <3>1, <3>2 DEF WorkerInv
  <2> QED
    BY <2>7, <2>8, <2>9 DEF WorkInv
<1>9. CASE Mark
  <2>1. /\ hasRequest'[poll.rh] = TRUE
        /\ \A g \in Known \ {poll.rh} : hasRequest'[g] = hasRequest[g]
        /\ poll'.at = "poll"
        /\ UNCHANGED <<created, conn, input, output, queue, worker, main>>
    BY <1>9 DEF Mark, TypeOK
  <2>2. \A g : Ready(g) => Ready(g)'
    BY <2>1 DEF Ready, Known
  <2>3. QueueInv' /\ PollInv'
    BY <2>1, <2>2 DEF QueueInv, PollInv, Live
  <2>4. WorkerInv'
    BY <2>1, <2>2 DEF WorkerInv, Live, Serving
  <2> QED
    BY <2>3, <2>4 DEF WorkInv
<1>10. CASE EndLoop
  <2>1. /\ poll.at = "poll" /\ poll'.at = "ended"
        /\ UNCHANGED <<created, conn, input, hasRequest, output, queue, worker,
                       main>>
    BY <1>10 DEF EndLoop, handlers, TypeOK
  <2>2. \A g : Ready(g) => Ready(g)'
    BY <2>1 DEF Ready, Known
  <2>3. QueueInv' /\ PollInv'
    BY <2>1, <2>2 DEF QueueInv, PollInv, Live
  <2>4. WorkerInv'
    BY <2>1, <2>2 DEF WorkerInv, Live, Serving
  <2> QED
    BY <2>3, <2>4 DEF WorkInv
<1>11. ASSUME NEW w \in Workers, Take(w) PROVE WorkInv'
  <2> DEFINE h == Head(queue)
  <2>1. /\ h = queue[1] /\ 1 \in DOMAIN queue /\ h # Sentinel
        /\ DOMAIN queue = 1 .. Len(queue) /\ Len(queue) \in Nat
        /\ DOMAIN queue' = 1 .. Len(queue) - 1
        /\ \A i \in 1 .. Len(queue) - 1 : queue'[i] = queue[i + 1]
    BY <1>11, TailFacts DEF Take, TypeOK
  <2>2. /\ worker[w].at = "idle"
        /\ worker'[w].at = "serving" /\ worker'[w].rh = h
        /\ worker'[w].req = input[h]
        /\ \A v \in Workers \ {w} : worker'[v] = worker[v]
        /\ UNCHANGED <<created, conn, input, hasRequest, output, poll, main>>
    BY <1>11 DEF Take, handlers, TypeOK
  <2>3. Live /\ Live' = Live
    BY <2>2 DEF WorkerInv, Live
  <2>4. \A g : Ready(g) => Ready(g)'
    BY <2>2 DEF Ready, Known
  <2>5. Ready(h)
    BY <2>1, <2>3 DEF QueueInv
  <2>6. \A i \in DOMAIN queue' :
          i \in Int /\ i + 1 \in DOMAIN queue /\ queue'[i] = queue[i + 1]
    BY <2>1
  <2>7. QueueInv'
    BY <2>3, <2>4, <2>6 DEF QueueInv
  <2>8. PollInv'
    BY <2>2, <2>3 DEF PollInv
  <2>9. Serving' = Serving \cup {w} /\ w \notin Serving
    BY <2>2 DEF Serving
  <2>10. \A i \in DOMAIN queue' : queue'[i] # h
    <3> SUFFICES ASSUME NEW i \in DOMAIN queue' PROVE queue[i + 1] # queue[1]
      BY <2>1, <2>6
    <3>1. i + 1 # 1
      BY <2>1
    <3> QED
      BY <2>1, <2>3, <2>6, <3>1 DEF QueueInv
  <2>11. \A v \in Serving : worker[v].rh # h
    BY <2>1 DEF WorkerInv
  <2>12. ASSUME NEW v \in Serving', NEW g, g = worker'[v].rh
         PROVE  /\ Ready(g)'
                /\ worker'[v].req = conn'[g]
                /\ \A u \in Serving' : worker'[u].rh = g => u = v
                /\ \A i \in DOMAIN queue' : queue'[i] # g
    <3>1. CASE v = w
      <4>1. g = h /\ Ready(g) /\ worker'[v].req = input[g]
        BY <2>2, <2>5, <2>12, <3>1
      <4>2. worker'[v].req = conn'[g]
        BY <2>2, <4>1 DEF Ready
      <4>3. \A u \in Serving' : worker'[u].rh = g => u = v
        BY <2>2, <2>9, <2>11, <3>1, <4>1 DEF Serving
      <4> QED
        BY <2>4, <2>10, <4>1, <4>2, <4>3
    <3>2. CASE v # w
      <4>1. v \in Serving /\ g = worker[v].rh /\ worker'[v] = worker[v]
        BY <2>2, <2>9, <2>12, <3>2 DEF Serving
      <4>2. Ready(g) /\ worker'[v].req = conn'[g] /\ g # h
        BY <2>2, <2>11, <4>1 DEF WorkerInv
      <4>3. \A u \in Serving' : worker'[u].rh = g => u = v
        BY <2>2, <2>9, <4>1, <4>2 DEF WorkerInv, Serving
      <4>4. \A i \in DOMAIN queue' : queue'[i] # g
        BY <2>6, <4>1 DEF WorkerInv
      <4> QED
        BY <2>4, <4>2, <4>3, <4>4
    <3> QED
      BY <3>1, <3>2
  <2>13. WorkerInv'
    BY <2>3, <2>12 DEF WorkerInv
  <2> QED
    BY <2>7, <2>8, <2>13 DEF WorkInv
<1>12. ASSUME NEW w \in Workers, Stop(w) PROVE WorkInv'
  <2>1. \A i \in DOMAIN queue' :
          i \in Int /\ i + 1 \in DOMAIN queue /\ queue'[i] = queue[i + 1]
    BY <1>12, TailFacts DEF Stop, TypeOK
  <2>2. /\ worker[w].at = "idle" /\ worker'[w].at = "stopped"
        /\ \A v \in Workers \ {w} : worker'[v] = worker[v]
        /\ UNCHANGED <<created, conn, input, hasRequest, output, poll, main>>
    BY <1>12 DEF Stop, handlers, TypeOK, WorkerState
  <2>3. Live' = Live
    BY <2>2 DEF Live
  <2>4. \A g : Ready(g) => Ready(g)'
    BY <2>2 DEF Ready, Known
  <2>5. QueueInv'
    BY <2>1, <2>3, <2>4 DEF QueueInv
  <2>6. PollInv'
    BY <2>2, <2>3 DEF PollInv
  <2>7. Serving' = Serving /\ \A v \in Serving : worker'[v] = worker[v]
    BY <2>2 DEF Serving
  <2>8. WorkerInv'
    <3>1. ~Live' => \A v \in Workers : worker'[v].at = "stopped"
      BY <2>2, <2>3 DEF WorkerInv
    <3>2. ASSUME NEW v \in Serving', NEW g, g = worker'[v].rh
          PROVE  /\ Ready(g)'
                 /\ worker'[v].req = conn'[g]
                 /\ \A u \in Serving' : worker'[u].rh = g => u = v
                 /\ \A i \in DOMAIN queue' : queue'[i] # g
      BY <2>1, <2>2, <2>4, <2>7, <3>2 DEF WorkerInv
    <3> QED
      BY <3>1, <3>2 DEF WorkerInv
  <2> QED
    BY <2>5, <2>6, <2>8 DEF WorkInv
<1>13. ASSUME NEW w \in Workers, WriteBuffer(w) PROVE WorkInv'
  <2> DEFINE h == worker[w].rh
  <2>1. w \in Serving /\ Ready(h) /\ Live
    BY <1>13 DEF WriteBuffer, WorkerInv, Serving
  <2>2. /\ Known' = Known
        /\ \A g \in Known \ {h} : Same(g)
        /\ worker' = [worker EXCEPT ![w] = Idle]
        /\ UNCHANGED <<queue, poll, main>>
    <3>1. worker[w].left \in 0 .. 1 /\ worker[w].left > 0
      BY <1>13 DEF WriteBuffer, TypeOK, WorkerState
    <3>2. Served(w) = Idle
      BY <3>1 DEF Served
    <3> QED
      BY <1>13, <3>2 DEF WriteBuffer, TypeOK, Known, Same
  <2>3. \A g : Ready(g) /\ g # h => Ready(g)'
    BY <2>2 DEF Ready, Same
  <2>4. Live' = Live
    BY <2>2 DEF Live
  <2>5. QueueInv'
    <3>1. \A i \in DOMAIN queue : queue[i] # h
      BY <2>1 DEF WorkerInv
    <3> QED
      BY <2>2, <2>3, <2>4, <3>1 DEF QueueInv
  <2>6. PollInv'
    <3>1. poll.at = "put" => poll.rh \in Known \ {h}
      BY <2>1 DEF PollInv, Ready, TypeOK
    <3> QED
      BY <2>1, <2>2, <2>4, <3>1 DEF PollInv, Same
  <2>7. Serving' = Serving \ {w} /\ \A v \in Serving' : worker'[v] = worker[v]
    BY <2>2 DEF Serving, Idle, TypeOK
  <2>8. WorkerInv'
    <3>1. ASSUME NEW v \in Serving', NEW g, g = worker'[v].rh
          PROVE  /\ Ready(g)'
                 /\ worker'[v].req = conn'[g]
                 /\ \A u \in Serving' : worker'[u].rh = g => u = v
                 /\ \A i \in DOMAIN queue' : queue'[i] # g
      <4>1. v \in Serving /\ v # w /\ g = worker[v].rh /\ worker'[v] = worker[v]
        BY <2>7, <3>1
      <4>2. Ready(g) /\ worker[v].req = conn[g] /\ g # h
        BY <2>1, <4>1 DEF WorkerInv
      <4>3. Ready(g)' /\ conn'[g] = conn[g]
        BY <2>2, <2>3, <4>2 DEF Ready, Same
      <4> QED
        BY <2>2, <2>7, <4>1, <4>2, <4>3 DEF WorkerInv
    <3> QED
      BY <2>1, <2>4, <3>1 DEF WorkerInv
  <2> QED
    BY <2>5, <2>6, <2>8 DEF WorkInv
<1>14. ASSUME NEW w \in Workers, Fail(w) PROVE WorkInv'
  <2> DEFINE h == worker[w].rh
  <2>1. w \in Serving /\ Ready(h) /\ Live
    BY <1>14 DEF Fail, WorkerInv, Serving
  <2>2. /\ Known' = Known
        /\ \A g \in Known \ {h} : Same(g)
        /\ worker' = [worker EXCEPT ![w] = Idle]
        /\ UNCHANGED <<queue, poll, main>>
    BY <1>14, <2>1, CloseFacts DEF Fail, Ready
  <2>3. \A g : Ready(g) /\ g # h => Ready(g)'
    BY <2>2 DEF Ready, Same
  <2>4. Live' = Live
    BY <2>2 DEF Live
  <2>5. QueueInv'
    <3>1. \A i \in DOMAIN queue : queue[i] # h
      BY <2>1 DEF WorkerInv
    <3> QED
      BY <2>2, <2>3, <2>4, <3>1 DEF QueueInv
  <2>6. PollInv'
    <3>1. poll.at = "put" => poll.rh \in Known \ {h}
      BY <2>1 DEF PollInv, Ready, TypeOK
    <3> QED
      BY <2>1, <2>2, <2>4, <3>1 DEF PollInv, Same
  <2>7. Serving' = Serving \ {w} /\ \A v \in Serving' : worker'[v] = worker[v]
    BY <2>2 DEF Serving, Idle, TypeOK
  <2>8. WorkerInv'
    <3>1. ASSUME NEW v \in Serving', NEW g, g = worker'[v].rh
          PROVE  /\ Ready(g)'
                 /\ worker'[v].req = conn'[g]
                 /\ \A u \in Serving' : worker'[u].rh = g => u = v
                 /\ \A i \in DOMAIN queue' : queue'[i] # g
      <4>1. v \in Serving /\ v # w /\ g = worker[v].rh /\ worker'[v] = worker[v]
        BY <2>7, <3>1
      <4>2. Ready(g) /\ worker[v].req = conn[g] /\ g # h
        BY <2>1, <4>1 DEF WorkerInv
      <4>3. Ready(g)' /\ conn'[g] = conn[g]
        BY <2>2, <2>3, <4>2 DEF Ready, Same
      <4> QED
        BY <2>2, <2>7, <4>1, <4>2, <4>3 DEF WorkerInv
    <3> QED
      BY <2>1, <2>4, <3>1 DEF WorkerInv
  <2> QED
    BY <2>5, <2>6, <2>8 DEF WorkInv
<1>15. CASE Shutdown
  BY <1>0, <1>15, QuietWork DEF Shutdown, handlers, Live
<1>16. CASE PutSentinel
  <2>1. /\ queue' = Append(queue, Sentinel)
        /\ main'.at = main.at
        /\ UNCHANGED <<created, conn, input, hasRequest, output, poll, worker>>
    BY <1>16 DEF PutSentinel, handlers, TypeOK
  <2>2. /\ DOMAIN queue = 1 .. Len(queue) /\ Len(queue) \in Nat
        /\ DOMAIN queue' = 1 .. Len(queue) + 1
        /\ \A i \in 1 .. Len(queue) : queue'[i] = queue[i]
        /\ queue'[Len(queue) + 1] = Sentinel
    BY <2>1, AppendFacts DEF TypeOK
  <2>3. Live' = Live
    BY <2>1 DEF Live
  <2>4. \A g : Ready(g) => Ready(g)' /\ g # Sentinel
    BY <2>1 DEF Ready, Known, Sentinel, TypeOK
  <2>5. \A i \in DOMAIN queue' :
          queue'[i] # Sentinel => i \in DOMAIN queue /\ queue'[i] = queue[i]
    BY <2>2
  <2>6. QueueInv'
    BY <2>3, <2>4, <2>5 DEF QueueInv
  <2>7. PollInv'
    BY <2>1, <2>3 DEF PollInv
  <2>8. WorkerInv'
    <3>1. ASSUME NEW v \in Serving, NEW g, g = worker[v].rh
          PROVE  /\ Ready(g)'
                 /\ \A i \in DOMAIN queue' : queue'[i] # g
      BY <2>4, <2>5, <3>1 DEF WorkerInv
    <3>2. Serving' = Serving
      BY <2>1 DEF Serving
    <3> QED
      BY <2>1, <2>3, <3>1, <3>2 DEF WorkerInv
  <2> QED
    BY <2>6, <2>7, <2>8 DEF WorkInv
<1>17. CASE Join
  <2>1. /\ ~Live'
        /\ \A w \in Workers : worker'[w].at = "stopped"
    BY <1>17 DEF Join, Live, TypeOK
  <2> QED
    BY <2>1 DEF WorkInv, QueueInv, PollInv, WorkerInv, Serving
<1>18. ASSUME NEW h \in Known, CloseNext(h) PROVE WorkInv'
  <2>1. /\ ~Live'
        /\ \A w \in Workers : worker'[w].at = "stopped"
    BY <1>18 DEF CloseNext, Live, WorkerInv
  <2> QED
    BY <2>1 DEF WorkInv, QueueInv, PollInv, WorkerInv, Serving
<1>19. CASE End
  BY <1>0, <1>19, QuietWork DEF End, handlers, Live
<1>20. CASE UNCHANGED vars
  BY <1>0, <1>20, QuietWork DEF vars, handlers, Live
<1> QED
  BY <1>1, <1>2, <1>3, <1>4, <1>5, <1>6, <1>7, <1>8, <1>9, <1>10, <1>11,
     <1>12, <1>13, <1>14, <1>15, <1>16, <1>17, <1>18, <1>19, <1>20
     DEF Next, Asyncore, Worker, Main, Accept

-----------------------------------------------------------------------------
(* What the clients have got.                                              *)

\* The response of the connection is whole: sent and waiting to be sent, or it
\* has not been written yet.
Whole(h) ==
  conn[h] # None =>
    \/ output[h] = <<>> /\ got[conn[h]] = <<>>
    \/ output[h] # <<>> /\ Len(got[conn[h]]) + Len(output[h]) = Size

SentInv ==
  /\ \A c \in Conns : client[c] = "away" => got[c] = <<>>
  /\ \A c \in Conns : \A i \in DOMAIN got[c] : got[c][i] = c
  /\ \A h \in Known : \A i \in DOMAIN output[h] : output[h][i] = conn[h]
  /\ \A h \in Known : Whole(h)
  /\ Live => \A c \in Conns : client[c] = "closed" /\ c \notin gone =>
                                Len(got[c]) \in {0, Size}

\* The rest of the response is sent, or nothing of it was.
LEMMA CloseSent ==
  ASSUME TypeOK, ConnInv, SentInv, NEW h \in Known, conn[h] # None, Close(h),
         gone' = gone, Live' = Live,
         \A c \in Conns : c # conn[h] => got'[c] = got[c],
         \A i \in DOMAIN got'[conn[h]] : got'[conn[h]][i] = conn[h],
         Live => conn[h] \in gone \/ Len(got'[conn[h]]) \in {0, Size}
  PROVE  SentInv'
<1>1. /\ Known' = Known
      /\ \A g \in Known \ {h} : Same(g)
      /\ conn'[h] = None /\ output'[h] = <<>>
  BY CloseFacts
<1>2. /\ \A c \in Conns : c # conn[h] => client'[c] = client[c]
      /\ client'[conn[h]] = "closed" /\ conn[h] \in Conns
  BY CloseFacts DEF Close, TypeOK
<1>3. \A c \in Conns : client'[c] = "away" => got'[c] = <<>>
  BY <1>2 DEF SentInv
<1>4. \A c \in Conns : \A i \in DOMAIN got'[c] : got'[c][i] = c
  BY DEF SentInv
<1>5. \A g \in Known' : \A i \in DOMAIN output'[g] : output'[g][i] = conn'[g]
  BY <1>1 DEF SentInv, Same
<1>6. ASSUME NEW g \in Known' PROVE Whole(g)'
  <2>1. CASE g = h
    BY <1>1, <2>1 DEF Whole
  <2>2. CASE g # h
    <3>1. g \in Known /\ conn'[g] = conn[g] /\ output'[g] = output[g]
      BY <1>1, <1>6, <2>2 DEF Same
    <3>2. conn[g] # None => conn[g] \in Conns /\ conn[g] # conn[h]
      BY <2>2, <3>1 DEF ConnInv, TypeOK
    <3>3. conn[g] # None => got'[conn[g]] = got[conn[g]]
      BY <3>2
    <3> QED
      BY <3>1, <3>3 DEF SentInv, Whole
  <2> QED
    BY <2>1, <2>2
<1>7. Live' => \A c \in Conns : client'[c] = "closed" /\ c \notin gone' =>
                                  Len(got'[c]) \in {0, Size}
  BY <1>2 DEF SentInv
<1> QED
  BY <1>3, <1>4, <1>5, <1>6, <1>7 DEF SentInv

\* Nothing that SentInv is about changes.
LEMMA QuietSent ==
  ASSUME SentInv, Live' => Live, gone \subseteq gone',
         UNCHANGED <<client, got, created, conn, output>>
  PROVE  SentInv'
  BY DEF SentInv, Whole, Known

\* With one write per response every step keeps responses whole.
LEMMA SentStep ==
  ASSUME Writes = 1, IInv, SentInv, TypeOK', [Next]_vars
  PROVE  SentInv'
<1> USE DEF IInv
<1>1. ASSUME NEW c \in Conns, Reset(c) PROVE SentInv'
  BY <1>1, QuietSent DEF Reset, handlers, Live
<1>2. ASSUME NEW c \in Conns, Accept(c), AcceptReusing(c) PROVE SentInv'
  <2> DEFINE h == Head(free)
  <2>1. h \in Known /\ h = free[1] /\ 1 \in DOMAIN free
    BY <1>2, TailFacts DEF TypeOK, AcceptReusing
  <2>2. conn[h] = None /\ output[h] = <<>>
    BY <2>1 DEF FreeInv
  <2>3. /\ conn'[h] = c
        /\ \A g \in Known \ {h} : conn'[g] = conn[g]
        /\ Known' = Known
        /\ UNCHANGED <<got, gone, output, main>>
    BY <1>2, <2>1 DEF TypeOK, Accept, AcceptReusing, Known
  <2>4. /\ client[c] = "away" /\ client'[c] = "open" /\ got[c] = <<>>
        /\ \A d \in Conns : d # c => client'[d] = client[d]
    BY <1>2, <2>2 DEF Accept, AcceptReusing, TypeOK, SentInv, Conns, None
  <2>5. \A g \in Known' : Whole(g)'
    BY <2>2, <2>3, <2>4 DEF SentInv, Whole
  <2>6. \A g \in Known' : \A i \in DOMAIN output'[g] : output'[g][i] = conn'[g]
    BY <2>2, <2>3 DEF SentInv
  <2> QED
    BY <2>3, <2>4, <2>5, <2>6 DEF SentInv, Live
<1>3. ASSUME NEW c \in Conns, Accept(c), AcceptCreating(c) PROVE SentInv'
  <2>1. /\ \A g \in Known : Same(g)
        /\ conn'[created + 1] = c /\ output'[created + 1] = <<>>
    BY <1>3, CreateFacts
  <2>2. /\ Known' = Known \cup {created + 1}
        /\ UNCHANGED <<got, gone, main>>
    BY <1>3 DEF TypeOK, Accept, AcceptCreating, Known
  <2>3. /\ client[c] = "away" /\ client'[c] = "open" /\ got[c] = <<>>
        /\ \A d \in Conns : d # c => client'[d] = client[d]
    BY <1>3 DEF Accept, AcceptCreating, TypeOK, SentInv
  <2>4. ASSUME NEW g \in Known' PROVE Whole(g)'
    <3>1. CASE g = created + 1
      BY <2>1, <2>2, <2>3, <3>1 DEF Whole
    <3>2. CASE g \in Known
      BY <2>1, <2>2, <3>2 DEF SentInv, Whole, Same
    <3> QED
      BY <2>2, <2>4, <3>1, <3>2
  <2>5. \A g \in Known' : \A i \in DOMAIN output'[g] : output'[g][i] = conn'[g]
    BY <2>1, <2>2 DEF SentInv, Same
  <2> QED
    BY <2>2, <2>3, <2>4, <2>5 DEF SentInv, Live
<1>4. ASSUME NEW h \in Known, Receive(h) PROVE SentInv'
  BY <1>4, QuietSent DEF Receive, Live
<1>5. ASSUME NEW h \in Known, ReceiveEnd(h) PROVE SentInv'
  <2>1. CASE Close(h) /\ UNCHANGED poll
    <3>1. /\ conn[h] \in Conns /\ output[h] = <<>>
          /\ UNCHANGED <<got, gone, main>>
      BY <1>5 DEF ReceiveEnd, Readable, ConnInv, TypeOK
    <3>2. \/ got[conn[h]] = <<>>
          \/ Len(got[conn[h]]) + Len(output[h]) = Size
      BY <1>5, <3>1 DEF SentInv, Whole, ReceiveEnd, Readable
    <3>3. Len(got[conn[h]]) \in {0, Size}
      BY <3>1, <3>2 DEF TypeOK
    <3>4. \A i \in DOMAIN got[conn[h]] : got[conn[h]][i] = conn[h]
      BY <3>1 DEF SentInv
    <3> QED
      BY <1>5, <2>1, <3>1, <3>3, <3>4, CloseSent DEF Live, ReceiveEnd, Readable
  <2>2. CASE poll' = [at |-> "put", rh |-> h] /\ UNCHANGED <<client, handlers>>
    BY <1>5, <2>2, QuietSent DEF ReceiveEnd, handlers, Live
  <2> QED
    BY <1>5, <2>1, <2>2 DEF ReceiveEnd
<1>6. ASSUME NEW h \in Known, Send(h) PROVE SentInv'
  <2>1. PICK n \in 1 .. Len(output[h]) :
          /\ got' = [got EXCEPT ![conn[h]] = @ \o SubSeq(output[h], 1, n)]
          /\ \/ n = Len(output[h]) /\ Close(h)
             \/ /\ n # Len(output[h])
                /\ output' = [output EXCEPT ![h] = SubSeq(@, n + 1, Len(@))]
                /\ UNCHANGED <<client, created, conn, input, hasRequest, free>>
    BY <1>6 DEF Send, SentAll
  <2> DEFINE c == conn[h]
             o == output[h]
             sent == got[c] \o SubSeq(o, 1, n)
  <2>2. /\ c \in Conns /\ c # None /\ o \in Seq(Conns) /\ o # <<>>
        /\ got[c] \in Seq(Conns) /\ n \in 1 .. Len(o)
        /\ UNCHANGED <<gone, main>>
    BY <1>6 DEF Send, TypeOK
  <2>3. got'[c] = sent /\ \A d \in Conns : d # c => got'[d] = got[d]
    BY <2>1, <2>2 DEF TypeOK
  <2>4. Len(got[c]) + Len(o) = Size
    BY <2>2 DEF SentInv, Whole
  <2>5. /\ Len(sent) = Len(got[c]) + n
        /\ \A i \in DOMAIN sent : sent[i] = c
    <3> DEFINE g == got[c]
    <3>1. /\ \A i \in DOMAIN g : g[i] = c
          /\ \A i \in DOMAIN o : o[i] = c
      BY <2>2 DEF SentInv
    <3>2. g \in Seq(Conns) /\ o \in Seq(Conns)
      BY <2>2
    <3>3. c \in Conns /\ n \in 1 .. Len(o)
      BY <2>2
    <3> HIDE DEF g, o, c
    <3>4. /\ SubSeq(o, 1, n) \in Seq(Conns)
          /\ Len(SubSeq(o, 1, n)) = n
          /\ \A i \in 1 .. n : SubSeq(o, 1, n)[i] = o[i] /\ i \in DOMAIN o
      BY <3>2, <3>3
    <3>5. /\ Len(g \o SubSeq(o, 1, n)) = Len(g) + n
          /\ \A i \in DOMAIN (g \o SubSeq(o, 1, n)) :
               (g \o SubSeq(o, 1, n))[i] = c
      BY <3>1, <3>2, <3>3, <3>4
    <3> QED
      BY <3>5 DEF g
  <2>6. CASE n = Len(o) /\ Close(h)
    <3>1. Len(got'[c]) = Size
      BY <2>2, <2>3, <2>4, <2>5, <2>6
    <3>2. \A i \in DOMAIN got'[c] : got'[c][i] = c
      BY <2>3, <2>5
    <3> QED
      BY <2>2, <2>3, <2>6, <3>1, <3>2, CloseSent DEF Live
  <2>7. CASE /\ n # Len(o)
             /\ output' = [output EXCEPT ![h] = SubSeq(@, n + 1, Len(@))]
             /\ UNCHANGED <<client, created, conn, input, hasRequest, free>>
    <3>1. /\ output'[h] = SubSeq(o, n + 1, Len(o))
          /\ \A g \in Known \ {h} : output'[g] = output[g]
          /\ Known' = Known
      BY <2>7 DEF TypeOK, Known
    <3>2. /\ Len(output'[h]) = Len(o) - n
          /\ \A i \in DOMAIN output'[h] : output'[h][i] = c
      <4>1. \A i \in DOMAIN o : o[i] = c
        BY DEF SentInv
      <4>2. o \in Seq(Conns) /\ n \in 1 .. Len(o)
        BY <2>2
      <4> HIDE DEF o, c
      <4>3. /\ Len(SubSeq(o, n + 1, Len(o))) = Len(o) - n
            /\ \A i \in DOMAIN SubSeq(o, n + 1, Len(o)) :
                 SubSeq(o, n + 1, Len(o))[i] = c
        BY <4>1, <4>2
      <4> QED
        BY <3>1, <4>3
    <3>3. \A g \in Known' : Whole(g)'
      <4> SUFFICES ASSUME NEW g \in Known PROVE Whole(g)'
        BY <3>1
      <4>1. CASE g = h
        <5>1. Len(o) \in Nat /\ n \in 1 .. Len(o) /\ Len(got[c]) \in Nat
          BY <2>2
        <5>2. Len(got'[c]) = Len(got[c]) + n
          BY <2>3, <2>5
        <5>3. Len(output'[h]) = Len(o) - n
          BY <3>2
        <5>4. Len(got[c]) + Len(o) = Size
          BY <2>4
        <5>5. conn'[h] = c /\ Len(<<>>) = 0 /\ n # Len(o)
          BY <2>7
        <5> HIDE DEF o, c, sent
        <5> DEFINE before == Len(got[c])
                   left   == Len(o)
        <5>6. /\ before \in Nat /\ left \in Nat /\ n \in 1 .. left /\ n # left
              /\ before + left = Size
          BY <5>1, <5>4, <5>5
        <5>7. Len(got'[c]) = before + n /\ Len(output'[h]) = left - n
          BY <5>2, <5>3
        <5> HIDE DEF before, left
        <5>8. (before + n) + (left - n) = Size /\ left - n # 0
          BY <5>6
        <5>9. Len(got'[c]) + Len(output'[h]) = Size /\ Len(output'[h]) # 0
          BY <5>7, <5>8
        <5> QED
          BY <4>1, <5>5, <5>9 DEF Whole
      <4>2. CASE g # h
        <5>1. conn[g] # None => conn[g] \in Conns /\ conn[g] # c
          BY <2>2, <4>2 DEF ConnInv, TypeOK
        <5> QED
          BY <2>3, <2>7, <3>1, <4>2, <5>1 DEF SentInv, Whole
      <4> QED
        BY <4>1, <4>2
    <3>4. \A g \in Known' : \A i \in DOMAIN output'[g] : output'[g][i] = conn'[g]
      BY <2>7, <3>1, <3>2 DEF SentInv
    <3>5. \A d \in Conns : \A i \in DOMAIN got'[d] : got'[d][i] = d
      BY <2>3, <2>5 DEF SentInv
    <3>6. client[c] = "open"
      BY <2>2 DEF ConnInv
    <3> QED
      BY <2>2, <2>3, <2>7, <3>3, <3>4, <3>5, <3>6 DEF SentInv, Live
  <2> QED
    BY <2>1, <2>6, <2>7
<1>7. ASSUME NEW h \in Known, SendError(h) PROVE SentInv'
  <2>1. /\ conn[h] \in Conns /\ conn[h] # None /\ conn[h] \in gone /\ Close(h)
        /\ UNCHANGED <<got, gone, main>>
    BY <1>7 DEF SendError, TypeOK
  <2>2. \A i \in DOMAIN got[conn[h]] : got[conn[h]][i] = conn[h]
    BY <2>1 DEF SentInv
  <2> QED
    BY <2>1, <2>2, CloseSent DEF Live
<1>8. CASE PutRequest
  BY <1>8, QuietSent DEF PutRequest, clients, handlers, Live
<1>9. CASE Mark
  BY <1>9, QuietSent DEF Mark, clients, Live
<1>10. CASE EndLoop
  BY <1>10, QuietSent DEF EndLoop, clients, handlers, Live
<1>11. ASSUME NEW w \in Workers, Take(w) PROVE SentInv'
  BY <1>11, QuietSent DEF Take, clients, handlers, Live
<1>12. ASSUME NEW w \in Workers, Stop(w) PROVE SentInv'
  BY <1>12, QuietSent DEF Stop, clients, handlers, Live
<1>13. ASSUME NEW w \in Workers, WriteBuffer(w) PROVE SentInv'
  <2> DEFINE h == worker[w].rh
             c == conn[h]
             o == [i \in 1 .. Size |-> c]
  <2>1. /\ Ready(h) /\ h \in Known /\ worker[w].req = c /\ output[h] = <<>>
        /\ c # None /\ c \in Conns
    BY <1>13 DEF WriteBuffer, WorkerInv, Serving, Ready, TypeOK
  <2>2. o \in Seq(Conns) /\ Len(o) = Size /\ \A i \in DOMAIN o : o[i] = c
    BY <2>1, AsyncServerAssumption
  <2>3. /\ output'[h] = o
        /\ \A g \in Known \ {h} : output'[g] = output[g]
        /\ Known' = Known
        /\ UNCHANGED <<client, gone, got, conn, main>>
    <3>1. /\ output' = [output EXCEPT ![h] = @ \o o]
          /\ UNCHANGED <<client, gone, got, created, conn, main>>
      BY <1>13, <2>1 DEF WriteBuffer, clients
    <3>2. <<>> \o o = o
      BY <2>2
    <3> QED
      BY <2>1, <3>1, <3>2 DEF TypeOK, Known
  <2>4. got[c] = <<>>
    BY <2>1 DEF SentInv, Whole
  <2>5. o # <<>> /\ Len(got[c]) + Len(o) = Size
    BY <2>2, <2>4, AsyncServerAssumption
  <2> HIDE DEF o
  <2>6. \A g \in Known' : Whole(g)'
    BY <2>3, <2>5 DEF SentInv, Whole
  <2>7. \A g \in Known' : \A i \in DOMAIN output'[g] : output'[g][i] = conn'[g]
    BY <2>2, <2>3 DEF SentInv
  <2> QED
    BY <2>3, <2>6, <2>7 DEF SentInv, Live
<1>14. ASSUME NEW w \in Workers, Fail(w) PROVE SentInv'
  <2> DEFINE h == worker[w].rh
  <2>1. /\ h \in Known /\ conn[h] \in Conns /\ conn[h] # None
        /\ output[h] = <<>> /\ Close(h)
        /\ UNCHANGED <<got, gone, main>>
    BY <1>14 DEF Fail, WorkerInv, Serving, Ready, TypeOK
  <2>2. got[conn[h]] = <<>> \/ Len(got[conn[h]]) + Len(output[h]) = Size
    BY <2>1 DEF SentInv, Whole
  <2>3. Len(got[conn[h]]) \in {0, Size}
    BY <2>1, <2>2 DEF TypeOK
  <2>4. \A i \in DOMAIN got[conn[h]] : got[conn[h]][i] = conn[h]
    BY <2>1 DEF SentInv
  <2> QED
    BY <2>1, <2>3, <2>4, CloseSent DEF Live
<1>15. CASE Shutdown
  BY <1>15, QuietSent DEF Shutdown, clients, handlers, Live
<1>16. CASE PutSentinel
  BY <1>16, QuietSent DEF PutSentinel, clients, handlers, Live
<1>17. CASE Join
  BY <1>17, QuietSent DEF Join, clients, handlers, Live
<1>18. ASSUME NEW h \in Known, CloseNext(h) PROVE SentInv'
  <2>1. /\ conn[h] \in Conns /\ conn[h] # None /\ Close(h) /\ ~Live
        /\ UNCHANGED <<got, gone, main>>
    BY <1>18 DEF CloseNext, Live, TypeOK
  <2>2. \A i \in DOMAIN got[conn[h]] : got[conn[h]][i] = conn[h]
    BY <2>1 DEF SentInv
  <2> QED
    BY <2>1, <2>2, CloseSent DEF Live
<1>19. CASE End
  BY <1>19, QuietSent DEF End, clients, handlers, Live
<1>20. CASE UNCHANGED vars
  BY <1>20, QuietSent DEF vars, clients, handlers, Live
<1> QED
  BY <1>1, <1>2, <1>3, <1>4, <1>5, <1>6, <1>7, <1>8, <1>9, <1>10, <1>11,
     <1>12, <1>13, <1>14, <1>15, <1>16, <1>17, <1>18, <1>19, <1>20
     DEF Next, Asyncore, Worker, Main, Accept

-----------------------------------------------------------------------------
(* The theorems.                                                           *)

\* The initial state satisfies the inductive invariant.
LEMMA InitInv == Init => IInv
<1> SUFFICES ASSUME Init PROVE IInv
  OBVIOUS
<1>1. TypeOK
  BY InitType
<1>2. Known = {} /\ Serving = {}
  BY DEF Init, Known, Serving, Idle
<1>3. FreeInv /\ QueueInv
  BY DEF Init, FreeInv, QueueInv
<1>4. ConnInv
  BY <1>2 DEF ConnInv
<1>5. PollInv /\ WorkerInv
  BY <1>2 DEF Init, PollInv, WorkerInv, Live
<1> QED
  BY <1>1, <1>3, <1>4, <1>5 DEF IInv

\* What the threads do keeps the types: in particular a thread that works on
\* a handler has one, and the request queue never holds more than its maxsize.
THEOREM TypeCorrect == Spec => []TypeOK
<1>1. Init => TypeOK
  BY InitType
<1>2. TypeOK /\ [Next]_vars => TypeOK'
  BY TypeStep
<1> QED
  BY <1>1, <1>2, PTL DEF Spec

\* The inductive invariant: with one write per response, a handler in the
\* request queue or with a worker has a connection, the request of this
\* connection, and no response yet.
THEOREM Invariance == Writes = 1 /\ Spec => []IInv
<1>1. Init => IInv
  BY InitInv
<1>2. Writes = 1 /\ IInv /\ [Next]_vars => IInv'
  <2> SUFFICES ASSUME Writes = 1, IInv, [Next]_vars PROVE IInv'
    OBVIOUS
  <2>1. TypeOK'
    BY TypeStep DEF IInv
  <2>2. FreeInv' /\ ConnInv'
    BY <2>1, FreeConnStep
  <2>3. WorkInv'
    BY <2>1, WorkStep
  <2> QED
    BY <2>1, <2>2, <2>3 DEF IInv, WorkInv
<1>3. CASE Writes = 1
  <2>1. IInv /\ [Next]_vars => IInv'
    BY <1>2, <1>3
  <2> QED
    BY <1>1, <2>1, PTL DEF Spec
<1> QED
  BY <1>3

\* With one write per response no connection has two handlers, and a handler
\* is in rh_queue once and only while it has no connection (close, 352-364).
THEOREM HandlersAreExclusive == Writes = 1 /\ Spec => []HandlerExclusive
<1>1. IInv => HandlerExclusive
  BY DEF IInv, FreeInv, ConnInv, HandlerExclusive
<1> QED
  BY <1>1, Invariance, PTL

\* With one write per response a worker has its handler to itself, and the
\* handler keeps the connection that the request came from.
THEOREM WorkersServeTheirConnection == Writes = 1 /\ Spec => []ServesItsConnection
<1>1. IInv => ServesItsConnection
  BY DEF IInv, WorkerInv, Ready, ServesItsConnection
<1> QED
  BY <1>1, Invariance, PTL
\* With one write per response a client gets the response to its own request,
\* whole or not at all, unless it resets the connection or the server closes
\* all connections at its end (handle_write, 341-350).
THEOREM ResponsesAreWhole == Writes = 1 /\ Spec => []AnsweredInFull
<1>1. Init => SentInv
  BY DEF Init, SentInv, Known
<1>2. Writes = 1 /\ IInv /\ SentInv /\ [Next]_vars => SentInv'
  BY TypeStep, SentStep DEF IInv
<1>3. Writes = 1 /\ SentInv => AnsweredInFull
  <2> SUFFICES ASSUME Writes = 1, SentInv PROVE AnsweredInFull
    OBVIOUS
  <2>1. Writes * Size = Size
    BY AsyncServerAssumption
  <2> QED
    BY <2>1 DEF SentInv, AnsweredInFull, Live
<1>4. CASE Writes = 1
  <2>1. IInv /\ SentInv /\ [Next]_vars => SentInv'
    BY <1>2, <1>4
  <2>2. SentInv => AnsweredInFull
    BY <1>3, <1>4
  <2>3. Spec => []IInv
    BY <1>4, Invariance
  <2> QED
    BY <1>1, <2>1, <2>2, <2>3, PTL DEF Spec
<1> QED
  BY <1>4
=============================================================================
