---------------------------- MODULE AsyncServer ----------------------------
(***************************************************************************)
(* The TCP server of a Porcupine process (core.servicetypes.asyncserver).  *)
(*                                                                         *)
(* One asyncore thread accepts connections, reads requests and sends       *)
(* responses.  A connection is looked after by a RequestHandler, which is  *)
(* reused for other connections when it is closed.  Worker threads take    *)
(* the handlers with a complete request from a bounded queue and write     *)
(* the response into the handler.  The main thread stops the workers with  *)
(* one sentinel each.                                                      *)
(*                                                                         *)
(* An operator named Mutant... is the next definition with a plausible     *)
(* mistake.  Nothing uses it: it serves to test that the properties notice.*)
(***************************************************************************)
EXTENDS Integers, Sequences, FiniteSets

CONSTANTS
  Workers,   \* the worker threads
  MaxConns,  \* bound: the connections that clients make
  Writes,    \* bound: calls of write_buffer per response
  Size       \* bound: units of a response that one write adds

ASSUME AsyncServerAssumption ==
  /\ IsFiniteSet(Workers) /\ Workers # {}
  /\ MaxConns \in Nat
  /\ Writes \in Nat \ {0}
  /\ Size \in Nat \ {0}

Conns    == 1 .. MaxConns  \* numbered in the order they are accepted
None     == 0              \* no connection
Sentinel == 0              \* None in the request queue; handlers are 1, 2...

\* The maxsize of request_queue.
QueueSize == 2 * Cardinality(Workers)

VARIABLES
  client,      \* each connection as the server sees it
  gone,        \* the connections that their client has reset
  unread,      \* what the next recv on a connection returns
  got,         \* the units of responses sent on a connection
  created,     \* number of handlers created
  conn,        \* the connection of a handler, None when it is closed
  input,       \* input_buffer: the connection whose request it holds
  hasRequest,  \* has_request
  output,      \* output_buffer: one element per unit of a response
  free,        \* rh_queue
  queue,       \* request_queue
  poll,        \* the asyncore thread: what it does, and for which handler
  worker,      \* each worker thread
  main         \* the main thread, and the sentinels it has still to put

clients  == <<client, gone, unread, got>>
handlers == <<created, conn, input, hasRequest, output, free>>
vars == <<clients, handlers, queue, poll, worker, main>>

Known == 1 .. created

Idle == [at |-> "idle", rh |-> Sentinel, req |-> None, left |-> 0]

WorkerState ==
  [at : {"idle", "serving", "stopped"}, rh : Known \cup {Sentinel},
   req : Conns \cup {None}, left : 0 .. Writes]

\* The types; a thread that works on a handler has one.
TypeOK ==
  /\ client \in [Conns -> {"away", "open", "closed"}]
  /\ gone \subseteq Conns
  /\ unread \in [Conns -> {"request", "eof"}]
  /\ got \in [Conns -> Seq(Conns)]
  /\ created \in Nat
  /\ conn \in [Known -> Conns \cup {None}]
  /\ input \in [Known -> Conns \cup {None}]
  /\ hasRequest \in [Known -> BOOLEAN]
  /\ output \in [Known -> Seq(Conns)]
  /\ free \in Seq(Known)
  /\ queue \in Seq(Known \cup {Sentinel})
  /\ Len(queue) <= QueueSize
  /\ poll \in [at : {"poll", "put", "mark", "ended"}, rh : Known \cup {Sentinel}]
  /\ worker \in [Workers -> WorkerState]
  /\ \A w \in Workers : worker[w].at = "serving" =>
       worker[w].rh \in Known /\ worker[w].left > 0
  /\ poll.at \in {"put", "mark"} => poll.rh \in Known
  /\ main \in [at : {"running", "stopping", "closing", "ended"},
               toPut : 0 .. Cardinality(Workers)]

Init ==
  /\ client = [c \in Conns |-> "away"]
  /\ gone = {}
  /\ unread = [c \in Conns |-> "request"]
  /\ got = [c \in Conns |-> <<>>]
  /\ created = 0
  /\ conn = <<>>
  /\ input = <<>>
  /\ hasRequest = <<>>
  /\ output = <<>>
  /\ free = <<>>
  /\ queue = <<>>
  /\ poll = [at |-> "poll", rh |-> Sentinel]
  /\ worker = [w \in Workers |-> Idle]
  /\ main = [at |-> "running", toPut |-> 0]

-----------------------------------------------------------------------------
(* The clients.                                                            *)

\* A client resets its connection.
Reset(c) ==
  /\ client[c] = "open"
  /\ gone' = gone \cup {c}
  /\ UNCHANGED <<client, unread, got, handlers, queue, poll, worker, main>>

-----------------------------------------------------------------------------
(* The asyncore thread.                                                    *)

\* RequestHandler.close, called by any thread.
Close(h) ==
  /\ client' = IF conn[h] = None THEN client
               ELSE [client EXCEPT ![conn[h]] = "closed"]
  /\ conn' = [conn EXCEPT ![h] = None]
  /\ input' = [input EXCEPT ![h] = None]
  /\ hasRequest' = [hasRequest EXCEPT ![h] = FALSE]
  /\ output' = [output EXCEPT ![h] = <<>>]
  /\ free' = Append(free, h)
  /\ UNCHANGED created

\* Dispatcher.handle_accept with an inactive handler.  A handler that is in
\* rh_queue twice may still have a connection, which it loses.
AcceptReusing(c) ==
  /\ free # <<>>
  /\ LET h == Head(free)
     IN /\ client' = [d \in Conns |->
                        CASE d = c -> "open"
                          [] d # c /\ d = conn[h] -> "closed"
                          [] OTHER -> client[d]]
        /\ conn' = [conn EXCEPT ![h] = c]
  /\ free' = Tail(free)
  /\ UNCHANGED <<created, input, hasRequest, output>>

\* Dispatcher.handle_accept with a new one.
AcceptCreating(c) ==
  /\ free = <<>>
  /\ client' = [client EXCEPT ![c] = "open"]
  /\ created' = created + 1
  /\ conn' = Append(conn, c)
  /\ input' = Append(input, None)
  /\ hasRequest' = Append(hasRequest, FALSE)
  /\ output' = Append(output, <<>>)
  /\ UNCHANGED free

\* The client sends a request, or closes at once.
Accept(c) ==
  /\ poll.at = "poll"
  /\ main.at = "running"
  /\ client[c] = "away" /\ \A d \in 1 .. c - 1 : client[d] # "away"
  /\ AcceptReusing(c) \/ AcceptCreating(c)
  /\ \E first \in {"request", "eof"} : unread' = [unread EXCEPT ![c] = first]
  /\ UNCHANGED <<gone, got, queue, poll, worker, main>>

MutantReadable(h) == conn[h] # None

\* readable(): the handler has no request yet.
Readable(h) == conn[h] # None /\ ~hasRequest[h]

\* handle_read with data.
Receive(h) ==
  /\ poll.at = "poll"
  /\ Readable(h)
  /\ unread[conn[h]] = "request"
  /\ conn[h] \notin gone
  /\ input' = [input EXCEPT ![h] = conn[h]]
  /\ unread' = [unread EXCEPT ![conn[h]] = "eof"]
  /\ UNCHANGED <<client, gone, got, created, conn, hasRequest, output, free,
                 queue, poll, worker, main>>

\* handle_read at the end of the data: a connection reset by its client reads
\* as ended too.  The request is complete, or there was none.
ReceiveEnd(h) ==
  /\ poll.at = "poll"
  /\ Readable(h)
  /\ unread[conn[h]] = "eof" \/ conn[h] \in gone
  /\ \/ /\ input[h] = None
        /\ Close(h)
        /\ UNCHANGED poll
     \/ /\ input[h] # None
        /\ poll' = [at |-> "put", rh |-> h]
        /\ UNCHANGED <<client, handlers>>
  /\ UNCHANGED <<gone, unread, got, queue, worker, main>>

\* request_queue.put(self) blocks while the queue is full.
PutRequest ==
  /\ poll.at = "put"
  /\ Len(queue) < QueueSize
  /\ queue' = Append(queue, poll.rh)
  /\ poll' = [poll EXCEPT !.at = "mark"]
  /\ UNCHANGED <<clients, handlers, worker, main>>

\* self.has_request = True, while a worker may have the handler already.
Mark ==
  /\ poll.at = "mark"
  /\ hasRequest' = [hasRequest EXCEPT ![poll.rh] = TRUE]
  /\ poll' = [at |-> "poll", rh |-> Sentinel]
  /\ UNCHANGED <<clients, created, conn, input, output, free, queue, worker,
                 main>>

MutantSentAll(h, n) == TRUE

\* n units make up what is in output_buffer.
SentAll(h, n) == n = Len(output[h])

\* handle_write: send as much as the socket takes, and close the connection
\* when output_buffer is empty.
Send(h) ==
  /\ poll.at = "poll"
  /\ conn[h] # None
  /\ hasRequest[h]
  /\ output[h] # <<>>
  /\ conn[h] \notin gone
  /\ \E n \in 1 .. Len(output[h]) :
       /\ got' = [got EXCEPT ![conn[h]] = @ \o SubSeq(output[h], 1, n)]
       /\ \/ SentAll(h, n) /\ Close(h)
          \/ /\ ~SentAll(h, n)
             /\ output' = [output EXCEPT
                             ![h] = SubSeq(@, n + 1, Len(@))]
             /\ UNCHANGED <<client, created, conn, input, hasRequest, free>>
  /\ UNCHANGED <<gone, unread, queue, poll, worker, main>>

\* handle_write: sending raises socket.error.
SendError(h) ==
  /\ poll.at = "poll"
  /\ conn[h] # None
  /\ hasRequest[h]
  /\ output[h] # <<>>
  /\ conn[h] \in gone
  /\ Close(h)
  /\ UNCHANGED <<gone, unread, got, queue, poll, worker, main>>

\* asyncore.loop returns when no channel is left in the map.
EndLoop ==
  /\ poll.at = "poll"
  /\ main.at # "running"
  /\ \A h \in Known : conn[h] = None
  /\ poll' = [poll EXCEPT !.at = "ended"]
  /\ UNCHANGED <<clients, handlers, queue, worker, main>>

-----------------------------------------------------------------------------
(* The worker threads.                                                     *)

\* _thread_loop takes a handler, and handle_request loads its request.
Take(w) ==
  /\ worker[w].at = "idle"
  /\ queue # <<>>
  /\ Head(queue) # Sentinel
  /\ worker' = [worker EXCEPT ![w] = [at |-> "serving", rh |-> Head(queue),
                                      req |-> input[Head(queue)],
                                      left |-> Writes]]
  /\ queue' = Tail(queue)
  /\ UNCHANGED <<clients, handlers, poll, main>>

\* _thread_loop takes a sentinel.
Stop(w) ==
  /\ worker[w].at = "idle"
  /\ queue # <<>>
  /\ Head(queue) = Sentinel
  /\ worker' = [worker EXCEPT ![w].at = "stopped"]
  /\ queue' = Tail(queue)
  /\ UNCHANGED <<clients, handlers, poll, main>>

MutantServed(w) == [worker[w] EXCEPT !.left = @ - 1]

\* The worker after one more write: it is done after the last one.
Served(w) ==
  IF worker[w].left = 1 THEN Idle ELSE [worker[w] EXCEPT !.left = @ - 1]

\* The request interface writes a part of the response.
WriteBuffer(w) ==
  /\ worker[w].at = "serving"
  /\ worker[w].req # None
  /\ output' = [output EXCEPT ![worker[w].rh] =
                  @ \o [i \in 1 .. Size |-> worker[w].req]]
  /\ worker' = [worker EXCEPT ![w] = Served(w)]
  /\ UNCHANGED <<clients, created, conn, input, hasRequest, free, queue, poll,
                 main>>

MutantFail(w) ==
  /\ worker[w].at = "serving" /\ worker' = [worker EXCEPT ![w] = Idle]
  /\ UNCHANGED <<clients, handlers, queue, poll, main>>

\* handle_request raises: _thread_loop closes the handler.
Fail(w) ==
  /\ worker[w].at = "serving"
  /\ Close(worker[w].rh)
  /\ worker' = [worker EXCEPT ![w] = Idle]
  /\ UNCHANGED <<gone, unread, got, queue, poll, main>>

-----------------------------------------------------------------------------
(* The main thread: Controller.shutdown.                                   *)

MutantSentinels == Cardinality(Workers) - 1

\* _stop_workers puts as many sentinels as there are workers.
Sentinels == Cardinality(Workers)

\* BaseServer.shutdown closes the server socket.
Shutdown ==
  /\ main.at = "running"
  /\ main' = [at |-> "stopping", toPut |-> Sentinels]
  /\ UNCHANGED <<clients, handlers, queue, poll, worker>>

PutSentinel ==
  /\ main.at = "stopping"
  /\ main.toPut > 0
  /\ Len(queue) < QueueSize
  /\ queue' = Append(queue, Sentinel)
  /\ main' = [main EXCEPT !.toPut = @ - 1]
  /\ UNCHANGED <<clients, handlers, poll, worker>>

\* The workers are joined.
Join ==
  /\ main.at = "stopping"
  /\ main.toPut = 0
  /\ \A w \in Workers : worker[w].at = "stopped"
  /\ main' = [main EXCEPT !.at = "closing"]
  /\ UNCHANGED <<clients, handlers, queue, poll, worker>>

\* asyncore.close_all closes the connections that are left one by one.
CloseNext(h) ==
  /\ main.at = "closing"
  /\ conn[h] # None
  /\ Close(h)
  /\ UNCHANGED <<gone, unread, got, queue, poll, worker, main>>

\* The asyncore thread is joined.
End ==
  /\ main.at = "closing"
  /\ \A h \in Known : conn[h] = None
  /\ poll.at = "ended"
  /\ main' = [main EXCEPT !.at = "ended"]
  /\ UNCHANGED <<clients, handlers, queue, poll, worker>>

-----------------------------------------------------------------------------
Asyncore ==
  \/ \E c \in Conns : Accept(c)
  \/ \E h \in Known : Receive(h) \/ ReceiveEnd(h) \/ Send(h) \/ SendError(h)
  \/ PutRequest \/ Mark \/ EndLoop

Main ==
  PutSentinel \/ Join \/ (\E h \in Known : CloseNext(h)) \/ End

Worker(w) == Take(w) \/ Stop(w) \/ WriteBuffer(w) \/ Fail(w)

Next ==
  \/ \E c \in Conns : Reset(c)
  \/ Asyncore
  \/ \E w \in Workers : Worker(w)
  \/ Shutdown \/ Main

Spec == Init /\ [][Next]_vars

(***************************************************************************)
(* Fairness: the operating system runs every thread that can go on, and a  *)
(* handler returns.  Clients send what they have to send or reset.   *)
(***************************************************************************)
Fairness ==
  /\ WF_vars(Asyncore)
  /\ \A w \in Workers : WF_vars(Worker(w))
  /\ WF_vars(Main)

FairSpec == Spec /\ Fairness
-----------------------------------------------------------------------------
(* Properties.                                                             *)

\* A handler that waits in rh_queue waits there once and has no connection,
\* and no two handlers look after the same connection.
HandlerExclusive ==
  /\ \A i, j \in DOMAIN free : free[i] = free[j] => i = j
  /\ \A i \in DOMAIN free : conn[free[i]] = None
  /\ \A g, h \in Known : conn[g] = conn[h] /\ conn[g] # None => g = h

Serving == {w \in Workers : worker[w].at = "serving"}

\* While a worker serves a request its handler keeps the connection that the
\* request came from, and no other worker has the handler or will get it.
ServesItsConnection ==
  \A w \in Serving :
    /\ worker[w].req # None
    /\ conn[worker[w].rh] = worker[w].req
    /\ \A v \in Serving : worker[v].rh = worker[w].rh => v = w
    /\ \A i \in DOMAIN queue : queue[i] # worker[w].rh

\* A client gets the response to its own request, all of it or nothing, unless
\* it resets the connection or the server is stopped.
AnsweredInFull ==
  \A c \in Conns :
    /\ \A i \in DOMAIN got[c] : got[c][i] = c
    /\ client[c] = "closed" /\ c \notin gone
         /\ main.at \in {"running", "stopping"} =>
           Len(got[c]) \in {0, Writes * Size}

\* A handler that was marked as having a request after it was closed: its next
\* connection is never read.
Deaf(h) == conn[h] # None /\ hasRequest[h] /\ input[h] = None

\* Every connection ends, with a response or without, unless a worker failed
\* on the request before its handler was marked and the handler is deaf since.
ConnectionsEnd ==
  \A c \in Conns :
    client[c] = "open" ~>
      client[c] = "closed" \/ \E h \in Known : conn[h] = c /\ Deaf(h)

\* The asyncore thread waits for room in a queue that nobody takes from.
Jammed ==
  /\ poll.at = "put"
  /\ Len(queue) = QueueSize
  /\ \A w \in Workers : worker[w].at = "stopped"

\* Stopping the server ends, unless the requests that come in after the last
\* worker stopped fill the queue.
ShutdownEnds == main.at = "stopping" ~> main.at = "ended" \/ Jammed

\* asyncserver.py:48 "create queue for inactive RequestHandler objects i.e.
\* those served": no worker goes on with a handler that is in rh_queue.
InactiveAreServed ==
  \A w \in Serving : \A i \in DOMAIN free : free[i] # worker[w].rh
=============================================================================
