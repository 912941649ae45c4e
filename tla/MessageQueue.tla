---------------------------- MODULE MessageQueue ----------------------------
(***************************************************************************)
(* What the queues between the processes of a server promise               *)
(* (core.servicetypes.asyncserver): a message that is put comes out once,  *)
(* whole, and in the order in which the messages were put.                 *)
(***************************************************************************)
EXTENDS Sequences

CONSTANT Messages

VARIABLES
  unput,      \* the messages that have not been put
  inQueue,    \* the messages in the queue
  delivered   \* the messages that were got, in this order

fifoVars == <<unput, inQueue, delivered>>

FifoInit == unput = Messages /\ inQueue = <<>> /\ delivered = <<>>

PutMessage(m) ==
  /\ m \in unput
  /\ unput' = unput \ {m}
  /\ inQueue' = Append(inQueue, m)
  /\ UNCHANGED delivered

GetMessage ==
  /\ inQueue # <<>>
  /\ inQueue' = Tail(inQueue)
  /\ delivered' = Append(delivered, Head(inQueue))
  /\ UNCHANGED unput

FifoSpec ==
  FifoInit /\ [][(\E m \in Messages : PutMessage(m)) \/ GetMessage]_fifoVars
=============================================================================
