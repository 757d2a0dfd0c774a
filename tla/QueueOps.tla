------------------------------ MODULE QueueOps ------------------------------
(***************************************************************************)
(* A message queue (src/queue.c) as its callers see it: a value with the   *)
(* pending messages, the message being processed and the poison pill.      *)
(* Every operation of queue.h is an operator on that value.  The modules   *)
(* of the worker threads keep their queues as such values; module Queue    *)
(* shows that the implementation behaves like this.                        *)
(***************************************************************************)
EXTENDS Naturals, Sequences

CONSTANT NULL    \* no message: message.buffer == NULL in the code

QueueValue(filled, detached, poison) ==
  [filled |-> filled, detached |-> detached, poison |-> poison]

\* queue_create: nothing is pending and nothing is being processed.
NewQueue == QueueValue(<<>>, NULL, FALSE)

\* The number of nodes that are not on the free list.
InUse(q) == Len(q.filled) + (IF q.detached = NULL THEN 0 ELSE 1)

\* first_free_node != NULL
HasFree(q, size) == InUse(q) < size

\* A queue_put on a blocking queue returns: at once with -1 when the queue was
\* interrupted, otherwise as soon as a node is free.
PutReturns(q, size) == q.poison \/ HasFree(q, size)

\* The queue after a queue_put on a blocking queue returned.
AfterPut(q, m) == IF q.poison THEN q ELSE QueueValue(Append(q.filled, m), q.detached, q.poison)

\* queue_take returns: it has a message or it was interrupted and is drained.
TakeReturns(q) == q.poison \/ q.filled # <<>>

\* queue_take returned message.buffer == NULL: the consumer's loop ends.
TakeIsEnd(q) == q.filled = <<>>

\* queue_take and queue_peak with a message: it is detached.
AfterTake(q) == QueueValue(Tail(q.filled), Head(q.filled), q.poison)

\* queue_complete: the detached node is free again.
AfterComplete(q) == QueueValue(q.filled, NULL, q.poison)

\* queue_interrupt
AfterInterrupt(q) == QueueValue(q.filled, q.detached, TRUE)

\* queue_reset drops the pending messages and the poison pill.
AfterReset(q) == QueueValue(<<>>, q.detached, FALSE)
=============================================================================
