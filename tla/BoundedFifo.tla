----------------------------- MODULE BoundedFifo -----------------------------
(***************************************************************************)
(* What a queue (src/queue.c) promises to its callers: a bounded FIFO that *)
(* after an interrupt still hands out what is pending and only then tells  *)
(* its consumer to stop.  A blocking queue takes nothing in after the      *)
(* interrupt; a queue that does not block replaces its newest message when *)
(* no node is free.                                                        *)
(***************************************************************************)
EXTENDS QueueOps

CONSTANTS Messages,    \* what producers put
          QueueSize    \* queue_size of queue_create

VARIABLES q,           \* the queue, a value of QueueOps
          ended,       \* the consumer was told that nothing will follow
          blocking     \* blocking of queue_create

fifoVars == <<q, ended, blocking>>

FifoInit == q = NewQueue /\ ended = FALSE /\ blocking \in BOOLEAN

Accept(m) ==
  /\ blocking => ~q.poison
  /\ HasFree(q, QueueSize)
  /\ q' = QueueValue(Append(q.filled, m), q.detached, q.poison)
  /\ UNCHANGED ended

Replace(m) ==
  /\ ~blocking
  /\ ~HasFree(q, QueueSize)
  /\ q.filled # <<>>
  /\ q' = QueueValue([q.filled EXCEPT ![Len(q.filled)] = m], q.detached, q.poison)
  /\ UNCHANGED ended

Deliver ==
  /\ q.filled # <<>>
  /\ q.detached = NULL
  /\ q' = AfterTake(q)
  /\ UNCHANGED ended

Finish ==
  /\ q.detached # NULL
  /\ q' = AfterComplete(q)
  /\ UNCHANGED ended

Close == q' = AfterInterrupt(q) /\ UNCHANGED ended

End ==
  /\ q.poison
  /\ TakeIsEnd(q)
  /\ q.detached = NULL
  /\ ended' = TRUE
  /\ UNCHANGED q

Reopen ==
  /\ q.detached = NULL
  /\ q' = AfterReset(q)
  /\ ended' = FALSE

FifoNext ==
  /\ \/ \E m \in Messages : Accept(m) \/ Replace(m)
     \/ Deliver
     \/ Finish
     \/ Close
     \/ End
     \/ Reopen
  /\ UNCHANGED blocking

FifoSpec == FifoInit /\ [][FifoNext]_fifoVars
=============================================================================
