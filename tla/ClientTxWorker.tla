--------------------------- MODULE ClientTxWorker ---------------------------
(***************************************************************************)
(* src/client_tx_worker.c: the only thread that writes to the client.      *)
(* Every other thread puts what it has to say on this worker's queue.  The *)
(* worker learns the socket of the client, like everything else, from a    *)
(* message on that queue, so its client_socket lags behind the acceptor.   *)
(*                                                                         *)
(* The socket is a number.  The server serves one client at a time, and    *)
(* the kernel hands out the lowest number that is free, so every client    *)
(* gets the number Fd; conn is the connection that Fd stands for.          *)
(***************************************************************************)
EXTENDS QueueOps, Integers

CONSTANTS MaxClients,    \* bound: connections in a behaviour
          CtxQueueSize   \* queue_size of the configuration

VARIABLES ctxQueue,      \* worker->queue
          ctxPc,         \* where the worker's thread is
          client_socket, \* worker->client_socket
          conn,          \* the connection last accepted, 0 before the first
          fdOpen,        \* Fd is open: it stands for conn
          left,          \* the client of conn closed its end
          got            \* what the client of conn received so far

ctxVars == <<ctxQueue, ctxPc, client_socket>>
netVars == <<conn, fdOpen, left, got>>

Fd == 1

\* A queue_message: its type, request_id (the socket for "new"), the connection whose
\* request it answers and the status of the response.
CtxMessage(type, id, for, ok) == [type |-> type, id |-> id, for |-> for, ok |-> ok]

SendNew(socket) == CtxMessage("new", socket, 0, TRUE)
SendSoftBits(id) == CtxMessage("softBits", id, 0, TRUE)
SendResponse(r, ok) == CtxMessage("response", r.id, r.for, ok)
SendTxComplete(r, ok) == CtxMessage("complete", r.id, r.for, ok)

CtxInit ==
  /\ ctxQueue = NewQueue
  /\ ctxPc = "take"
  /\ client_socket = -1
  /\ conn = 0
  /\ fdOpen = FALSE
  /\ left = FALSE
  /\ got = <<>>

\* The queue_put inside the client_tx_worker_send_* functions.
PutCtx(m) ==
  /\ PutReturns(ctxQueue, CtxQueueSize)
  /\ ctxQueue' = AfterPut(ctxQueue, m)

-----------------------------------------------------------------------------
\* write() to Fd succeeds while it is open.  It reaches whichever client Fd stands for
\* now, unless that client has gone.
WriteSucceeds(part) ==
  /\ fdOpen
  /\ got' = IF left THEN got ELSE Append(got, part)

\* write() fails on a closed descriptor and once the client's end is known to be closed.
WriteFails == (~fdOpen \/ left) /\ UNCHANGED got

\* queue_take; an interrupted queue is drained before the thread ends.
CtxTake ==
  /\ ctxPc = "take"
  /\ TakeReturns(ctxQueue)
  /\ \/ TakeIsEnd(ctxQueue) /\ ctxPc' = "done" /\ UNCHANGED ctxQueue
     \/ ~TakeIsEnd(ctxQueue) /\ ctxPc' = "handle" /\ ctxQueue' = AfterTake(ctxQueue)
  /\ UNCHANGED <<client_socket, netVars>>

\* The end of the switch, and queue_complete.
CtxComplete ==
  /\ ctxQueue' = AfterComplete(ctxQueue)
  /\ ctxPc' = "take"

\* CLIENT_TX_NEW_CLIENT
CtxNewClient ==
  /\ ctxPc = "handle"
  /\ ctxQueue.detached.type = "new"
  /\ client_socket' = ctxQueue.detached.id
  /\ CtxComplete
  /\ UNCHANGED netVars

\* Any other message: dropped without a client, otherwise its header is written.
CtxHeader ==
  /\ ctxPc = "handle"
  /\ ctxQueue.detached.type # "new"
  /\ \/ client_socket = -1 /\ CtxComplete /\ UNCHANGED <<client_socket, got>>
     \/ /\ client_socket = Fd
        /\ WriteSucceeds([part |-> "header", msg |-> ctxQueue.detached])
        /\ ctxPc' = "body"
        /\ UNCHANGED <<ctxQueue, client_socket>>
     \/ client_socket = Fd /\ WriteFails /\ client_socket' = -1 /\ CtxComplete
  /\ UNCHANGED <<conn, fdOpen, left>>

\* The payload follows with a write of its own.
CtxBody ==
  /\ ctxPc = "body"
  /\ \/ WriteSucceeds([part |-> "body", msg |-> ctxQueue.detached]) /\ UNCHANGED client_socket
     \/ WriteFails /\ client_socket' = -1
  /\ CtxComplete
  /\ UNCHANGED <<conn, fdOpen, left>>

CtxStep == CtxTake \/ CtxNewClient \/ CtxHeader \/ CtxBody
=============================================================================
