----------------------------- MODULE SdrTxWorker -----------------------------
(***************************************************************************)
(* src/sdr_tx_worker.c: the thread that modulates frames and sends them    *)
(* through the SDR.  A modulator keeps the tail of a frame in its filters  *)
(* until sdr_modem_modulate_flush.                                         *)
(***************************************************************************)
EXTENDS ClientTxWorker

CONSTANTS TxFails,       \* sdr_process_tx may fail
          TxQueueSize    \* queue_size of the configuration

VARIABLES txQueue,       \* worker->queue
          txPc,          \* where the worker's thread is
          tx_modem,      \* worker->modem != NULL
          tx_pending,    \* modem->tx_pending: the modulator holds the tail of a frame
          txReply        \* the message to the client that is about to be sent

txVars == <<txQueue, txPc, tx_modem, tx_pending, txReply>>

TxInit ==
  /\ txQueue = NewQueue
  /\ txPc = "take"
  /\ tx_modem = FALSE
  /\ tx_pending = FALSE
  /\ txReply = NULL

\* sdr_tx_worker_send and sdr_tx_worker_set_comm_parameters
PutTx(r) ==
  /\ PutReturns(txQueue, TxQueueSize)
  /\ txQueue' = AfterPut(txQueue, r)

TxTake ==
  /\ txPc = "take"
  /\ TakeReturns(txQueue)
  /\ \/ TakeIsEnd(txQueue) /\ txPc' = "done" /\ UNCHANGED txQueue
     \/ ~TakeIsEnd(txQueue) /\ txPc' = "handle" /\ txQueue' = AfterTake(txQueue)
  /\ UNCHANGED <<tx_modem, tx_pending, txReply, ctxVars, netVars>>

\* The message to the client is chosen; it is sent by TxRespond.
TxReplies(m) == txReply' = m /\ txPc' = "respond"

\* SDR_TX_FRAME up to the first sdr_process_tx: without a modem nothing happens, not
\* even an answer; an empty frame leaves nothing in the modulator; when the SDR fails the
\* tail is not flushed.
TxFrame ==
  /\ txPc = "handle"
  /\ txQueue.detached.type = "frame"
  /\ \/ /\ ~tx_modem
        /\ txQueue' = AfterComplete(txQueue)
        /\ txPc' = "take"
        /\ UNCHANGED <<tx_pending, txReply>>
     \/ /\ tx_modem
        /\ tx_pending' \in {TRUE, tx_pending}
        /\ txPc' = "flush"
        /\ UNCHANGED <<txQueue, txReply>>
     \/ /\ tx_modem
        /\ TxFails
        /\ tx_pending' \in {TRUE, tx_pending}
        /\ TxReplies(SendTxComplete(txQueue.detached, FALSE))
        /\ UNCHANGED txQueue
  /\ UNCHANGED <<tx_modem, ctxVars, netVars>>

\* Mutant: the tail is not pushed out.
TxFlushForgotten ==
  /\ txPc = "flush"
  /\ \E ok \in {TRUE, ~TxFails} : TxReplies(SendTxComplete(txQueue.detached, ok))
  /\ UNCHANGED <<txQueue, tx_modem, tx_pending, ctxVars, netVars>>

\* sdr_modem_modulate_flush and the second sdr_process_tx, if there is a tail
TxFlush ==
  /\ txPc = "flush"
  /\ tx_pending' = FALSE
  /\ \E ok \in {TRUE, ~(TxFails /\ tx_pending)} : TxReplies(SendTxComplete(txQueue.detached, ok))
  /\ UNCHANGED <<txQueue, tx_modem, ctxVars, netVars>>

\* SDR_TX_COMM_PARAMETERS: "switch to the new modem only when sdr and modem
\* successfully updated".
TxParameters ==
  /\ txPc = "handle"
  /\ txQueue.detached.type = "txParams"
  /\ \/ TxReplies(SendResponse(txQueue.detached, FALSE)) /\ UNCHANGED <<tx_modem, tx_pending>>
     \/ /\ TxReplies(SendResponse(txQueue.detached, TRUE))
        /\ tx_modem' = TRUE
        /\ tx_pending' = FALSE
  /\ UNCHANGED <<txQueue, ctxVars, netVars>>

\* Mutant: only a success is reported.
TxRespondSuccessOnly ==
  /\ txPc = "respond"
  /\ \/ txReply.ok /\ PutCtx(txReply)
     \/ ~txReply.ok /\ UNCHANGED ctxQueue
  /\ txReply' = NULL
  /\ txQueue' = AfterComplete(txQueue)
  /\ txPc' = "take"
  /\ UNCHANGED <<tx_modem, tx_pending, ctxPc, client_socket, netVars>>

\* client_tx_worker_send_response or client_tx_worker_send_tx_complete, queue_complete
TxRespond ==
  /\ txPc = "respond"
  /\ PutCtx(txReply)
  /\ txReply' = NULL
  /\ txQueue' = AfterComplete(txQueue)
  /\ txPc' = "take"
  /\ UNCHANGED <<tx_modem, tx_pending, ctxPc, client_socket, netVars>>

TxStep == TxTake \/ TxFrame \/ TxFlush \/ TxParameters \/ TxRespond
=============================================================================
