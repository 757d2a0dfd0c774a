----------------------------- MODULE SdrRxWorker -----------------------------
(***************************************************************************)
(* src/sdr_rx_worker.c: the thread that configures the receiver, starts    *)
(* and stops it, and turns samples into soft bits for the client.          *)
(*   ~push: the worker reads samples itself (sdr_process_rx of the         *)
(*          PlutoSDR and of a file);                                       *)
(*   push:  the SDR library calls sdr_rx_callback from a thread of its own *)
(*          (Airspy), which runs between start_rx and stop_rx.             *)
(* A modem is a number, 0 stands for NULL.                                 *)
(***************************************************************************)
EXTENDS ClientTxWorker

CONSTANTS RxReadFails,   \* sdr_process_rx may fail for good (end of file, device error)
          RxQueueSize,   \* SDR_RX_MESSAGE_QUEUE_SIZE, smaller here
          MaxSoftBits    \* bound: messages with soft bits in a behaviour

VARIABLES push,          \* the kind of SDR, fixed by the configuration
          rxQueue,       \* worker->queue
          rxPc,          \* where the worker's thread is
          rx_enabled,
          modem,         \* worker->modem, shared with the SDR's thread
          old_modem,     \* the modem that was replaced and is not destroyed yet
          rxOk,          \* status of the response that is about to be sent
          request_id,    \* of the next soft bits
          demod_output,  \* the modem whose output buffer sdr_rx_callback holds
          sdrPc          \* thread of the SDR library: "off", "idle" or "send"

rxVars == <<rxQueue, rxPc, rx_enabled, modem, old_modem, rxOk, request_id,
            demod_output, sdrPc>>

RxInit ==
  /\ push \in BOOLEAN
  /\ rxQueue = NewQueue
  /\ rxPc = "loop"
  /\ rx_enabled = FALSE
  /\ modem = 0
  /\ old_modem = 0
  /\ rxOk = TRUE
  /\ request_id = 0
  /\ demod_output = 0
  /\ sdrPc = "off"

\* sdr_rx_worker_start, sdr_rx_worker_stop and sdr_rx_worker_set_comm_parameters
PutRx(r) ==
  /\ PutReturns(rxQueue, RxQueueSize)
  /\ rxQueue' = AfterPut(rxQueue, r)

-----------------------------------------------------------------------------
\* queue_peak while samples are pulled, otherwise queue_take.
RxTake ==
  /\ rxPc = "loop"
  /\ \/ /\ rx_enabled /\ ~push
        /\ rxQueue.filled = <<>>
        /\ rxPc' = "process"
        /\ UNCHANGED rxQueue
     \/ /\ ~(rx_enabled /\ ~push)
        /\ TakeReturns(rxQueue) /\ TakeIsEnd(rxQueue)
        /\ rxPc' = "done"
        /\ UNCHANGED rxQueue
     \/ /\ rxQueue.filled # <<>>
        /\ rxPc' = "handle"
        /\ rxQueue' = AfterTake(rxQueue)
  /\ UNCHANGED <<rx_enabled, modem, old_modem, rxOk, request_id, demod_output, sdrPc>>
  /\ UNCHANGED <<ctxQueue, ctxPc, client_socket, netVars>>

\* sdr_modem_create: a modem that is none of those still referred to.
NewModem == CHOOSE n \in 1..3 : n \notin {modem, demod_output}

Handling(type) == rxPc = "handle" /\ rxQueue.detached.type = type

\* Mutant: after the failure response the handler goes on (a missing break).
RxParametersFallsThrough ==
  /\ Handling("rxParams")
  /\ \/ /\ PutCtx(SendResponse(rxQueue.detached, FALSE))
        /\ rxOk' = TRUE
        /\ rxPc' = "respond"
        /\ UNCHANGED <<modem, old_modem>>
     \/ /\ modem' = NewModem
        /\ old_modem' = modem
        /\ rxPc' = "swapped"
        /\ UNCHANGED <<rxOk, ctxQueue>>
  /\ UNCHANGED <<rxQueue, rx_enabled, request_id, demod_output, sdrPc>>
  /\ UNCHANGED <<ctxPc, client_socket, netVars>>

\* SDR_RX_COMM_PARAMETERS: the modem or the SDR refuses the settings, or the new modem
\* takes the place of the old one under the mutex.
RxParameters ==
  /\ Handling("rxParams")
  /\ \/ /\ rxOk' = FALSE
        /\ rxPc' = "respond"
        /\ UNCHANGED <<modem, old_modem>>
     \/ /\ modem' = NewModem
        /\ old_modem' = modem
        /\ rxPc' = "swapped"
        /\ UNCHANGED rxOk
  /\ UNCHANGED <<rxQueue, rx_enabled, request_id, demod_output, sdrPc>>
  /\ UNCHANGED <<ctxVars, netVars>>

\* sdr_modem_destroy(old_modem), after the mutex was released.
RxDestroyOld ==
  /\ rxPc = "swapped"
  /\ old_modem' = 0
  /\ rxOk' = TRUE
  /\ rxPc' = "respond"
  /\ UNCHANGED <<rxQueue, rx_enabled, modem, request_id, demod_output, sdrPc>>
  /\ UNCHANGED <<ctxVars, netVars>>

\* SDR_RX_START: what start_rx returns is ignored, so the SDR may stay off.
RxStart ==
  /\ Handling("start")
  /\ rx_enabled' = TRUE
  /\ sdrPc' \in IF ~rx_enabled /\ push THEN {"idle", "off"} ELSE {sdrPc}
  /\ rxOk' = TRUE
  /\ rxPc' = "respond"
  /\ UNCHANGED <<rxQueue, modem, old_modem, request_id, demod_output>>
  /\ UNCHANGED <<ctxVars, netVars>>

\* SDR_RX_STOP: stop_rx of a pushing SDR has to wait for its thread.
RxStop ==
  /\ Handling("stop")
  /\ \/ rx_enabled /\ push /\ rxPc' = "stopping" /\ UNCHANGED rx_enabled
     \/ ~(rx_enabled /\ push) /\ rxPc' = "respond" /\ rx_enabled' = FALSE
  /\ rxOk' = TRUE
  /\ UNCHANGED <<rxQueue, modem, old_modem, request_id, demod_output, sdrPc>>
  /\ UNCHANGED <<ctxVars, netVars>>

\* Mutant: stop_rx returns while the SDR's thread is still in the callback.
RxStoppedEarly ==
  /\ rxPc = "stopping"
  /\ rx_enabled' = FALSE
  /\ rxPc' = "respond"
  /\ sdrPc' = IF sdrPc = "idle" THEN "off" ELSE sdrPc
  /\ UNCHANGED <<rxQueue, modem, old_modem, rxOk, request_id, demod_output>>
  /\ UNCHANGED <<ctxVars, netVars>>

\* stop_rx returns when the SDR's thread is not in the callback.
RxStopped ==
  /\ rxPc = "stopping"
  /\ sdrPc # "send"
  /\ sdrPc' = "off"
  /\ rx_enabled' = FALSE
  /\ rxPc' = "respond"
  /\ UNCHANGED <<rxQueue, modem, old_modem, rxOk, request_id, demod_output>>
  /\ UNCHANGED <<ctxVars, netVars>>

\* client_tx_worker_send_response, queue_complete and the tests behind them.
RxRespond ==
  /\ rxPc = "respond"
  /\ PutCtx(SendResponse(rxQueue.detached, rxOk))
  /\ rxQueue' = AfterComplete(rxQueue)
  /\ rxPc' = IF rx_enabled /\ ~push THEN "process" ELSE "loop"
  /\ rxOk' = TRUE
  /\ UNCHANGED <<rx_enabled, modem, old_modem, request_id, demod_output, sdrPc>>
  /\ UNCHANGED <<ctxPc, client_socket, netVars>>

-----------------------------------------------------------------------------
\* sdr_modem_demodulate under the mutex returned a buffer of the current modem.
Demodulate ==
  /\ modem # 0
  /\ request_id < MaxSoftBits
  /\ demod_output' = modem

\* The end of sdr_rx_callback: client_tx_worker_send_soft_bits and request_id++.
SendDemodulated ==
  /\ PutCtx(SendSoftBits(request_id))
  /\ request_id' = request_id + 1
  /\ demod_output' = 0

\* sdr_process_rx: a timeout or samples without soft bits, samples, or a failure.
RxProcess ==
  /\ rxPc = "process"
  /\ \/ rxPc' = "loop" /\ UNCHANGED demod_output
     \/ Demodulate /\ rxPc' = "send"
     \/ RxReadFails /\ rxPc' = "done" /\ UNCHANGED demod_output
  /\ UNCHANGED <<rxQueue, rx_enabled, modem, old_modem, rxOk, request_id, sdrPc>>
  /\ UNCHANGED <<ctxVars, netVars>>

RxSend ==
  /\ rxPc = "send"
  /\ SendDemodulated
  /\ rxPc' = "loop"
  /\ UNCHANGED <<rxQueue, rx_enabled, modem, old_modem, rxOk, sdrPc>>
  /\ UNCHANGED <<ctxPc, client_socket, netVars>>

\* The SDR's thread calls sdr_rx_callback.
SdrCallback ==
  /\ sdrPc = "idle"
  /\ rxPc # "stopping"
  /\ Demodulate
  /\ sdrPc' = "send"
  /\ UNCHANGED <<rxQueue, rxPc, rx_enabled, modem, old_modem, rxOk, request_id>>
  /\ UNCHANGED <<ctxVars, netVars>>

SdrSend ==
  /\ sdrPc = "send"
  /\ SendDemodulated
  /\ sdrPc' = "idle"
  /\ UNCHANGED <<rxQueue, rxPc, rx_enabled, modem, old_modem, rxOk>>
  /\ UNCHANGED <<ctxPc, client_socket, netVars>>

RxStep ==
  \/ RxTake \/ RxParameters \/ RxDestroyOld \/ RxStart \/ RxStop \/ RxStopped
  \/ RxRespond \/ RxProcess \/ RxSend

SdrStep == SdrCallback \/ SdrSend
=============================================================================
