------------------------------ MODULE TcpServer ------------------------------
(***************************************************************************)
(* src/tcp_server.c with its workers: the acceptor thread serves one       *)
(* client at a time and hands the requests to the workers, the main thread *)
(* waits for it and takes everything down, a signal stops the server.      *)
(*                                                                         *)
(* Threads: acceptor, SdrRxWorker, SdrTxWorker, ClientTxWorker, the SDR    *)
(* library's thread and main.  A thread's step ends where another thread   *)
(* can observe or delay it: at a queue_put, a queue_take, a write or a     *)
(* read of the socket, a join.                                             *)
(***************************************************************************)
EXTENDS SdrRxWorker, SdrTxWorker

CONSTANTS Kinds,         \* the kinds of requests the clients send
          MaxRequests    \* bound: requests of one client

RequestKinds == {"badVersion", "badParams", "unknown", "tooLong", "payloadLost", "bigFrame", "rxParams",
                 "start", "stop", "txParams", "frame", "ping", "shutdown"}

ASSUME ServerAssumption ==
  /\ Kinds \subseteq RequestKinds
  /\ {MaxClients, MaxRequests, MaxSoftBits} \subseteq Nat
  /\ {CtxQueueSize, RxQueueSize, TxQueueSize} \subseteq Nat \ {0}
  /\ {RxReadFails, TxFails} \subseteq BOOLEAN

\* NULL is no message.
ASSUME NullAssumption ==
  /\ NULL \notin [type : {"new", "softBits", "response", "complete"}, id : Int, for : Nat, ok : BOOLEAN]
  /\ NULL \notin [type : RequestKinds, id : Nat, for : Nat]

VARIABLES accPc,               \* where the acceptor is
          todo,                \* the queue_puts that its current request needs
          client_disconnected,
          is_running,
          asked,               \* the kinds of conn's requests; the index is the id
          mainPc               \* what the main thread waits for

accVars == <<accPc, todo, client_disconnected, asked>>
vars == <<ctxVars, netVars, rxVars, txVars, accVars, is_running, mainPc, push>>

\* tcp_server_create. An SDR that pushes samples has no sdr_process_tx and no tx worker.
Init ==
  /\ CtxInit /\ RxInit /\ TxInit
  /\ accPc = "accept"
  /\ todo = <<>>
  /\ client_disconnected = FALSE
  /\ is_running = TRUE
  /\ asked = <<>>
  /\ mainPc = "join"

-----------------------------------------------------------------------------
\* accept() and setsockopt() succeed: the next client gets the descriptor.
Accept ==
  /\ accPc = "accept"
  /\ is_running
  /\ conn < MaxClients
  /\ conn' = conn + 1
  /\ fdOpen' = TRUE
  /\ left' = FALSE
  /\ client_disconnected' = FALSE
  /\ got' = <<>>
  /\ asked' = <<>>
  /\ todo' = <<[to |-> "ctx", msg |-> SendNew(Fd)]>>
  /\ accPc' = "put"
  /\ UNCHANGED <<is_running, mainPc, ctxVars, rxVars, txVars>>

\* setsockopt() fails: the connection is closed at once.
AcceptAborted ==
  /\ accPc = "accept"
  /\ is_running
  /\ conn < MaxClients
  /\ conn' = conn + 1
  /\ UNCHANGED <<fdOpen, left, got, accVars, is_running, mainPc, ctxVars, rxVars, txVars>>

\* accept() fails, because of tcp_server_shutdown or otherwise: the thread ends.
AcceptFails ==
  /\ accPc = "accept"
  /\ accPc' = "done"
  /\ UNCHANGED <<todo, client_disconnected, asked, netVars, is_running, mainPc, ctxVars, rxVars, txVars>>

\* The condition of the loop in tcp_worker_callback.
LoopPc(disconnected) == IF is_running /\ ~disconnected THEN "read" ELSE "stop"

ToCtx(m) == [to |-> "ctx", msg |-> m]
ToRx(r) == [to |-> "rx", msg |-> r]
ToTx(r) == [to |-> "tx", msg |-> r]

\* What the switch of tcp_worker_callback puts on the queues for request r.
Puts(r) ==
  CASE r.type \in {"badVersion", "badParams", "unknown"} -> <<ToCtx(SendResponse(r, FALSE))>>
    [] r.type = "tooLong" -> <<ToCtx(SendResponse(r, FALSE)), ToCtx(SendNew(-1))>>
    [] r.type \in {"payloadLost", "bigFrame"} -> <<>>
    [] r.type \in {"rxParams", "start", "stop"} -> <<ToRx(r)>>
    [] r.type \in {"txParams", "frame"} ->
         IF push THEN <<ToCtx(SendResponse(r, FALSE))>> ELSE <<ToTx(r)>>
    [] r.type = "ping" -> <<ToCtx(SendResponse(r, TRUE))>>
    [] r.type = "shutdown" -> <<ToCtx(SendNew(-1))>>

Disconnects == {"tooLong", "shutdown"}

\* A header and what it announces were read.
ReadRequest(kind) ==
  /\ accPc = "read"
  /\ Len(asked) < MaxRequests
  /\ asked' = Append(asked, kind)
  /\ todo' = Puts([type |-> kind, id |-> Len(asked'), for |-> conn])
  /\ client_disconnected' = (kind \in Disconnects)
  /\ accPc' = IF todo' = <<>> THEN LoopPc(FALSE) ELSE "put"
  /\ UNCHANGED <<netVars, is_running, mainPc, ctxVars, rxVars, txVars>>

\* The read of a header timed out; the loop's condition is evaluated again.
ReadTimeout ==
  /\ accPc = "read"
  /\ accPc' = LoopPc(client_disconnected)
  /\ UNCHANGED <<todo, client_disconnected, asked, netVars, is_running, mainPc, ctxVars, rxVars, txVars>>

\* The client left, or stalled inside a header.
ReadDisconnected ==
  /\ accPc = "read"
  /\ todo' = <<ToCtx(SendNew(-1))>>
  /\ client_disconnected' = TRUE
  /\ accPc' = "put"
  /\ UNCHANGED <<asked, netVars, is_running, mainPc, ctxVars, rxVars, txVars>>

\* One queue_put of the request; the loop's condition follows the last one.
AccPut ==
  /\ accPc = "put"
  /\ CASE Head(todo).to = "ctx" -> PutCtx(Head(todo).msg) /\ UNCHANGED <<rxQueue, txQueue>>
       [] Head(todo).to = "rx" -> PutRx(Head(todo).msg) /\ UNCHANGED <<ctxQueue, txQueue>>
       [] Head(todo).to = "tx" -> PutTx(Head(todo).msg) /\ UNCHANGED <<ctxQueue, rxQueue>>
  /\ todo' = Tail(todo)
  /\ accPc' = IF todo' = <<>> THEN LoopPc(client_disconnected) ELSE "put"
  /\ UNCHANGED <<client_disconnected, asked, netVars, is_running, mainPc, ctxPc, client_socket>>
  /\ UNCHANGED <<rxPc, rx_enabled, modem, old_modem, rxOk, request_id, demod_output, sdrPc>>
  /\ UNCHANGED <<txPc, tx_modem, tx_pending, txReply>>

\* Mutant: the rx worker is told to stop only when the client asked for it or left.
AccStopUnlessShutdown ==
  /\ accPc = "stop"
  /\ \/ client_disconnected /\ PutRx([type |-> "stop", id |-> 0, for |-> conn])
     \/ ~client_disconnected /\ UNCHANGED rxQueue
  /\ accPc' = "close"
  /\ UNCHANGED <<todo, client_disconnected, asked, netVars, is_running, mainPc, ctxVars, txVars>>
  /\ UNCHANGED <<rxPc, rx_enabled, modem, old_modem, rxOk, request_id, demod_output, sdrPc>>

\* Mutant: the rx worker is told to stop only when it is receiving at that moment.
AccStopIfEnabled ==
  /\ accPc = "stop"
  /\ \/ rx_enabled /\ PutRx([type |-> "stop", id |-> 0, for |-> conn])
     \/ ~rx_enabled /\ UNCHANGED rxQueue
  /\ accPc' = "close"
  /\ UNCHANGED <<todo, client_disconnected, asked, netVars, is_running, mainPc, ctxVars, txVars>>
  /\ UNCHANGED <<rxPc, rx_enabled, modem, old_modem, rxOk, request_id, demod_output, sdrPc>>

\* "do not leave sdr running without a client"
AccStop ==
  /\ accPc = "stop"
  /\ PutRx([type |-> "stop", id |-> 0, for |-> conn])
  /\ accPc' = "close"
  /\ UNCHANGED <<todo, client_disconnected, asked, netVars, is_running, mainPc, ctxVars, txVars>>
  /\ UNCHANGED <<rxPc, rx_enabled, modem, old_modem, rxOk, request_id, demod_output, sdrPc>>

\* close(client_socket) and the condition of the loop in acceptor_worker
AccClose ==
  /\ accPc = "close"
  /\ fdOpen' = FALSE
  /\ got' = <<>>
  /\ asked' = <<>>
  /\ accPc' = IF is_running THEN "accept" ELSE "done"
  /\ UNCHANGED <<todo, client_disconnected, conn, left, is_running, mainPc, ctxVars, rxVars, txVars>>

-----------------------------------------------------------------------------
\* The client closes its end of the connection.
ClientLeaves ==
  /\ fdOpen
  /\ ~left
  /\ left' = TRUE
  /\ got' = <<>>
  /\ UNCHANGED <<conn, fdOpen, accVars, is_running, mainPc, ctxVars, rxVars, txVars>>

\* tcp_server_shutdown, from a signal handler
Signal ==
  /\ is_running
  /\ is_running' = FALSE
  /\ UNCHANGED <<netVars, accVars, mainPc, ctxVars, rxVars, txVars>>

\* The main thread joined the acceptor; sdr_rx_worker_destroy interrupts its queue.
MainJoined ==
  /\ mainPc = "join"
  /\ accPc = "done"
  /\ rxQueue' = AfterInterrupt(rxQueue)
  /\ mainPc' = "rx"
  /\ UNCHANGED <<netVars, accVars, is_running, ctxVars, txVars>>
  /\ UNCHANGED <<rxPc, rx_enabled, modem, old_modem, rxOk, request_id, demod_output, sdrPc>>

\* The rx worker's thread is joined, the worker freed; the next one is interrupted.
MainRxJoined ==
  /\ mainPc = "rx"
  /\ rxPc = "done"
  /\ \/ push /\ mainPc' = "ctx" /\ ctxQueue' = AfterInterrupt(ctxQueue) /\ UNCHANGED txQueue
     \/ ~push /\ mainPc' = "tx" /\ txQueue' = AfterInterrupt(txQueue) /\ UNCHANGED ctxQueue
  /\ UNCHANGED <<netVars, accVars, is_running, rxVars>>
  /\ UNCHANGED <<ctxPc, client_socket, txPc, tx_modem, tx_pending, txReply>>

MainTxJoined ==
  /\ mainPc = "tx"
  /\ txPc = "done"
  /\ mainPc' = "ctx"
  /\ ctxQueue' = AfterInterrupt(ctxQueue)
  /\ UNCHANGED <<netVars, accVars, is_running, rxVars, txVars, ctxPc, client_socket>>

\* The client tx worker's thread is joined; sdr_device_destroy stops the SDR.
MainCtxJoined ==
  /\ mainPc = "ctx"
  /\ ctxPc = "done"
  /\ sdrPc # "send"
  /\ sdrPc' = "off"
  /\ mainPc' = "done"
  /\ UNCHANGED <<netVars, accVars, is_running, ctxVars, txVars>>
  /\ UNCHANGED <<rxQueue, rxPc, rx_enabled, modem, old_modem, rxOk, request_id, demod_output>>

Exited == mainPc = "done" /\ UNCHANGED vars

-----------------------------------------------------------------------------
AccStep == ReadTimeout \/ AccPut \/ AccStop \/ AccClose
MainStep == MainJoined \/ MainRxJoined \/ MainTxJoined \/ MainCtxJoined

Next ==
  /\ \/ Accept \/ AcceptAborted \/ AcceptFails
     \/ \E kind \in Kinds : ReadRequest(kind)
     \/ ReadDisconnected
     \/ AccStep
     \/ ClientLeaves
     \/ Signal
     \/ MainStep
     \/ CtxStep /\ UNCHANGED <<rxVars, txVars, accVars, is_running, mainPc>>
     \/ RxStep /\ UNCHANGED <<txVars, accVars, is_running, mainPc>>
     \/ SdrStep /\ UNCHANGED <<txVars, accVars, is_running, mainPc>>
     \/ TxStep /\ UNCHANGED <<rxVars, accVars, is_running, mainPc>>
     \/ Exited
  /\ UNCHANGED push

Spec == Init /\ [][Next]_vars

\* Every thread is scheduled.  A blocked accept() fails after a shutdown, a blocked
\* read times out (SO_RCVTIMEO), and a write ends because clients read or leave.
Fairness ==
  /\ WF_vars(~is_running /\ AcceptFails /\ UNCHANGED push)
  /\ WF_vars(AccStep /\ UNCHANGED push)
  /\ WF_vars(CtxStep /\ UNCHANGED <<rxVars, txVars, accVars, is_running, mainPc, push>>)
  /\ WF_vars(RxStep /\ UNCHANGED <<txVars, accVars, is_running, mainPc, push>>)
  /\ WF_vars(SdrSend /\ UNCHANGED <<txVars, accVars, is_running, mainPc, push>>)
  /\ WF_vars(TxStep /\ UNCHANGED <<rxVars, accVars, is_running, mainPc, push>>)
  /\ WF_vars(MainStep /\ UNCHANGED push)

FairSpec == Spec /\ Fairness
-----------------------------------------------------------------------------
\* The receiver runs once the rx worker has carried out the command it works on.
RunsAfterCurrent ==
  IF rxPc \in {"handle", "stopping"} /\ rxQueue.detached.type \in {"start", "stop"}
  THEN rxQueue.detached.type = "start"
  ELSE rx_enabled

\* No stop is pending behind position i of its queue.
NoStopAfter(i) == \A j \in DOMAIN rxQueue.filled : j > i => rxQueue.filled[j].type # "stop"

\* The receiver runs once all pending commands are carried out.
WillReceive ==
  \/ RunsAfterCurrent /\ NoStopAfter(0)
  \/ \E i \in DOMAIN rxQueue.filled : rxQueue.filled[i].type = "start" /\ NoStopAfter(i)

\* "do not leave sdr running without a client": whenever no client is connected the
\* receiver is off, or a stop is on its way behind every start.  It must not depend on
\* what rx_enabled happens to be when the client leaves.
SdrGoesOff == accPc \in {"accept", "done"} => ~WillReceive

\* The SDR's thread, whose callback uses the rx worker and the queue to the client, has
\* stopped before tcp_server_destroy frees the rx worker.
NoCallbackAfterDestroy == mainPc \notin {"join", "rx"} => sdrPc = "off"

\* sdr_rx_callback reads the output buffer of a modem after it released the mutex:
\* "the lock protects only the modem swap: the sdr thread uses the modem in the
\* callback".  That modem must not be destroyed until the buffer was copied.
DemodBufferAlive == demod_output \in {0, modem, old_modem}

\* The i-th part that the client received is the header of a message of that type.
IsHeader(i, type) == got[i].part = "header" /\ got[i].msg.type = type

\* ... or the header of an answer to request k of this client.
Answers(i, k) ==
  /\ got[i].part = "header"
  /\ got[i].msg.type \in {"response", "complete"}
  /\ got[i].msg.for = conn
  /\ got[i].msg.id = k

\* "nothing is demodulated after stop": a client that got the answer to its RX_STOP
\* receives soft bits again only after it asked for another RX_START.
NothingAfterStop ==
  \A i, j \in DOMAIN got : \A k \in DOMAIN asked :
    i < j /\ asked[k] = "stop" /\ Answers(i, k) /\ IsHeader(j, "softBits")
      => \E l \in DOMAIN asked : l > k /\ asked[l] = "start"

\* The thread that answers a request.
Answerer(kind) ==
  CASE kind \in {"rxParams", "start", "stop"} -> "rx"
    [] kind \in {"txParams", "frame"} -> "tx"
    [] OTHER -> "acceptor"

\* A request is answered at most once, and requests that the same thread answers are
\* answered in the order they were sent.
AnswersInOrder ==
  \A i, j \in DOMAIN got : \A k, l \in DOMAIN asked :
    i < j /\ Answers(i, k) /\ Answers(j, l) /\ Answerer(asked[k]) = Answerer(asked[l]) => k < l

\* The failed TX_COMPLETE of a frame of this client, received by it or on its way to it.
FailureReported ==
  LET failed(m) == m # NULL /\ m.type = "complete" /\ m.for = conn /\ ~m.ok
  IN  \/ \E i \in DOMAIN got : failed(got[i].msg)
      \/ \E i \in DOMAIN ctxQueue.filled : failed(ctxQueue.filled[i])
      \/ failed(ctxQueue.detached)

\* "packet mode: every frame is a separate transmission, so push its tail out".  When
\* sdr_process_tx fails the flush is skipped, and the tail stays in the modulator, in front of
\* the next frame.  A client that is connected and has configured the modulator itself is told
\* before that: between two frames a tail is left only if a failed TX_COMPLETE of one of its
\* frames is on the way to it.
LostTailIsReported ==
  /\ tx_pending
  /\ txPc \in {"take", "handle"}
  /\ fdOpen /\ ~left /\ ~client_disconnected
  /\ \E k \in DOMAIN asked, i \in DOMAIN got : asked[k] = "txParams" /\ Answers(i, k) /\ got[i].msg.ok
  => FailureReported

-----------------------------------------------------------------------------
\* A client that leaves does not leave the receiver running: without another client it
\* is stopped.
SdrStopsWithoutClient == (accPc = "accept" /\ rx_enabled) ~> (~rx_enabled \/ accPc # "accept")

\* After a signal every thread ends and the process exits, whatever the workers and the
\* client are doing at that moment.
ShutdownCompletes == ~is_running ~> mainPc = "done"

\* Requests that the code answers: frames only when the modem was configured before.
Answerable(k) ==
  \/ asked[k] \notin {"payloadLost", "bigFrame", "shutdown", "frame"}
  \/ /\ asked[k] = "frame"
     /\ \/ push
        \/ \E i \in DOMAIN got, l \in 1..(k - 1) :
             asked[l] = "txParams" /\ Answers(i, l) /\ got[i].msg.ok

\* Every such request is answered as long as the client stays connected.
EveryRequestAnswered ==
  \A k \in 1..MaxRequests :
    (fdOpen /\ ~left /\ k \in DOMAIN asked /\ Answerable(k))
      ~> (~fdOpen \/ left \/ \E i \in DOMAIN got : Answers(i, k))
=============================================================================
