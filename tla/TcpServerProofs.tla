---------------------------- MODULE TcpServerProofs ----------------------------
(***************************************************************************)
(* The server's threads (src/tcp_server.c and its workers) leave no        *)
(* receiver running and no callback behind, and a client's answers reach   *)
(* it in order, for every number of clients, requests and messages and     *)
(* every size of the queues.  The leaves without arithmetic name Zenon.    *)
(***************************************************************************)
EXTENDS TcpServer, TLAPS

\* What the acceptor puts on the queues.
Requests == [type : RequestKinds, id : Nat, for : Nat]
Refusals == [type : {"new", "response"}, id : Int, for : Nat, ok : BOOLEAN]
Todo == [to : {"ctx", "tx"}, msg : Requests \cup Refusals] \cup [to : {"rx"}, msg : Requests]

ServerTypeOK ==
  /\ rxQueue.filled \in Seq(Requests)
  /\ rxQueue.poison \in BOOLEAN
  /\ rx_enabled \in BOOLEAN /\ push \in BOOLEAN
  /\ conn \in Nat /\ asked \in Seq(Kinds) /\ todo \in Seq(Todo)
  /\ accPc = "put" => todo # <<>>

\* The main thread interrupts the rx worker's queue after the acceptor has ended, and goes
\* on after the rx worker's thread has.
OrderInv ==
  /\ rxQueue.poison \/ mainPc # "join" => accPc = "done"
  /\ mainPc \notin {"join", "rx"} => rxPc = "done"

\* The SDR's thread runs only while reception is enabled, and for a pushing SDR only;
\* samples are pulled only from the other kind.
SdrInv ==
  /\ sdrPc # "off" => push /\ rx_enabled /\ rxPc # "done"
  /\ rxPc \in {"process", "send"} => ~push

\* Once the stop is queued, and until the next client's requests are read, the receiver is off
\* when the queue has been worked off.
StopInv == accPc \in {"close", "accept", "done"} => ~WillReceive

\* A frame that is reported as sent has left nothing in the modulator.
FlushedInv == txPc = "respond" /\ txReply.type = "complete" /\ txReply.ok => ~tx_pending

ServerInv == ServerTypeOK /\ OrderInv /\ SdrInv /\ StopInv /\ FlushedInv

\* What WillReceive reads.
rxState == <<rxQueue, rxPc, rx_enabled>>

LEMMA SameReception == ASSUME UNCHANGED rxState PROVE WillReceive' <=> WillReceive
  BY Zenon DEF rxState, WillReceive, RunsAfterCurrent, NoStopAfter

LEMMA ServerInvInit == ASSUME Init PROVE ServerInv
<1> USE DEF Init, CtxInit, RxInit, TxInit, NewQueue, QueueValue
<1>0. rxQueue.filled = <<>> /\ rxQueue.poison = FALSE
  BY Zenon
<1>1. ServerTypeOK
  <2>1. rxQueue.filled \in Seq(Requests) /\ asked \in Seq(Kinds) /\ todo \in Seq(Todo)
    BY <1>0
  <2>2. rxQueue.poison \in BOOLEAN /\ rx_enabled \in BOOLEAN /\ push \in BOOLEAN /\ accPc # "put"
    BY <1>0, Zenon
  <2> QED BY <2>1, <2>2, Zenon DEF ServerTypeOK
<1>2. OrderInv /\ SdrInv
  BY Zenon DEF OrderInv, SdrInv
<1>3. StopInv
  BY DEF StopInv, WillReceive, RunsAfterCurrent
<1>4. FlushedInv
  BY Zenon DEF FlushedInv
<1> QED BY <1>1, <1>2, <1>3, <1>4, Zenon DEF ServerInv

-----------------------------------------------------------------------------
\* Behind a stop nothing runs.
LEMMA StopIsLast ==
  ASSUME ServerTypeOK, AccStop, ~rxQueue.poison PROVE ~WillReceive'
<1> DEFINE m == [type |-> "stop", id |-> 0, for |-> conn]
           n == Len(rxQueue.filled) + 1
<1>1. rxQueue'.filled = Append(rxQueue.filled, m)
  BY Zenon DEF AccStop, PutRx, AfterPut, QueueValue
<1>2. m.type = "stop" /\ rxQueue.filled \in Seq(Requests) /\ m \in Requests
  BY Zenon DEF ServerTypeOK, Requests, RequestKinds
<1> HIDE DEF m
<1>3. /\ Append(rxQueue.filled, m) \in Seq(Requests) /\ Len(Append(rxQueue.filled, m)) = n
      /\ Append(rxQueue.filled, m)[n] = m /\ n \in Nat /\ n > 0
  BY <1>2
<1>4. DOMAIN rxQueue'.filled = 1..n /\ rxQueue'.filled[n].type = "stop"
  BY <1>1, <1>2, <1>3
<1> HIDE DEF n
<1>5. ASSUME NEW i \in 0..n, NoStopAfter(i)' PROVE i = n
  BY <1>3, <1>4, <1>5 DEF NoStopAfter
<1> QED BY <1>3, <1>4, <1>5 DEF WillReceive

\* The command that is taken from the queue still counts.
LEMMA TakeKeepsReception ==
  ASSUME ServerTypeOK, RxTake, WillReceive' PROVE WillReceive
<1>1. CASE UNCHANGED rxQueue /\ rxPc' \notin {"handle", "stopping"} /\ rxPc = "loop"
  BY <1>1, Zenon DEF RxTake, WillReceive, RunsAfterCurrent, NoStopAfter
<1>2. CASE rxQueue.filled # <<>> /\ rxPc' = "handle" /\ rxQueue' = AfterTake(rxQueue)
  <2> DEFINE s == rxQueue.filled
  <2>1. /\ rxQueue'.filled = Tail(s) /\ rxQueue'.detached = Head(s) /\ s \in Seq(Requests) /\ s # <<>>
        /\ rx_enabled' = rx_enabled /\ rxPc = "loop"
    BY <1>2, Zenon DEF AfterTake, QueueValue, ServerTypeOK, RxTake
  <2>2. /\ Len(s) \in Nat /\ Len(s) > 0 /\ DOMAIN s = 1..Len(s) /\ Head(s) = s[1]
        /\ DOMAIN Tail(s) = 1..(Len(s) - 1)
        /\ \A i \in 1..(Len(s) - 1) : Tail(s)[i] = s[i + 1]
    BY <2>1
  <2> HIDE DEF s
  <2>3. ASSUME NEW i \in 0..(Len(s) - 1), NoStopAfter(i)' PROVE NoStopAfter(i + 1)
    <3> SUFFICES ASSUME NEW j \in 1..Len(s), j > i + 1 PROVE s[j].type # "stop"
      BY <2>2, Zenon DEF NoStopAfter, s
    <3>1. j - 1 \in 1..(Len(s) - 1) /\ j - 1 > i /\ (j - 1) + 1 = j
      BY <2>2
    <3> QED BY <2>1, <2>2, <2>3, <3>1, Zenon DEF NoStopAfter
  <2>4. CASE \E i \in DOMAIN rxQueue'.filled : rxQueue'.filled[i].type = "start" /\ NoStopAfter(i)'
    <3>1. PICK i \in 1..(Len(s) - 1) : Tail(s)[i].type = "start" /\ NoStopAfter(i)'
      BY <2>1, <2>2, <2>4, Zenon
    <3>2. i + 1 \in DOMAIN s /\ s[i + 1].type = "start" /\ NoStopAfter(i + 1)
      BY <2>2, <2>3, <3>1
    <3> QED BY <3>2, Zenon DEF WillReceive, s
  <2>5. CASE RunsAfterCurrent' /\ NoStopAfter(0)'
    <3>1. NoStopAfter(1)
      BY <2>2, <2>3, <2>5
    <3>2. CASE s[1].type = "start"
      BY <2>2, <3>1, <3>2 DEF WillReceive, s
    <3>3. CASE s[1].type # "start"
      <4>1. s[1].type # "stop" /\ rx_enabled
        BY <1>2, <2>1, <2>2, <2>5, <3>3, Zenon DEF RunsAfterCurrent
      <4>2. NoStopAfter(0)
        <5> SUFFICES ASSUME NEW j \in 1..Len(s), j > 0 PROVE s[j].type # "stop"
          BY <2>2, Zenon DEF NoStopAfter, s
        <5>1. j = 1 \/ j > 1
          BY <2>2
        <5> QED BY <2>2, <3>1, <4>1, <5>1, Zenon DEF NoStopAfter, s
      <4>3. RunsAfterCurrent
        BY <2>1, <4>1, Zenon DEF RunsAfterCurrent
      <4> QED BY <4>2, <4>3, Zenon DEF WillReceive
    <3> QED BY <3>2, <3>3, Zenon
  <2> QED BY <2>4, <2>5, Zenon DEF WillReceive
<1> QED BY <1>1, <1>2, Zenon DEF RxTake

\* Every other step of the rx worker carries out the command in hand or does not change
\* what will be received.
LEMMA RxKeepsReception ==
  ASSUME ServerTypeOK, RxStep, ~RxTake, WillReceive' PROVE WillReceive
<1> USE DEF WillReceive, RunsAfterCurrent, NoStopAfter, Handling
<1>1. CASE RxParameters \/ RxDestroyOld
  BY <1>1 DEF RxParameters, RxDestroyOld
<1>2. CASE RxStart
  BY <1>2, Zenon DEF RxStart
<1>3. CASE RxStop \/ RxStopped
  BY <1>3, Zenon DEF RxStop, RxStopped
<1>4. CASE RxRespond
  BY <1>4, Zenon DEF RxRespond, AfterComplete, QueueValue
<1>5. CASE RxProcess \/ RxSend
  BY <1>5 DEF RxProcess, RxSend
<1> QED BY <1>1, <1>2, <1>3, <1>4, <1>5, Zenon DEF RxStep

-----------------------------------------------------------------------------
\* What a request makes the acceptor put on the queues.
LEMMA PutsTyped ==
  ASSUME push \in BOOLEAN, NEW r \in Requests PROVE Puts(r) \in Seq(Todo)
<1>1. /\ ToCtx(SendResponse(r, TRUE)) \in Todo /\ ToCtx(SendResponse(r, FALSE)) \in Todo
      /\ ToCtx(SendNew(-1)) \in Todo /\ ToRx(r) \in Todo /\ ToTx(r) \in Todo
  BY DEF Requests, Refusals, Todo, ToCtx, ToRx, ToTx, SendResponse, SendNew, CtxMessage
<1>2. r.type \in RequestKinds
  BY Zenon DEF Requests
<1>0. \A m, n \in Todo : <<m>> \in Seq(Todo) /\ <<m, n>> \in Seq(Todo)
  OBVIOUS
<1>3. CASE r.type \in {"badVersion", "badParams", "unknown"}
  <2>1. Puts(r) = <<ToCtx(SendResponse(r, FALSE))>>
    BY <1>3, Zenon DEF Puts
  <2> QED BY <1>0, <1>1, <2>1, Zenon
<1>4. CASE r.type = "tooLong"
  <2>1. Puts(r) = <<ToCtx(SendResponse(r, FALSE)), ToCtx(SendNew(-1))>>
    BY <1>4, Zenon DEF Puts
  <2> QED BY <1>0, <1>1, <2>1, Zenon
<1>5. CASE r.type \in {"payloadLost", "bigFrame"}
  <2>1. Puts(r) = <<>>
    BY <1>5, Zenon DEF Puts
  <2> QED BY <2>1
<1>6. CASE r.type \in {"rxParams", "start", "stop"}
  <2>1. Puts(r) = <<ToRx(r)>>
    BY <1>6, Zenon DEF Puts
  <2> QED BY <1>0, <1>1, <2>1, Zenon
<1>7. CASE r.type \in {"txParams", "frame"}
  <2>1. Puts(r) = (IF push THEN <<ToCtx(SendResponse(r, FALSE))>> ELSE <<ToTx(r)>>)
    BY <1>7, Zenon DEF Puts
  <2> QED BY <1>0, <1>1, <2>1, Zenon
<1>8. CASE r.type = "ping"
  <2>1. Puts(r) = <<ToCtx(SendResponse(r, TRUE))>>
    BY <1>8, Zenon DEF Puts
  <2> QED BY <1>0, <1>1, <2>1, Zenon
<1>9. CASE r.type = "shutdown"
  <2>1. Puts(r) = <<ToCtx(SendNew(-1))>>
    BY <1>9, Zenon DEF Puts
  <2> QED BY <1>0, <1>1, <2>1, Zenon
<1> QED BY <1>2, <1>3, <1>4, <1>5, <1>6, <1>7, <1>8, <1>9, Zenon DEF RequestKinds

LEMMA AcceptorTypes ==
  ASSUME ServerTypeOK, UNCHANGED push,
         \/ Accept \/ AcceptAborted \/ AcceptFails \/ ReadDisconnected \/ AccStep
         \/ \E kind \in Kinds : ReadRequest(kind)
  PROVE  ServerTypeOK'
<1> USE DEF ServerTypeOK
<1>1. CASE Accept
  <2>1. [to |-> "ctx", msg |-> SendNew(Fd)] \in Todo
    BY DEF Todo, SendNew, CtxMessage, Refusals, Fd
  <2>2. todo' \in Seq(Todo) /\ todo' # <<>> /\ asked' \in Seq(Kinds) /\ conn' \in Nat
    BY <1>1, <2>1 DEF Accept
  <2> QED BY <1>1, <2>2, Zenon DEF Accept, rxVars
<1>2. CASE AcceptAborted \/ AcceptFails
  BY <1>2 DEF AcceptAborted, AcceptFails, rxVars, accVars, netVars
<1>3. CASE ReadDisconnected
  <2>1. ToCtx(SendNew(-1)) \in Todo
    BY DEF Todo, ToCtx, SendNew, CtxMessage, Refusals
  <2>2. todo' \in Seq(Todo) /\ todo' # <<>>
    BY <1>3, <2>1 DEF ReadDisconnected
  <2> QED BY <1>3, <2>2, Zenon DEF ReadDisconnected, rxVars, netVars
<1>4. ASSUME NEW kind \in Kinds, ReadRequest(kind) PROVE ServerTypeOK'
  <2>1. asked' \in Seq(Kinds) /\ Len(asked') \in Nat
    BY <1>4 DEF ReadRequest
  <2>2. [type |-> kind, id |-> Len(asked'), for |-> conn] \in Requests
    BY <2>1, ServerAssumption, Zenon DEF Requests
  <2>3. todo' \in Seq(Todo)
    BY <1>4, <2>2, PutsTyped, Zenon DEF ReadRequest
  <2>4. accPc' = "put" => todo' # <<>>
    BY <1>4, Zenon DEF ReadRequest, LoopPc
  <2> QED BY <1>4, <2>1, <2>3, <2>4, Zenon DEF ReadRequest, rxVars, netVars
<1>5. CASE ReadTimeout
  BY <1>5, Zenon DEF ReadTimeout, LoopPc, rxVars, netVars
<1>6. CASE AccPut
  <2>1. Head(todo) \in Todo /\ Tail(todo) \in Seq(Todo)
    BY <1>6 DEF AccPut
  <2>2. CASE Head(todo).to = "rx"
    <3>1. Head(todo).msg \in Requests
      BY <2>1, <2>2, Zenon DEF Todo
    <3>2. rxQueue'.filled \in Seq(Requests) /\ rxQueue'.poison \in BOOLEAN
      <4>1. rxQueue' = AfterPut(rxQueue, Head(todo).msg)
        BY <1>6, <2>2, Zenon DEF AccPut, PutRx
      <4>2. CASE rxQueue.poison
        BY <4>1, <4>2, Zenon DEF AfterPut
      <4>3. CASE ~rxQueue.poison
        BY <3>1, <4>1, <4>3 DEF AfterPut, QueueValue
      <4> QED BY <4>2, <4>3, Zenon
    <3> QED BY <1>6, <2>1, <3>2, Zenon DEF AccPut, LoopPc, netVars
  <2>3. CASE Head(todo).to \in {"ctx", "tx"}
    <3>1. UNCHANGED rxQueue
      BY <1>6, <2>3, Zenon DEF AccPut
    <3> QED BY <1>6, <2>1, <3>1, Zenon DEF AccPut, LoopPc, netVars
  <2> QED BY <2>1, <2>2, <2>3, Zenon DEF Todo
<1>7. CASE AccStop
  <2>1. [type |-> "stop", id |-> 0, for |-> conn] \in Requests
    BY Zenon DEF Requests, RequestKinds
  <2>2. rxQueue'.filled \in Seq(Requests) /\ rxQueue'.poison \in BOOLEAN
    BY <1>7, <2>1 DEF AccStop, PutRx, AfterPut, QueueValue
  <2> QED BY <1>7, <2>2, Zenon DEF AccStop, netVars
<1>8. CASE AccClose
  BY <1>8 DEF AccClose, rxVars
<1> QED BY <1>1, <1>2, <1>3, <1>4, <1>5, <1>6, <1>7, <1>8, Zenon DEF AccStep

LEMMA AcceptorKeeps ==
  ASSUME ServerInv, UNCHANGED push,
         \/ Accept \/ AcceptAborted \/ AcceptFails \/ ReadDisconnected \/ AccStep
         \/ \E kind \in Kinds : ReadRequest(kind)
  PROVE  ServerInv'
<1> USE DEF ServerInv
<1>0. ServerTypeOK'
  BY AcceptorTypes, Zenon
<1>1. CASE Accept \/ AcceptAborted \/ AcceptFails \/ ReadDisconnected \/ ReadTimeout \/ AccClose
           \/ \E kind \in Kinds : ReadRequest(kind)
  <2>1. UNCHANGED <<rxVars, txVars, mainPc>> /\ accPc \notin {"stop", "done"} 
    BY <1>1, Zenon DEF Accept, AcceptAborted, AcceptFails, ReadDisconnected, ReadTimeout, AccClose, ReadRequest
  <2>2. accPc' \in {"close", "accept", "done"} => accPc \in {"close", "accept", "done"}
    BY <1>1, Zenon DEF Accept, AcceptAborted, AcceptFails, ReadDisconnected, ReadTimeout, AccClose, ReadRequest, LoopPc, accVars
  <2>3. OrderInv' /\ SdrInv'
    BY <2>1, Zenon DEF OrderInv, SdrInv, rxVars
  <2>4. StopInv'
    BY <2>1, <2>2, SameReception, Zenon DEF StopInv, rxVars, rxState
  <2>5. FlushedInv'
    BY <2>1, Zenon DEF FlushedInv, txVars
  <2> QED BY <1>0, <2>3, <2>4, <2>5, Zenon
<1>2. CASE AccPut
  <2>1. accPc' \in {"put", "read", "stop"} /\ accPc = "put" /\ UNCHANGED <<mainPc, rxPc, sdrPc, rx_enabled>>
    BY <1>2, Zenon DEF AccPut, LoopPc
  <2>2. rxQueue'.poison = rxQueue.poison
    <3>1. Head(todo) \in Todo
      BY <1>2 DEF AccPut, ServerTypeOK
    <3>2. rxQueue' = rxQueue \/ rxQueue' = AfterPut(rxQueue, Head(todo).msg)
      BY <1>2, <3>1, Zenon DEF AccPut, PutRx, Todo
    <3> QED BY <3>2 DEF AfterPut, QueueValue
  <2>3. OrderInv' /\ SdrInv' /\ StopInv'
    BY <2>1, <2>2, Zenon DEF OrderInv, SdrInv, StopInv
  <2>4. FlushedInv'
    BY <1>2, Zenon DEF AccPut, FlushedInv
  <2> QED BY <1>0, <2>3, <2>4, Zenon
<1>3. CASE AccStop
  <2>1. accPc = "stop" /\ accPc' = "close" /\ UNCHANGED <<mainPc, rxPc, sdrPc, rx_enabled>>
    BY <1>3, Zenon DEF AccStop
  <2>2. ~rxQueue.poison /\ mainPc = "join"
    BY <2>1, Zenon DEF OrderInv
  <2>3. rxQueue'.poison = rxQueue.poison
    BY <1>3, <2>2, Zenon DEF AccStop, PutRx, AfterPut, QueueValue
  <2>4. OrderInv' /\ SdrInv'
    BY <2>1, <2>2, <2>3, Zenon DEF OrderInv, SdrInv
  <2>5. StopInv'
    BY <1>3, <2>2, StopIsLast, Zenon DEF StopInv
  <2>6. FlushedInv'
    BY <1>3, Zenon DEF AccStop, FlushedInv, txVars
  <2> QED BY <1>0, <2>4, <2>5, <2>6, Zenon
<1> QED BY <1>1, <1>2, <1>3, Zenon DEF AccStep

-----------------------------------------------------------------------------
LEMMA MainKeeps == ASSUME ServerInv, MainStep, UNCHANGED push PROVE ServerInv'
<1> USE DEF ServerInv
<1>1. UNCHANGED <<rxPc, rx_enabled, conn, accPc, todo, asked, txPc, tx_pending, txReply>>
  BY Zenon DEF MainStep, MainJoined, MainRxJoined, MainTxJoined, MainCtxJoined, netVars, accVars, rxVars, txVars
<1>2. rxQueue'.filled = rxQueue.filled /\ rxQueue'.detached = rxQueue.detached
  BY DEF MainStep, MainJoined, MainRxJoined, MainTxJoined, MainCtxJoined, rxVars, AfterInterrupt, QueueValue
<1>3. rxQueue'.poison \in BOOLEAN /\ OrderInv'
  <2> USE DEF OrderInv, ServerTypeOK, rxVars, accVars
  <2>1. CASE MainJoined
    BY <2>1, Zenon DEF MainJoined, AfterInterrupt, QueueValue
  <2>2. CASE MainRxJoined
    BY <2>2, Zenon DEF MainRxJoined
  <2>3. CASE MainTxJoined \/ MainCtxJoined
    BY <2>3, Zenon DEF MainTxJoined, MainCtxJoined
  <2> QED BY <2>1, <2>2, <2>3, Zenon DEF MainStep
<1>4. ServerTypeOK'
  BY <1>1, <1>2, <1>3, Zenon DEF ServerTypeOK
<1>5. SdrInv'
  BY <1>1, Zenon DEF MainStep, MainJoined, MainRxJoined, MainTxJoined, MainCtxJoined, rxVars, SdrInv
<1>6. StopInv'
  BY <1>1, <1>2 DEF StopInv, WillReceive, RunsAfterCurrent, NoStopAfter
<1>7. FlushedInv'
  BY <1>1, Zenon DEF FlushedInv
<1> QED BY <1>3, <1>4, <1>5, <1>6, <1>7, Zenon

LEMMA RxKeeps ==
  ASSUME ServerInv, RxStep, UNCHANGED <<txVars, accVars, is_running, mainPc, push>> PROVE ServerInv'
<1> USE DEF ServerInv
<1>1. UNCHANGED <<conn, accPc, todo, asked, mainPc, push, txPc, tx_pending, txReply>> /\ rxQueue'.poison = rxQueue.poison
  BY DEF RxStep, RxTake, RxParameters, RxDestroyOld, RxStart, RxStop, RxStopped, RxRespond, RxProcess, RxSend,
         accVars, txVars, netVars, AfterTake, AfterComplete, QueueValue
<1>2. rxQueue'.filled \in Seq(Requests)
  <2> USE DEF ServerTypeOK
  <2>1. CASE RxTake
    <3>1. CASE UNCHANGED rxQueue
      BY <3>1, Zenon
    <3>2. CASE rxQueue.filled # <<>> /\ rxQueue' = AfterTake(rxQueue)
      <4>1. rxQueue'.filled = Tail(rxQueue.filled)
        BY <3>2, Zenon DEF AfterTake, QueueValue
      <4> QED BY <3>2, <4>1
    <3> QED BY <2>1, <3>1, <3>2, Zenon DEF RxTake
  <2>2. CASE RxRespond
    BY <2>2, Zenon DEF RxRespond, AfterComplete, QueueValue
  <2>3. CASE RxParameters \/ RxDestroyOld \/ RxStart \/ RxStop \/ RxStopped \/ RxProcess \/ RxSend
    BY <2>3, Zenon DEF RxParameters, RxDestroyOld, RxStart, RxStop, RxStopped, RxProcess, RxSend
  <2> QED BY <2>1, <2>2, <2>3, Zenon DEF RxStep
<1>3. rx_enabled' \in BOOLEAN
  BY Zenon DEF RxStep, RxTake, RxParameters, RxDestroyOld, RxStart, RxStop, RxStopped, RxRespond, RxProcess, RxSend, ServerTypeOK
<1>4. ServerTypeOK'
  BY <1>1, <1>2, <1>3, Zenon DEF ServerTypeOK
<1>5. rxPc # "done"
  BY Zenon DEF RxStep, RxTake, RxParameters, RxDestroyOld, RxStart, RxStop, RxStopped, RxRespond, RxProcess, RxSend, Handling
<1>6. OrderInv'
  BY <1>1, <1>5, Zenon DEF OrderInv
<1>7. StopInv'
  BY <1>1, TakeKeepsReception, RxKeepsReception, Zenon DEF StopInv
<1>8. FlushedInv'
  BY <1>1, Zenon DEF FlushedInv
<1>9. SdrInv'
  <2>1. CASE RxTake
    <3>1. CASE rxPc' = "done"
      <4>1. rxQueue.filled = <<>> /\ rxQueue.poison /\ rxPc = "loop" /\ sdrPc' = sdrPc
        BY <2>1, <3>1, Zenon DEF RxTake, TakeReturns, TakeIsEnd
      <4>2. ~WillReceive
        BY <4>1, Zenon DEF OrderInv, StopInv
      <4>3. NoStopAfter(0)
        BY <4>1 DEF NoStopAfter
      <4>4. ~rx_enabled
        BY <4>1, <4>2, <4>3, Zenon DEF WillReceive, RunsAfterCurrent
      <4> QED BY <3>1, <4>1, <4>4, Zenon DEF SdrInv
    <3>2. CASE rxPc' # "done"
      BY <2>1, <3>2, <1>1 DEF RxTake, SdrInv
    <3> QED BY <3>1, <3>2, Zenon
  <2>2. CASE RxParameters \/ RxDestroyOld \/ RxStart
    BY <1>1, <1>5, <2>2 DEF RxParameters, RxDestroyOld, RxStart, Handling, SdrInv, ServerTypeOK
  <2>3. CASE RxStop \/ RxStopped
    BY <1>1, <1>5, <2>3 DEF RxStop, RxStopped, Handling, SdrInv, ServerTypeOK
  <2>4. CASE RxRespond \/ RxProcess \/ RxSend
    BY <1>1, <1>5, <2>4 DEF RxRespond, RxProcess, RxSend, SdrInv
  <2> QED BY <2>1, <2>2, <2>3, <2>4, Zenon DEF RxStep
<1> QED BY <1>4, <1>6, <1>7, <1>8, <1>9, Zenon

LEMMA SdrKeeps ==
  ASSUME ServerInv, SdrStep, UNCHANGED <<txVars, accVars, is_running, mainPc, push>> PROVE ServerInv'
<1> USE DEF ServerInv
<1>1. UNCHANGED <<rxQueue, rxPc, rx_enabled, conn, accPc, todo, asked, mainPc, push, txPc, tx_pending, txReply>>
  BY Zenon DEF SdrStep, SdrCallback, SdrSend, accVars, txVars, netVars
<1>2. sdrPc # "off"
  BY Zenon DEF SdrStep, SdrCallback, SdrSend
<1>3. ServerTypeOK' /\ OrderInv' /\ SdrInv' /\ FlushedInv'
  BY <1>1, <1>2 DEF ServerTypeOK, OrderInv, SdrInv, FlushedInv
<1>4. StopInv'
  BY <1>1, SameReception, Zenon DEF StopInv, rxState
<1> QED BY <1>3, <1>4, Zenon

LEMMA TxKeeps ==
  ASSUME ServerInv, TxStep, UNCHANGED <<rxVars, accVars, is_running, mainPc, push>> PROVE ServerInv'
<1> USE DEF ServerInv
<1>1. UNCHANGED <<rxQueue, rxPc, rx_enabled, sdrPc, conn, accPc, todo, asked, mainPc, push>>
  BY Zenon DEF TxStep, TxTake, TxFrame, TxFlush, TxParameters, TxRespond, rxVars, accVars, netVars
<1>2. ServerTypeOK' /\ OrderInv' /\ SdrInv'
  BY <1>1 DEF ServerTypeOK, OrderInv, SdrInv
<1>3. StopInv'
  BY <1>1, SameReception, Zenon DEF StopInv, rxState
<1>4. FlushedInv'
  <2>1. CASE TxTake \/ TxRespond \/ TxParameters
    BY <2>1 DEF TxTake, TxRespond, TxParameters, TxReplies, SendResponse, CtxMessage, FlushedInv
  <2>2. CASE TxFrame
    BY <2>2 DEF TxFrame, TxReplies, SendTxComplete, CtxMessage, FlushedInv
  <2>3. CASE TxFlush
    BY <2>3 DEF TxFlush, FlushedInv
  <2> QED BY <2>1, <2>2, <2>3, Zenon DEF TxStep
<1> QED BY <1>2, <1>3, <1>4, Zenon

\* Everything else leaves the state of the receiver, of the transmitter and of the acceptor
\* alone.
LEMMA OthersKeep ==
  ASSUME ServerInv,
         UNCHANGED <<rxVars, txVars, accPc, todo, asked, conn, mainPc, push>>
  PROVE  ServerInv'
<1> USE DEF ServerInv
<1>1. ServerTypeOK' /\ OrderInv' /\ SdrInv' /\ FlushedInv'
  BY Zenon DEF ServerTypeOK, OrderInv, SdrInv, FlushedInv, rxVars, txVars
<1>2. StopInv'
  BY SameReception, Zenon DEF StopInv, rxState, rxVars
<1> QED BY <1>1, <1>2, Zenon

LEMMA ServerInvariant == Spec => []ServerInv
<1>1. ASSUME ServerInv, Next PROVE ServerInv'
  <2>1. CASE ClientLeaves \/ Signal \/ Exited \/ (CtxStep /\ UNCHANGED <<rxVars, txVars, accVars, is_running, mainPc>>)
    <3>1. UNCHANGED <<rxVars, txVars, accPc, todo, asked, conn, mainPc, push>>
      BY <1>1, <2>1, Zenon DEF Next, ClientLeaves, Signal, Exited, CtxStep, CtxTake, CtxNewClient, CtxHeader, CtxBody, netVars,
                        accVars, vars
    <3> QED BY <1>1, <3>1, OthersKeep, Zenon
  <2> QED BY <1>1, <2>1, AcceptorKeeps, MainKeeps, RxKeeps, SdrKeeps, TxKeeps, Zenon DEF Next
<1>2. ServerInv /\ UNCHANGED vars => ServerInv'
  BY OthersKeep, Zenon DEF vars, accVars, netVars
<1>3. ServerInv /\ [Next]_vars => ServerInv'
  BY <1>1, <1>2, Zenon
<1> QED BY <1>3, ServerInvInit, PTL DEF Spec

\* Whenever no client is connected the receiver is off or goes off, however many clients
\* came before and whatever they asked for.
THEOREM SdrDoesNotStayOn == Spec => []SdrGoesOff
<1>1. ServerInv => SdrGoesOff
  BY Zenon DEF ServerInv, StopInv, SdrGoesOff
<1> QED BY <1>1, ServerInvariant, PTL

\* The SDR's thread has stopped before what its callback uses is freed.
THEOREM NoCallbackIntoFreed == Spec => []NoCallbackAfterDestroy
<1>1. ServerInv => NoCallbackAfterDestroy
  BY Zenon DEF ServerInv, OrderInv, SdrInv, NoCallbackAfterDestroy
<1> QED BY <1>1, ServerInvariant, PTL

-----------------------------------------------------------------------------
(* A request is in one place at a time on its way through the server: in the acceptor's hands, *)
(* on the queue of a worker, as an answer on the queue to the client, and with the client.     *)

\* m belongs to request a[m.id] of connection c.
Live(c, a, m) == m.for = c /\ m.id \in DOMAIN a

StartedLater(a, k) == \E l \in DOMAIN a : l > k /\ a[l] = "start"

\* What it means that x is ahead of y, where c is the connection and a its requests.
Ahead(c, a, x, y) ==
  /\ Live(c, a, x) /\ Live(c, a, y) /\ Answerer(a[x.id]) = Answerer(a[y.id]) => x.id < y.id
  /\ Live(c, a, x) /\ a[x.id] = "stop" /\ y.type = "softBits" => StartedLater(a, x.id)
  /\ x.type \in RequestKinds /\ y.type \in RequestKinds => x.for <= y.for

\* The messages of a queue, and the one in hand as long as it is not answered
InQueue(q, hand) == hand \cup {q.filled[i] : i \in DOMAIN q.filled}

Ordered(c, a, q, hand) ==
  /\ \A i, j \in DOMAIN q.filled : i < j => Ahead(c, a, q.filled[i], q.filled[j])
  /\ \A x \in hand, j \in DOMAIN q.filled : Ahead(c, a, x, q.filled[j])

AllAhead(c, a, X, Y) == \A x \in X, y \in Y : Ahead(c, a, x, y)

CtxHand == IF ctxPc = "handle" THEN {ctxQueue.detached} ELSE {}
RxHand == IF rxPc \in {"handle", "swapped", "stopping", "respond"} THEN {rxQueue.detached} ELSE {}
TxHand == IF txPc \in {"handle", "flush", "respond"} THEN {txQueue.detached} ELSE {}

\* The places
Headers == {i \in DOMAIN got : got[i].part = "header"}
Received == {got[i].msg : i \in Headers}
ToClient == InQueue(ctxQueue, CtxHand)
ToReceiver == InQueue(rxQueue, RxHand)
ToTransmitter == InQueue(txQueue, TxHand)
InHands == {todo[i].msg : i \in DOMAIN todo}

Connected == accPc \in {"put", "read", "stop", "close"}

CtxMessages == [type : {"new", "softBits", "response", "complete"}, id : Int, for : Nat, ok : BOOLEAN]
Parts == [part : {"header", "body"}, msg : CtxMessages]

PlacesTypeOK ==
  /\ got \in Seq(Parts)
  /\ ctxQueue.filled \in Seq(CtxMessages) /\ CtxHand \subseteq CtxMessages
  /\ ctxPc = "body" => ctxQueue.detached \in CtxMessages
  /\ RxHand \subseteq Requests
  /\ txQueue.filled \in Seq(Requests) /\ TxHand \subseteq Requests
  /\ request_id \in Nat /\ rxOk \in BOOLEAN
  /\ txPc = "respond" => /\ txReply \in CtxMessages /\ txReply.type \in {"response", "complete"}
                         /\ txReply.id = txQueue.detached.id /\ txReply.for = txQueue.detached.for
  /\ accPc \in {"accept", "done"} \/ Connected
  /\ ~Connected => asked = <<>>
  /\ Connected => conn > 0

\* The requests of the connection are numbered up to the last one.
Known(m) == m.for <= conn /\ (Connected /\ m.for = conn => m.id <= Len(asked))

\* A request r is on the way to the thread that answers it.
Routed(r, thread) ==
  /\ Live(conn, asked, r) => asked[r.id] = r.type /\ Answerer(r.type) = thread
  /\ r.type = "start" => r.id > 0

\* Soft bits are made only while reception is enabled, which it is not when a stop is answered.
ReceiverInv ==
  /\ rxPc \in {"process", "send"} => rx_enabled
  /\ rxPc = "stopping" => rxQueue.detached.type = "stop"
  /\ rxPc = "swapped" => rxQueue.detached.type = "rxParams"
  /\ rxPc = "respond" /\ rxQueue.detached.type = "stop" => ~rx_enabled

\* The acceptor hands a request to the thread that answers it, and answers the others itself.
TodoInv ==
  /\ accPc # "put" => todo = <<>>
  /\ accPc = "put" =>
    \A i \in DOMAIN todo :
      /\ todo[i].to = "rx" => todo[i].msg.for = conn /\ Routed(todo[i].msg, "rx")
      /\ todo[i].to = "tx" =>
           todo[i].msg \in Requests /\ todo[i].msg.for = conn /\ ~push /\ Routed(todo[i].msg, "tx")
      /\ todo[i].to = "ctx" =>
           /\ todo[i].msg \in Refusals
           /\ Live(conn, asked, todo[i].msg) => /\ Answerer(asked[todo[i].msg.id]) # "rx"
                                                /\ Answerer(asked[todo[i].msg.id]) = "tx" => push

\* An answer m to a stop lies behind: reception is enabled only if the client asked for it since.
\* An answer m of the rx worker: nothing of an earlier client is left on its queue.
Answered(m) ==
  Live(conn, asked, m) =>
    /\ asked[m.id] = "stop" /\ rx_enabled => StartedLater(asked, m.id)
    /\ Answerer(asked[m.id]) = "rx" => \A r \in ToReceiver : r.for = conn

\* The order inside each place
PlacesInv ==
  /\ \A i, j \in Headers : i < j => Ahead(conn, asked, got[i].msg, got[j].msg)
  /\ Ordered(conn, asked, ctxQueue, CtxHand)
  /\ Ordered(conn, asked, rxQueue, RxHand)
  /\ Ordered(conn, asked, txQueue, TxHand)
  /\ \A i, j \in DOMAIN todo : i < j => Ahead(conn, asked, todo[i].msg, todo[j].msg)

\* The order between the places, and what holds of all messages in a place
FlowInv ==
  /\ \A m \in Received \cup ToClient \cup ToReceiver \cup ToTransmitter \cup InHands : Known(m)
  /\ \A r \in ToReceiver : Routed(r, "rx")
  /\ \A r \in ToTransmitter : ~push /\ Routed(r, "tx")
  /\ AllAhead(conn, asked, Received, ToClient \cup ToReceiver \cup ToTransmitter \cup InHands)
  /\ AllAhead(conn, asked, ToClient, ToReceiver \cup ToTransmitter \cup InHands)
  /\ AllAhead(conn, asked, ToReceiver \cup ToTransmitter, InHands)
  /\ \A m \in Received \cup ToClient : Answered(m)

AnswersInv == PlacesTypeOK /\ TodoInv /\ ReceiverInv /\ PlacesInv /\ FlowInv

-----------------------------------------------------------------------------
\* The operations of a queue keep its messages in order.
LEMMA TakeInOrder ==
  ASSUME NEW S, NEW c, NEW a, NEW q, q.filled \in Seq(S), q.filled # <<>>, Ordered(c, a, q, {})
  PROVE  /\ Ordered(c, a, AfterTake(q), {AfterTake(q).detached}) /\ InQueue(AfterTake(q), {AfterTake(q).detached}) \subseteq InQueue(q, {})
         /\ AfterTake(q).filled \in Seq(S) /\ AfterTake(q).detached \in S
<1> DEFINE s == q.filled
<1>1. AfterTake(q).filled = Tail(s) /\ AfterTake(q).detached = Head(s)
  BY Zenon DEF AfterTake, QueueValue
<1>2. /\ Len(s) \in Nat /\ Len(s) > 0 /\ DOMAIN s = 1..Len(s) /\ Head(s) = s[1] /\ 1 \in DOMAIN s
      /\ DOMAIN Tail(s) = 1..(Len(s) - 1) /\ Tail(s) \in Seq(S) /\ s[1] \in S
      /\ \A i \in DOMAIN Tail(s) : i + 1 \in DOMAIN s /\ i + 1 > 1 /\ Tail(s)[i] = s[i + 1]
      /\ \A i, j \in DOMAIN Tail(s) : i < j => i + 1 < j + 1
  OBVIOUS
<1>3. \A i, j \in DOMAIN s : i < j => Ahead(c, a, s[i], s[j])
  BY Zenon DEF Ordered
<1> HIDE DEF s
<1>4. Ordered(c, a, AfterTake(q), {AfterTake(q).detached})
  BY <1>1, <1>2, <1>3 DEF Ordered
<1>5. InQueue(AfterTake(q), {AfterTake(q).detached}) \subseteq InQueue(q, {})
  BY <1>1, <1>2, Zenon DEF InQueue, s
<1> QED BY <1>1, <1>2, <1>4, <1>5, Zenon

LEMMA PutInOrder ==
  ASSUME NEW S, NEW c, NEW a, NEW q, NEW hand, q.filled \in Seq(S), NEW m \in S,
         Ordered(c, a, q, hand), \A x \in InQueue(q, hand) : Ahead(c, a, x, m)
  PROVE  /\ Ordered(c, a, AfterPut(q, m), hand) /\ InQueue(AfterPut(q, m), hand) \subseteq InQueue(q, hand) \cup {m}
         /\ AfterPut(q, m).filled \in Seq(S)
<1>1. CASE q.poison
  BY <1>1, Zenon DEF AfterPut
<1>2. CASE ~q.poison
  <2> DEFINE s == q.filled
             t == Append(s, m)
             n == Len(s) + 1
  <2>1. AfterPut(q, m).filled = t /\ AfterPut(q, m).detached = q.detached
    BY <1>2, Zenon DEF AfterPut, QueueValue
  <2>2. /\ t \in Seq(S) /\ DOMAIN s = 1..Len(s) /\ DOMAIN t = 1..n /\ n \in Nat /\ t[n] = m
        /\ \A i \in DOMAIN t : i = n \/ (i \in DOMAIN s /\ t[i] = s[i])
        /\ \A i, j \in DOMAIN t : i < j => i \in DOMAIN s /\ t[i] = s[i]
    OBVIOUS
  <2>3. /\ \A i, j \in DOMAIN s : i < j => Ahead(c, a, s[i], s[j])
        /\ \A i \in DOMAIN s : Ahead(c, a, s[i], m)
        /\ \A x \in hand : Ahead(c, a, x, m) /\ \A j \in DOMAIN s : Ahead(c, a, x, s[j])
    BY Zenon DEF Ordered, InQueue
  <2> HIDE DEF s, t, n
  <2>4. Ordered(c, a, AfterPut(q, m), hand)
    BY <2>1, <2>2, <2>3, Zenon DEF Ordered
  <2>5. InQueue(AfterPut(q, m), hand) \subseteq InQueue(q, hand) \cup {m}
    BY <2>1, <2>2, Zenon DEF InQueue, s
  <2> QED BY <2>1, <2>2, <2>4, <2>5, Zenon
<1> QED BY <1>1, <1>2, Zenon

LEMMA CompleteInOrder ==
  ASSUME NEW c, NEW a, NEW q, NEW hand, Ordered(c, a, q, hand)
  PROVE  /\ Ordered(c, a, AfterComplete(q), {}) /\ InQueue(AfterComplete(q), {}) \subseteq InQueue(q, hand)
         /\ \A x \in hand, y \in InQueue(AfterComplete(q), {}) : Ahead(c, a, x, y)
         /\ AfterComplete(q).filled = q.filled
  BY Zenon DEF Ordered, InQueue, AfterComplete, QueueValue

-----------------------------------------------------------------------------
\* Between the places a message that goes away disturbs nothing,
LEMMA FlowShrinks ==
  ASSUME FlowInv, UNCHANGED <<conn, asked, push>>, Connected' => Connected, rx_enabled' => rx_enabled,
         Received' \subseteq Received, ToClient' \subseteq ToClient, ToReceiver' \subseteq ToReceiver,
         ToTransmitter' \subseteq ToTransmitter, InHands' \subseteq InHands
  PROVE  FlowInv'
<1> USE DEF FlowInv
<1>1. \A m : Known(m) => Known(m)'
  BY Zenon DEF Known
<1>2. \A r : (Routed(r, "rx") => Routed(r, "rx")') /\ (Routed(r, "tx") => Routed(r, "tx")')
  BY Zenon DEF Routed
<1>3. \A m : Answered(m) => Answered(m)'
  BY Zenon DEF Answered
<1>4. /\ AllAhead(conn, asked, Received', ToClient' \cup ToReceiver' \cup ToTransmitter' \cup InHands')
      /\ AllAhead(conn, asked, ToClient', ToReceiver' \cup ToTransmitter' \cup InHands')
      /\ AllAhead(conn, asked, ToReceiver' \cup ToTransmitter', InHands')
  BY Zenon DEF AllAhead
<1>5. \A m \in (Received \cup ToClient \cup ToReceiver \cup ToTransmitter \cup InHands)' : Known(m)'
  BY <1>1, Zenon
<1>6. /\ \A r \in ToReceiver' : Routed(r, "rx")'
      /\ \A r \in ToTransmitter' : ~push' /\ Routed(r, "tx")'
      /\ \A m \in (Received \cup ToClient)' : Answered(m)'
  BY <1>2, <1>3, Zenon
<1> QED BY <1>4, <1>5, <1>6, Zenon

\* a message that joins the others on the way to the client is behind what the client received
\* and ahead of what is still to be answered,
LEMMA FlowToClient ==
  ASSUME FlowInv, UNCHANGED <<conn, asked, push, rx_enabled>>, Connected' => Connected,
         NEW m, Known(m), Answered(m)', \A x \in Received : Ahead(conn, asked, x, m),
         \A y \in ToReceiver' \cup ToTransmitter' \cup InHands' : Ahead(conn, asked, m, y),
         Received' \subseteq Received, ToClient' \subseteq ToClient \cup {m}, ToReceiver' \subseteq ToReceiver,
         ToTransmitter' \subseteq ToTransmitter, InHands' \subseteq InHands
  PROVE  FlowInv'
<1> USE DEF FlowInv
<1>1. \A x : Known(x) => Known(x)'
  BY Zenon DEF Known
<1>2. \A r : (Routed(r, "rx") => Routed(r, "rx")') /\ (Routed(r, "tx") => Routed(r, "tx")')
  BY Zenon DEF Routed
<1>3. \A x : Answered(x) => Answered(x)'
  BY Zenon DEF Answered
<1>4. /\ AllAhead(conn, asked, Received', ToClient' \cup ToReceiver' \cup ToTransmitter' \cup InHands')
      /\ AllAhead(conn, asked, ToClient', ToReceiver' \cup ToTransmitter' \cup InHands')
      /\ AllAhead(conn, asked, ToReceiver' \cup ToTransmitter', InHands')
  BY Zenon DEF AllAhead
<1>5. \A x \in (Received \cup ToClient \cup ToReceiver \cup ToTransmitter \cup InHands)' : Known(x)'
  BY <1>1, Zenon
<1>6. /\ \A r \in ToReceiver' : Routed(r, "rx")'
      /\ \A r \in ToTransmitter' : ~push' /\ Routed(r, "tx")'
      /\ \A x \in (Received \cup ToClient)' : Answered(x)'
  BY <1>2, <1>3, Zenon
<1> QED BY <1>4, <1>5, <1>6, Zenon

\* so is one that the client receives,
LEMMA FlowReceived ==
  ASSUME FlowInv, UNCHANGED <<conn, asked, push, rx_enabled>>, Connected' => Connected,
         NEW m \in ToClient, \A y \in ToClient' : Ahead(conn, asked, m, y),
         Received' \subseteq Received \cup {m}, ToClient' \subseteq ToClient, ToReceiver' \subseteq ToReceiver,
         ToTransmitter' \subseteq ToTransmitter, InHands' \subseteq InHands
  PROVE  FlowInv'
<1> USE DEF FlowInv
<1>1. \A x : Known(x) => Known(x)'
  BY Zenon DEF Known
<1>2. \A r : (Routed(r, "rx") => Routed(r, "rx")') /\ (Routed(r, "tx") => Routed(r, "tx")')
  BY Zenon DEF Routed
<1>3. \A x : Answered(x) => Answered(x)'
  BY Zenon DEF Answered
<1>4. /\ AllAhead(conn, asked, Received', ToClient' \cup ToReceiver' \cup ToTransmitter' \cup InHands')
      /\ AllAhead(conn, asked, ToClient', ToReceiver' \cup ToTransmitter' \cup InHands')
      /\ AllAhead(conn, asked, ToReceiver' \cup ToTransmitter', InHands')
  BY Zenon DEF AllAhead
<1>5. \A x \in (Received \cup ToClient \cup ToReceiver \cup ToTransmitter \cup InHands)' : Known(x)'
  BY <1>1, Zenon
<1>6. /\ \A r \in ToReceiver' : Routed(r, "rx")'
      /\ \A r \in ToTransmitter' : ~push' /\ Routed(r, "tx")'
      /\ \A x \in (Received \cup ToClient)' : Answered(x)'
  BY <1>2, <1>3, Zenon
<1> QED BY <1>4, <1>5, <1>6, Zenon

\* and one that a worker is given, behind all that is answered.
LEMMA FlowToWorker ==
  ASSUME FlowInv, UNCHANGED <<conn, asked, push, rx_enabled>>, Connected' => Connected,
         NEW m, Known(m), m.for = conn,
         \A x \in Received \cup ToClient : Ahead(conn, asked, x, m),
         \A y \in InHands' : Ahead(conn, asked, m, y),
         Received' \subseteq Received, ToClient' \subseteq ToClient, InHands' \subseteq InHands,
         \/ /\ Routed(m, "rx") /\ ToReceiver' \subseteq ToReceiver \cup {m}
            /\ ToTransmitter' \subseteq ToTransmitter
         \/ /\ Routed(m, "tx") /\ ~push /\ ToReceiver' \subseteq ToReceiver
            /\ ToTransmitter' \subseteq ToTransmitter \cup {m}
  PROVE  FlowInv'
<1> USE DEF FlowInv
<1>1. \A x : Known(x) => Known(x)'
  BY Zenon DEF Known
<1>2. \A r : (Routed(r, "rx") => Routed(r, "rx")') /\ (Routed(r, "tx") => Routed(r, "tx")')
  BY Zenon DEF Routed
<1>3. \A x : Answered(x) => Answered(x)'
  BY Zenon DEF Answered
<1>4. /\ AllAhead(conn, asked, Received', ToClient' \cup ToReceiver' \cup ToTransmitter' \cup InHands')
      /\ AllAhead(conn, asked, ToClient', ToReceiver' \cup ToTransmitter' \cup InHands')
      /\ AllAhead(conn, asked, ToReceiver' \cup ToTransmitter', InHands')
  BY Zenon DEF AllAhead
<1>5. \A x \in (Received \cup ToClient \cup ToReceiver \cup ToTransmitter \cup InHands)' : Known(x)'
  BY <1>1, Zenon
<1>6. /\ \A r \in ToReceiver' : Routed(r, "rx")'
      /\ \A r \in ToTransmitter' : ~push' /\ Routed(r, "tx")'
      /\ \A x \in (Received \cup ToClient)' : Answered(x)'
  BY <1>2, <1>3, Zenon
<1> QED BY <1>4, <1>5, <1>6, Zenon

\* A request that was just read has the largest number; what is on its way keeps its order.
LEMMA AheadGrows ==
  ASSUME NEW c, NEW a \in Seq(Kinds), NEW k \in Kinds, NEW x, NEW y, x.id \in Int, y.id \in Int,
         x.for = c => x.id <= Len(a), y.for = c => y.id <= Len(a), Ahead(c, a, x, y)
  PROVE  Ahead(c, Append(a, k), x, y)
<1> DEFINE b == Append(a, k)
<1>1. DOMAIN a = 1..Len(a) /\ Len(a) \in Nat /\ DOMAIN b = 1..(Len(a) + 1)
      /\ \A i \in DOMAIN a : i \in DOMAIN b /\ b[i] = a[i]
  OBVIOUS
<1> HIDE DEF b
<1>2. Live(c, b, x) => Live(c, a, x) /\ b[x.id] = a[x.id]
  BY <1>1 DEF Live
<1>3. Live(c, b, y) => Live(c, a, y) /\ b[y.id] = a[y.id]
  BY <1>1 DEF Live
<1>4. StartedLater(a, x.id) => StartedLater(b, x.id)
  BY <1>1, Zenon DEF StartedLater
<1>5. Ahead(c, b, x, y)
  BY <1>2, <1>3, <1>4, Zenon DEF Ahead
<1> QED BY <1>5, Zenon DEF b

\* Without requests nothing has to be in order but the requests of earlier clients.
LEMMA AheadOfNone ==
  ASSUME NEW c, NEW d, NEW a, NEW x, NEW y, Ahead(c, a, x, y)
  PROVE  Ahead(d, <<>>, x, y)
<1>1. DOMAIN <<>> = {}
  OBVIOUS
<1> QED BY <1>1, Zenon DEF Ahead, Live

LEMMA FlowTypes ==
  ASSUME ServerTypeOK, PlacesTypeOK
  PROVE  /\ Received \subseteq CtxMessages /\ ToClient \subseteq CtxMessages
         /\ ToReceiver \subseteq Requests /\ ToTransmitter \subseteq Requests
         /\ InHands \subseteq Requests \cup Refusals
<1>1. Received \subseteq CtxMessages
  <2>1. \A i \in DOMAIN got : got[i] \in Parts
    BY DEF PlacesTypeOK
  <2> QED BY <2>1, Zenon DEF Received, Headers, Parts
<1>2. ToClient \subseteq CtxMessages
  <2>1. \A i \in DOMAIN ctxQueue.filled : ctxQueue.filled[i] \in CtxMessages
    BY DEF PlacesTypeOK
  <2> QED BY <2>1, Zenon DEF ToClient, InQueue, PlacesTypeOK
<1>3. ToReceiver \subseteq Requests
  <2>1. \A i \in DOMAIN rxQueue.filled : rxQueue.filled[i] \in Requests
    BY DEF ServerTypeOK
  <2> QED BY <2>1, Zenon DEF ToReceiver, InQueue, PlacesTypeOK
<1>4. ToTransmitter \subseteq Requests
  <2>1. \A i \in DOMAIN txQueue.filled : txQueue.filled[i] \in Requests
    BY DEF PlacesTypeOK
  <2> QED BY <2>1, Zenon DEF ToTransmitter, InQueue, PlacesTypeOK
<1>5. InHands \subseteq Requests \cup Refusals
  <2>1. \A i \in DOMAIN todo : todo[i] \in Todo
    BY DEF ServerTypeOK
  <2> QED BY <2>1, Zenon DEF InHands, Todo
<1> QED BY <1>1, <1>2, <1>3, <1>4, <1>5, Zenon

\* What the types say of two messages
LEMMA MessageTypes ==
  /\ \A m \in CtxMessages : m.type \notin RequestKinds /\ m.id \in Int /\ m.for \in Nat
  /\ \A m \in Refusals : m.type \notin RequestKinds /\ m.type # "softBits" /\ m.id \in Int /\ m.for \in Nat
                         /\ m \in CtxMessages
  /\ \A r \in Requests : r.type \in RequestKinds /\ r.type # "softBits" /\ r.id \in Nat /\ r.for \in Nat
  BY Zenon DEF CtxMessages, Requests, Refusals, RequestKinds

\* The acceptor has other messages in its hands, and maybe another client.
LEMMA FlowAccepts ==
  ASSUME FlowInv, UNCHANGED push, NEW P, P = Received \cup ToClient \cup ToReceiver \cup ToTransmitter,
         Received' \subseteq Received, ToClient' = ToClient, ToReceiver' = ToReceiver, ToTransmitter' = ToTransmitter,
         \A x, y \in P : Ahead(conn, asked, x, y) => Ahead(conn, asked, x, y)',
         \A x \in P : Known(x)',
         \A r \in ToReceiver : Routed(r, "rx")',
         \A r \in ToTransmitter : Routed(r, "tx")',
         \A m \in Received \cup ToClient : Answered(m)',
         \A m \in InHands' : Known(m)' /\ \A x \in P : Ahead(conn, asked, x, m)'
  PROVE  FlowInv'
<1> USE DEF FlowInv
<1>1. /\ AllAhead(conn', asked', Received', ToClient' \cup ToReceiver' \cup ToTransmitter' \cup InHands')
      /\ AllAhead(conn', asked', ToClient', ToReceiver' \cup ToTransmitter' \cup InHands')
      /\ AllAhead(conn', asked', ToReceiver' \cup ToTransmitter', InHands')
  BY Zenon DEF AllAhead
<1>2. \A x \in (Received \cup ToClient \cup ToReceiver \cup ToTransmitter \cup InHands)' : Known(x)'
  BY Zenon
<1>3. /\ \A r \in ToReceiver' : Routed(r, "rx")'
      /\ \A r \in ToTransmitter' : ~push' /\ Routed(r, "tx")'
      /\ \A x \in (Received \cup ToClient)' : Answered(x)'
  BY Zenon
<1> QED BY <1>1, <1>2, <1>3, Zenon

\* What a request makes the acceptor put on the queues goes to the thread that answers it.
LEMMA PutsRouted ==
  ASSUME push \in BOOLEAN, NEW r \in Requests
  PROVE  \/ Puts(r) = <<>>
         \/ Puts(r) = <<ToRx(r)>> /\ Answerer(r.type) = "rx"
         \/ Puts(r) = <<ToTx(r)>> /\ Answerer(r.type) = "tx" /\ ~push
         \/ /\ \E ok \in BOOLEAN : \/ Puts(r) = <<ToCtx(SendResponse(r, ok))>>
                                   \/ Puts(r) = <<ToCtx(SendResponse(r, ok)), ToCtx(SendNew(-1))>>
            /\ Answerer(r.type) # "rx" /\ (Answerer(r.type) = "tx" => push)
         \/ Puts(r) = <<ToCtx(SendNew(-1))>>
<1>1. r.type \in RequestKinds
  BY Zenon DEF Requests
<1>2. CASE r.type \in {"badVersion", "badParams", "unknown"}
  BY <1>2, Zenon DEF Puts, Answerer
<1>3. CASE r.type = "tooLong"
  BY <1>3, Zenon DEF Puts, Answerer
<1>4. CASE r.type \in {"payloadLost", "bigFrame"}
  BY <1>4, Zenon DEF Puts
<1>5. CASE r.type \in {"rxParams", "start", "stop"}
  BY <1>5, Zenon DEF Puts, Answerer
<1>6. CASE r.type \in {"txParams", "frame"}
  BY <1>6, Zenon DEF Puts, Answerer
<1>7. CASE r.type = "ping"
  BY <1>7, Zenon DEF Puts, Answerer
<1>8. CASE r.type = "shutdown"
  BY <1>8, Zenon DEF Puts
<1> QED BY <1>1, <1>2, <1>3, <1>4, <1>5, <1>6, <1>7, <1>8, Zenon DEF RequestKinds

LEMMA AnswersInit == ASSUME Init PROVE AnswersInv
<1> USE DEF Init, CtxInit, RxInit, TxInit, NewQueue, QueueValue
<1>0. /\ DOMAIN got = {} /\ DOMAIN todo = {} /\ DOMAIN ctxQueue.filled = {} /\ DOMAIN rxQueue.filled = {}
      /\ DOMAIN txQueue.filled = {} /\ CtxHand = {} /\ RxHand = {} /\ TxHand = {}
  BY DEF CtxHand, RxHand, TxHand
<1>1. Received = {} /\ ToClient = {} /\ ToReceiver = {} /\ ToTransmitter = {} /\ InHands = {}
  BY <1>0, Zenon DEF Received, Headers, ToClient, ToReceiver, ToTransmitter, InHands, InQueue
<1>2. PlacesTypeOK
  BY <1>0 DEF PlacesTypeOK, Connected
<1>3. TodoInv /\ ReceiverInv
  BY Zenon DEF TodoInv, ReceiverInv
<1>4. PlacesInv
  BY <1>0, Zenon DEF PlacesInv, Ordered, Headers
<1>5. FlowInv
  BY <1>1, Zenon DEF FlowInv, AllAhead
<1> QED BY <1>2, <1>3, <1>4, <1>5, Zenon DEF AnswersInv

-----------------------------------------------------------------------------
\* A message that belongs to no request of the connection
LEMMA NewIsAhead ==
  ASSUME NEW c \in Nat \ {0}, NEW a, NEW x, NEW socket \in Int
  PROVE  /\ Ahead(c, a, x, SendNew(socket)) /\ SendNew(socket) \in Refusals
         /\ ~Live(c, a, SendNew(socket)) /\ SendNew(socket).for = 0
<1>1. /\ SendNew(socket).for = 0 /\ SendNew(socket).type = "new" /\ SendNew(socket) \in Refusals
  BY Zenon DEF SendNew, CtxMessage, Refusals
<1>2. "new" # "softBits" /\ "new" \notin RequestKinds
  BY Zenon DEF RequestKinds
<1>3. ~Live(c, a, SendNew(socket))
  BY <1>1, Zenon DEF Live
<1> QED BY <1>1, <1>2, <1>3, Zenon DEF Ahead

\* The puts s for request r, which is the last one of a
PutsOfRequest(c, a, r, s) ==
  /\ \A i \in DOMAIN s :
       LET e == s[i]
       IN  /\ e.msg.id \in Int
           /\ e.msg.for = 0 \/ (e.msg.for = c /\ e.msg.id = r.id)
           /\ e.msg.type # "softBits" /\ (e.msg.type \in RequestKinds => e.msg.for = c)
           /\ e.to = "rx" => e.msg = r /\ Answerer(r.type) = "rx"
           /\ e.to = "tx" => e.msg = r /\ Answerer(r.type) = "tx" /\ ~push
           /\ e.to = "ctx" =>
                /\ e.msg \in Refusals
                /\ Live(c, a, e.msg) => /\ e.msg.id = r.id /\ Answerer(r.type) # "rx"
                                        /\ Answerer(r.type) = "tx" => push
  /\ \A i, j \in DOMAIN s : i < j => Ahead(c, a, s[i].msg, s[j].msg)

LEMMA PutsInOrder ==
  ASSUME push \in BOOLEAN, NEW c \in Nat \ {0}, NEW a \in Seq(Kinds), a # <<>>,
         NEW r \in Requests, r.for = c, r.id = Len(a), a[r.id] = r.type
  PROVE  PutsOfRequest(c, a, r, Puts(r))
<1> USE DEF PutsOfRequest
<1> DEFINE new == ToCtx(SendNew(-1))
<1>1. new.to = "ctx" /\ new.msg = SendNew(-1) /\ -1 \in Int
  BY DEF ToCtx
<1>2. /\ new.msg \in Refusals /\ new.msg.for = 0 /\ ~Live(c, a, new.msg) /\ \A x : Ahead(c, a, x, new.msg)
  BY <1>1, NewIsAhead, Zenon
<1>3. /\ r.id \in Int /\ r.type # "softBits" /\ \A m \in Refusals : m.type # "softBits" /\ m.type \notin RequestKinds /\ m.id \in Int
  BY DEF Requests, Refusals, RequestKinds
<1>4. \A ok \in BOOLEAN : LET m == SendResponse(r, ok)
                          IN  m.for = c /\ m.id = r.id /\ m \in Refusals
  BY DEF SendResponse, CtxMessage, Requests, Refusals
<1>5. ToRx(r).to = "rx" /\ ToRx(r).msg = r /\ ToTx(r).to = "tx" /\ ToTx(r).msg = r
  BY Zenon DEF ToRx, ToTx
<1>6. \A ok : ToCtx(SendResponse(r, ok)).to = "ctx" /\ ToCtx(SendResponse(r, ok)).msg = SendResponse(r, ok)
  BY Zenon DEF ToCtx
<1>7. \A m, n : /\ DOMAIN <<m>> = {1} /\ <<m>>[1] = m
                /\ DOMAIN <<m, n>> = {1, 2} /\ <<m, n>>[1] = m /\ <<m, n>>[2] = n
                /\ ~(1 < 1) /\ ~(2 < 1) /\ ~(2 < 2)
  OBVIOUS
<1>8. CASE Puts(r) = <<>>
  BY <1>8
<1>9. CASE Puts(r) = <<ToRx(r)>> /\ Answerer(r.type) = "rx"
  BY <1>3, <1>5, <1>7, <1>9
<1>10. CASE Puts(r) = <<ToTx(r)>> /\ Answerer(r.type) = "tx" /\ ~push
  BY <1>3, <1>5, <1>7, <1>10
<1>11. CASE Puts(r) = <<new>>
  <2> HIDE DEF new
  <2> QED BY <1>1, <1>2, <1>3, <1>7, <1>11
<1>12. ASSUME NEW ok \in BOOLEAN, Answerer(r.type) # "rx", Answerer(r.type) = "tx" => push,
              Puts(r) = <<ToCtx(SendResponse(r, ok))>> \/ Puts(r) = <<ToCtx(SendResponse(r, ok)), new>>
       PROVE  /\ \A i \in DOMAIN Puts(r) :
                   LET e == Puts(r)[i]
                   IN  /\ e.msg.id \in Int
                       /\ e.msg.for = 0 \/ (e.msg.for = c /\ e.msg.id = r.id)
                       /\ e.msg.type # "softBits" /\ e.msg.type \notin RequestKinds
                       /\ e.to = "ctx" /\ e.msg \in Refusals
                       /\ Live(c, a, e.msg) => e.msg.id = r.id
              /\ \A i, j \in DOMAIN Puts(r) : i < j => Ahead(c, a, Puts(r)[i].msg, Puts(r)[j].msg)
  <2> DEFINE e == ToCtx(SendResponse(r, ok))
  <2>1. e.to = "ctx" /\ e.msg \in Refusals /\ e.msg.for = c /\ e.msg.id = r.id
    BY <1>4, <1>6, Zenon
  <2>2. Puts(r) = <<e>> \/ Puts(r) = <<e, new>>
    BY <1>12, Zenon
  <2> HIDE DEF e, new
  <2> QED BY <1>1, <1>2, <1>3, <1>7, <2>1, <2>2
<1>13. \A i \in DOMAIN Puts(r) : Puts(r)[i].to = "ctx" => Puts(r)[i].to # "rx" /\ Puts(r)[i].to # "tx"
  BY Zenon
<1> HIDE DEF new
<1>14. CASE /\ \E ok \in BOOLEAN : \/ Puts(r) = <<ToCtx(SendResponse(r, ok))>>
                                   \/ Puts(r) = <<ToCtx(SendResponse(r, ok)), new>>
            /\ Answerer(r.type) # "rx" /\ (Answerer(r.type) = "tx" => push)
  BY <1>12, <1>13, <1>14, Zenon
<1> QED BY <1>8, <1>9, <1>10, <1>11, <1>14, PutsRouted, Zenon DEF new

\* The places that a step of the acceptor alone does not touch
workerPlaces == <<ctxQueue.filled, ctxQueue.detached, ctxPc, rxQueue.filled, rxQueue.detached, rxPc, txQueue.filled,
                  txQueue.detached, txPc, rx_enabled, request_id, rxOk, txReply, push>>

LEMMA SamePlaces ==
  ASSUME UNCHANGED workerPlaces
  PROVE  /\ ToClient' = ToClient /\ ToReceiver' = ToReceiver /\ ToTransmitter' = ToTransmitter
         /\ CtxHand' = CtxHand /\ RxHand' = RxHand /\ TxHand' = TxHand
         /\ ReceiverInv' = ReceiverInv
  BY DEF workerPlaces, ToClient, ToReceiver, ToTransmitter, InQueue, CtxHand, RxHand, TxHand, ReceiverInv

\* Every order between two messages that are in place before the step holds behind it.
LEMMA PlacesInOrder ==
  ASSUME PlacesInv, UNCHANGED workerPlaces, got' = got \/ got' = <<>>,
         \A x, y \in Received \cup ToClient \cup ToReceiver \cup ToTransmitter :
            Ahead(conn, asked, x, y) => Ahead(conn, asked, x, y)',
         \A i, j \in DOMAIN todo' : i < j => Ahead(conn', asked', todo'[i].msg, todo'[j].msg)
  PROVE  PlacesInv' /\ Received' \subseteq Received
<1> DEFINE P == Received \cup ToClient \cup ToReceiver \cup ToTransmitter
<1>1. /\ \A i \in Headers : got[i].msg \in P
      /\ \A i \in DOMAIN ctxQueue.filled : ctxQueue.filled[i] \in P
      /\ \A i \in DOMAIN rxQueue.filled : rxQueue.filled[i] \in P
      /\ \A i \in DOMAIN txQueue.filled : txQueue.filled[i] \in P
      /\ CtxHand \subseteq P
      /\ RxHand \subseteq P
      /\ TxHand \subseteq P
  BY Zenon DEF Received, ToClient, ToReceiver, ToTransmitter, InQueue
<1>2. got' = <<>> => Headers' = {}
  BY DEF Headers
<1>3. got' = got => Headers' = Headers
  BY Zenon DEF Headers
<1>4. Received' \subseteq Received
  BY <1>2, <1>3, Zenon DEF Received
<1> HIDE DEF P
<1>5. /\ \A i, j \in Headers' : i < j => Ahead(conn', asked', got'[i].msg, got'[j].msg)
  BY <1>1, <1>2, <1>3, Zenon DEF PlacesInv, P
<1>6. /\ Ordered(conn', asked', ctxQueue, CtxHand)
      /\ Ordered(conn', asked', rxQueue, RxHand)
      /\ Ordered(conn', asked', txQueue, TxHand)
  BY <1>1, Zenon DEF PlacesInv, Ordered, P
<1> QED BY <1>4, <1>5, <1>6, SamePlaces, Zenon DEF PlacesInv, workerPlaces, Ordered

LEMMA ReadRequestKeeps ==
  ASSUME ServerInv, AnswersInv, NEW kind \in Kinds, ReadRequest(kind), UNCHANGED push
  PROVE  AnswersInv'
<1> USE DEF AnswersInv
<1> DEFINE P == Received \cup ToClient \cup ToReceiver \cup ToTransmitter
           r == [type |-> kind, id |-> Len(asked'), for |-> conn]
<1>1. /\ UNCHANGED workerPlaces /\ UNCHANGED <<conn, got>> /\ accPc = "read" /\ accPc' \in {"put", "read", "stop"}
      /\ (accPc' # "put" => todo' = <<>>) /\ asked' = Append(asked, kind) /\ todo' = Puts(r)
  BY Zenon DEF ReadRequest, netVars, ctxVars, rxVars, txVars, workerPlaces, LoopPc
<1>2. /\ conn \in Nat \ {0} /\ asked \in Seq(Kinds) /\ push \in BOOLEAN /\ Connected /\ Connected'
  BY <1>1 DEF ServerInv, ServerTypeOK, PlacesTypeOK, Connected
<1>3. /\ Len(asked) \in Nat /\ asked' \in Seq(Kinds) /\ asked' # <<>> /\ Len(asked') = Len(asked) + 1
      /\ asked'[Len(asked')] = kind /\ DOMAIN asked = 1..Len(asked) /\ DOMAIN asked' = 1..Len(asked')
      /\ \A i \in DOMAIN asked : i \in DOMAIN asked' /\ asked'[i] = asked[i]
  BY <1>1, <1>2
<1>4. r \in Requests /\ r.for = conn /\ r.id = Len(asked') /\ r.type = kind /\ asked'[r.id] = r.type
  <2>1. Len(asked') \in Nat
    BY <1>3
  <2> QED BY <1>2, <1>3, <2>1, ServerAssumption, Zenon DEF Requests
<1> HIDE DEF r
<1>5. \A x \in P : x.id \in Int /\ x.for \in Nat /\ x.for <= conn /\ (x.for = conn => x.id <= Len(asked))
  BY <1>2, FlowTypes, MessageTypes DEF FlowInv, Known, ServerInv
<1>6. \A x, y \in P : Ahead(conn, asked, x, y) => Ahead(conn', asked', x, y)
  BY <1>1, <1>2, <1>5, AheadGrows, Zenon
<1>7. PutsOfRequest(conn, asked', r, todo')
  <2>1. /\ push \in BOOLEAN /\ conn \in Nat \ {0} /\ asked' \in Seq(Kinds) /\ asked' # <<>>
        /\ r \in Requests /\ r.for = conn /\ r.id = Len(asked') /\ asked'[r.id] = r.type
    BY <1>2, <1>3, <1>4, Zenon
  <2>2. PutsOfRequest(conn, asked', r, Puts(r))
    BY ONLY <2>1, PutsInOrder, Zenon
  <2> QED BY <1>1, <2>2, Zenon
<1>8. \A m \in InHands' : Known(m)' /\ \A x \in P : Ahead(conn', asked', x, m)
  <2> SUFFICES ASSUME NEW i \in DOMAIN todo', NEW m, m = todo'[i].msg
               PROVE  Known(m)' /\ \A x \in P : Ahead(conn', asked', x, m)
    BY Zenon DEF InHands
  <2>1. /\ m.id \in Int /\ (m.for = 0 \/ (m.for = conn /\ m.id = r.id)) /\ m.type # "softBits"
        /\ m.type \in RequestKinds => m.for = conn
    BY <1>7, Zenon DEF PutsOfRequest
  <2>2. Known(m)'
    BY <1>1, <1>2, <1>3, <1>4, <2>1 DEF Known
  <2>3. ASSUME NEW x \in P, Live(conn, asked', x), Live(conn, asked', m) PROVE x.id < m.id
    BY <1>2, <1>3, <1>4, <1>5, <2>1, <2>3 DEF Live
  <2>4. ASSUME NEW x \in P, m.type \in RequestKinds PROVE x.for <= m.for
    BY <1>5, <2>1, <2>4, Zenon
  <2> QED BY <1>1, <2>1, <2>2, <2>3, <2>4, Zenon DEF Ahead
<1>9. Received' = Received
  BY <1>1, Zenon DEF Received, Headers
<1>10. PlacesInv'
  BY <1>1, <1>6, <1>7, PlacesInOrder, Zenon DEF PutsOfRequest
<1>11. ASSUME NEW x \in P PROVE Live(conn, asked', x) => Live(conn, asked, x) /\ asked'[x.id] = asked[x.id]
  BY <1>3, <1>5 DEF Live
<1>12. FlowInv'
  <2>1. \A x \in P : Known(x)'
    BY <1>1, <1>3, <1>5 DEF Known
  <2>2. /\ \A x \in ToReceiver : Routed(x, "rx")'
        /\ \A x \in ToTransmitter : Routed(x, "tx")'
    BY <1>1, <1>11, Zenon DEF FlowInv, Routed
  <2>3. \A m \in Received \cup ToClient : Answered(m)'
    <3> SUFFICES ASSUME NEW m \in Received \cup ToClient, Live(conn, asked', m)
                 PROVE  /\ asked'[m.id] = "stop" /\ rx_enabled => StartedLater(asked', m.id)
                        /\ Answerer(asked'[m.id]) = "rx" => \A x \in ToReceiver : x.for = conn
      BY <1>1, SamePlaces, Zenon DEF Answered, workerPlaces
    <3>1. Live(conn, asked, m) /\ asked'[m.id] = asked[m.id]
      BY <1>11, Zenon
    <3>2. StartedLater(asked, m.id) => StartedLater(asked', m.id)
      BY <1>3, Zenon DEF StartedLater
    <3> QED BY <3>1, <3>2, Zenon DEF FlowInv, Answered
  <2> QED BY <1>1, <1>6, <1>8, <1>9, <2>1, <2>2, <2>3, SamePlaces, FlowAccepts, Zenon DEF workerPlaces
<1>13. TodoInv'
  BY <1>1, <1>3, <1>4, <1>7 DEF TodoInv, Routed, PutsOfRequest
<1>14. ReceiverInv'
  BY <1>1, SamePlaces, Zenon
<1>15. PlacesTypeOK'
  BY <1>1, <1>2, SamePlaces, Zenon DEF PlacesTypeOK, workerPlaces
<1> QED BY <1>10, <1>12, <1>13, <1>14, <1>15, Zenon

\* Steps of the acceptor, the client and the main thread that put nothing on a queue
LEMMA WaitingKeeps ==
  ASSUME ServerInv, AnswersInv, UNCHANGED workerPlaces, UNCHANGED <<conn, asked, todo>>,
         got' = got \/ got' = <<>>, accPc' \in {accPc, "stop", "read", "done"}, accPc' \in {"stop", "read"} => Connected,
         accPc' = "done" => ~Connected, accPc' # accPc => accPc # "put"
  PROVE  AnswersInv'
<1> USE DEF AnswersInv
<1>1. Connected' => Connected
  BY Zenon DEF Connected
<1>2. PlacesInv' /\ Received' \subseteq Received
  BY PlacesInOrder, Zenon DEF PlacesInv
<1>3. FlowInv'
  BY <1>1, <1>2, SamePlaces, FlowShrinks, Zenon DEF workerPlaces, InHands
<1>4. ReceiverInv' /\ TodoInv'
  BY SamePlaces, Zenon DEF TodoInv, Routed, workerPlaces
<1>5. PlacesTypeOK'
  <2>1. got' \in Seq(Parts)
    <3>1. <<>> \in Seq(Parts) /\ got \in Seq(Parts)
      BY DEF PlacesTypeOK
    <3> QED BY <3>1, Zenon
  <2> QED BY <2>1, SamePlaces, Zenon DEF PlacesTypeOK, workerPlaces, Connected
<1> QED BY <1>2, <1>3, <1>4, <1>5, Zenon

LEMMA ReadDisconnectedKeeps ==
  ASSUME ServerInv, AnswersInv, ReadDisconnected, UNCHANGED push
  PROVE  AnswersInv'
<1> USE DEF AnswersInv
<1> DEFINE m == SendNew(-1)
<1>1. /\ UNCHANGED workerPlaces /\ UNCHANGED <<conn, got, asked>> /\ accPc = "read" /\ accPc' = "put"
      /\ todo' = <<ToCtx(m)>> /\ -1 \in Int
  BY DEF ReadDisconnected, netVars, ctxVars, rxVars, txVars, workerPlaces
<1>2. Connected /\ Connected' /\ conn \in Nat \ {0}
  BY <1>1 DEF Connected, PlacesTypeOK, ServerInv, ServerTypeOK
<1>3. /\ m \in Refusals /\ m.for = 0 /\ ~Live(conn, asked, m) /\ \A x : Ahead(conn, asked, x, m)
  BY <1>1, <1>2, NewIsAhead, Zenon
<1> HIDE DEF m
<1>4. /\ DOMAIN todo' = {1} /\ todo'[1] = ToCtx(m) /\ ToCtx(m).to = "ctx" /\ ToCtx(m).msg = m
      /\ InHands' = {m}
  BY <1>1 DEF InHands, ToCtx
<1>5. PlacesInv' /\ Received' = Received
  <2>1. \A i, j \in DOMAIN todo' : i < j => Ahead(conn', asked', todo'[i].msg, todo'[j].msg)
    BY <1>4
  <2>2. Received' = Received
    BY <1>1, Zenon DEF Received, Headers
  <2> QED BY <1>1, <2>1, <2>2, PlacesInOrder, Zenon
<1>6. FlowInv'
  <2> DEFINE P == Received \cup ToClient \cup ToReceiver \cup ToTransmitter
  <2>1. \A x \in P : Known(x)'
    BY <1>1, <1>2, Zenon DEF FlowInv, Known
  <2>2. /\ \A x \in ToReceiver : Routed(x, "rx")'
        /\ \A x \in ToTransmitter : Routed(x, "tx")'
    BY <1>1, Zenon DEF FlowInv, Routed
  <2>3. \A x \in Received \cup ToClient : Answered(x)'
    BY <1>1, SamePlaces, Zenon DEF FlowInv, Answered, workerPlaces
  <2>4. \A x \in InHands' : Known(x)' /\ \A y \in P : Ahead(conn', asked', y, x)
    BY <1>1, <1>2, <1>3, <1>4 DEF Known
  <2>5. \A x, y \in P : Ahead(conn, asked, x, y) => Ahead(conn, asked, x, y)'
    BY <1>1, Zenon
  <2> QED BY <1>1, <1>5, <2>1, <2>2, <2>3, <2>4, <2>5, SamePlaces, FlowAccepts, Zenon
<1>7. TodoInv'
  BY <1>1, <1>3, <1>4, Zenon DEF TodoInv
<1>8. PlacesTypeOK' /\ ReceiverInv'
  BY <1>1, <1>2, SamePlaces, Zenon DEF PlacesTypeOK, workerPlaces
<1> QED BY <1>5, <1>6, <1>7, <1>8, Zenon

\* A connection begins, is refused or ends: there are no requests yet or any more.
LEMMA ConnectionKeeps ==
  ASSUME ServerInv, AnswersInv, Accept \/ AcceptAborted \/ AccClose, UNCHANGED push
  PROVE  AnswersInv'
<1> USE DEF AnswersInv
<1> DEFINE P == Received \cup ToClient \cup ToReceiver \cup ToTransmitter
<1>1. /\ UNCHANGED workerPlaces /\ got' \in {got, <<>>}
  BY Zenon DEF Accept, AcceptAborted, AccClose, ctxVars, rxVars, txVars, workerPlaces
<1>2. /\ asked' = <<>> /\ conn' \in {conn, conn + 1} /\ conn \in Nat
  BY Zenon DEF Accept, AcceptAborted, AccClose, accVars, PlacesTypeOK, Connected, ServerInv, ServerTypeOK
<1>3. (Connected' /\ conn' = conn + 1 /\ accPc' = "put") \/ (~Connected' /\ accPc' \in {"accept", "done"} /\ todo' = todo /\ accPc # "put")
  BY Zenon DEF Accept, AcceptAborted, AccClose, accVars, Connected
<1>4. DOMAIN asked' = {} /\ \A x : ~Live(conn', asked', x)
  BY <1>2 DEF Live
<1>5. \A x, y : Ahead(conn, asked, x, y) => Ahead(conn', asked', x, y)
  BY <1>2, AheadOfNone, Zenon
<1>6. \A x \in P \cup InHands : x.for \in Nat /\ x.for <= conn
  BY FlowTypes, MessageTypes, Zenon DEF FlowInv, Known, ServerInv
<1>7. \A x \in P \cup InHands : Known(x)'
  BY <1>2, <1>3, <1>6 DEF Known
<1>8. /\ \A m \in InHands' : Known(m)' /\ \A x \in P : Ahead(conn', asked', x, m)
      /\ \A i, j \in DOMAIN todo' : i < j => Ahead(conn', asked', todo'[i].msg, todo'[j].msg)
      /\ TodoInv'
  <2>1. CASE Connected' /\ conn' = conn + 1 /\ accPc' = "put"
    <3> DEFINE m == SendNew(Fd)
    <3>1. todo' = <<[to |-> "ctx", msg |-> m]>> /\ conn' \in Nat \ {0} /\ Fd \in Int
      BY <1>2, <2>1 DEF Accept, AcceptAborted, AccClose, accVars, Fd
    <3>2. /\ m \in Refusals /\ m.for = 0 /\ ~Live(conn', asked', m) /\ \A x : Ahead(conn', asked', x, m)
      BY <3>1, NewIsAhead, Zenon
    <3> HIDE DEF m
    <3>3. DOMAIN todo' = {1} /\ todo'[1].to = "ctx" /\ todo'[1].msg = m /\ InHands' = {m}
      BY <3>1 DEF InHands
    <3>4. Known(m)'
      BY <3>1, <3>2 DEF Known
    <3> QED BY <2>1, <3>2, <3>3, <3>4, Zenon DEF TodoInv
  <2>2. CASE ~Connected' /\ accPc' \in {"accept", "done"} /\ todo' = todo /\ accPc # "put"
    <3>1. InHands' = InHands
      BY <2>2, Zenon DEF InHands
    <3>2. \A x \in P, m \in InHands : Ahead(conn, asked, x, m)
      BY Zenon DEF FlowInv, AllAhead
    <3>3. \A i, j \in DOMAIN todo : i < j => Ahead(conn, asked, todo[i].msg, todo[j].msg)
      BY Zenon DEF PlacesInv
    <3> QED BY <1>5, <1>7, <2>2, <3>1, <3>2, <3>3, Zenon DEF TodoInv
  <2> QED BY <1>3, <2>1, <2>2, Zenon
<1>9. PlacesInv' /\ Received' \subseteq Received
  BY <1>1, <1>5, <1>8, PlacesInOrder, Zenon
<1>10. FlowInv'
  <2>1. /\ \A x \in ToReceiver : Routed(x, "rx")'
        /\ \A x \in ToTransmitter : Routed(x, "tx")'
        /\ \A x \in Received \cup ToClient : Answered(x)'
    BY <1>4, Zenon DEF FlowInv, Routed, Answered
  <2> QED BY <1>1, <1>5, <1>7, <1>8, <1>9, <2>1, SamePlaces, FlowAccepts, Zenon
<1>11. PlacesTypeOK' /\ ReceiverInv'
  <2>1. got' \in Seq(Parts)
    <3>1. <<>> \in Seq(Parts) /\ got \in Seq(Parts)
      BY DEF PlacesTypeOK
    <3> QED BY <1>1, <3>1, Zenon
  <2>2. conn' > 0 \/ ~Connected'
    BY <1>2, <1>3
  <2> QED BY <1>1, <1>2, <1>3, <2>1, <2>2, SamePlaces, Zenon DEF PlacesTypeOK, workerPlaces
<1> QED BY <1>8, <1>9, <1>10, <1>11, Zenon

-----------------------------------------------------------------------------
\* The next message that the acceptor puts on a queue
LEMMA NextPut ==
  ASSUME ServerInv, AnswersInv, AccPut, UNCHANGED push
  PROVE  /\ Head(todo) \in Todo /\ Head(todo) = todo[1] /\ 1 \in DOMAIN todo /\ Head(todo).msg \in InHands
         /\ InHands' \subseteq InHands /\ \A y \in InHands' : Ahead(conn, asked, Head(todo).msg, y)
         /\ \A i, j \in DOMAIN todo' : i < j => Ahead(conn, asked, todo'[i].msg, todo'[j].msg)
         /\ TodoInv' /\ UNCHANGED <<conn, asked, got, ctxPc, rxPc, txPc, rx_enabled, request_id, rxOk, txReply>>
         /\ Connected /\ Connected' /\ conn \in Nat \ {0}
<1> USE DEF AnswersInv
<1>1. /\ accPc = "put" /\ accPc' \in {"put", "read", "stop"} /\ todo' = Tail(todo)
      /\ accPc' # "put" => todo' = <<>>
      /\ UNCHANGED <<conn, asked, got, ctxPc, rxPc, txPc, rx_enabled, request_id, rxOk, txReply>>
  BY Zenon DEF AccPut, LoopPc, netVars
<1>2. todo \in Seq(Todo) /\ todo # <<>>
  BY <1>1, Zenon DEF ServerInv, ServerTypeOK
<1>3. /\ Head(todo) = todo[1] /\ 1 \in DOMAIN todo /\ todo[1] \in Todo
      /\ \A i \in DOMAIN Tail(todo) : i + 1 \in DOMAIN todo /\ 1 < i + 1 /\ Tail(todo)[i] = todo[i + 1]
      /\ \A i, j \in DOMAIN Tail(todo) : i < j => i + 1 < j + 1
  BY <1>2
<1>4. \A i, j \in DOMAIN todo : i < j => Ahead(conn, asked, todo[i].msg, todo[j].msg)
  BY Zenon DEF PlacesInv
<1>5. InHands' \subseteq InHands /\ Head(todo).msg \in InHands
  BY <1>1, <1>3 DEF InHands
<1>6. /\ \A y \in InHands' : Ahead(conn, asked, Head(todo).msg, y)
      /\ \A i, j \in DOMAIN todo' : i < j => Ahead(conn, asked, todo'[i].msg, todo'[j].msg)
  BY <1>1, <1>3, <1>4, Zenon DEF InHands
<1>7. TodoInv'
  BY <1>1, <1>3 DEF TodoInv, Routed
<1>8. Connected /\ Connected' /\ conn \in Nat \ {0}
  BY <1>1 DEF Connected, PlacesTypeOK, ServerInv, ServerTypeOK
<1> QED BY <1>1, <1>3, <1>5, <1>6, <1>7, <1>8, Zenon

LEMMA PutKeepsHand == ASSUME NEW q, NEW m PROVE AfterPut(q, m).detached = q.detached
  BY Zenon DEF AfterPut, QueueValue

LEMMA AnswererOfStop == Answerer("stop") = "rx" /\ Answerer("start") = "rx"
  BY Zenon DEF Answerer

LEMMA PutToClientKeeps ==
  ASSUME ServerInv, AnswersInv, AccPut, UNCHANGED push, Head(todo).to = "ctx"
  PROVE  AnswersInv'
<1> USE DEF AnswersInv
<1>0. PICK m : m = Head(todo).msg
  BY Zenon
<1>1. ctxQueue' = AfterPut(ctxQueue, m) /\ UNCHANGED <<rxQueue, txQueue>>
  BY <1>0, Zenon DEF AccPut, PutCtx
<1>2. /\ m \in Refusals /\ m \in CtxMessages
      /\ Live(conn, asked, m) => Answerer(asked[m.id]) # "rx" /\ (Answerer(asked[m.id]) = "tx" => push)
  BY <1>0, NextPut, MessageTypes, Zenon DEF TodoInv, AccPut
<1>3. m.type # "softBits" /\ m.type \notin RequestKinds
  BY <1>2, MessageTypes, Zenon
<1>4. UNCHANGED <<CtxHand, RxHand, TxHand, Received, ToReceiver, ToTransmitter>>
  BY <1>1, NextPut, PutKeepsHand, Zenon DEF CtxHand, RxHand, TxHand, Received, Headers, ToReceiver, ToTransmitter
<1>5. /\ Known(m) /\ \A x \in Received \cup ToClient : Ahead(conn, asked, x, m)
      /\ \A y \in InHands' : Ahead(conn, asked, m, y)
  BY <1>0, NextPut, Zenon DEF FlowInv, AllAhead
<1>6. /\ Ordered(conn, asked, ctxQueue', CtxHand) /\ InQueue(ctxQueue', CtxHand) \subseteq ToClient \cup {m}
      /\ ctxQueue'.filled \in Seq(CtxMessages) /\ ctxQueue'.detached = ctxQueue.detached
  <2>1. ctxQueue.filled \in Seq(CtxMessages) /\ Ordered(conn, asked, ctxQueue, CtxHand)
    BY Zenon DEF CtxHand, PlacesTypeOK, PlacesInv
  <2>2. \A x \in InQueue(ctxQueue, CtxHand) : Ahead(conn, asked, x, m)
    BY <1>5, Zenon DEF ToClient
  <2>3. m \in CtxMessages
    BY <1>2, Zenon
  <2>4. /\ Ordered(conn, asked, AfterPut(ctxQueue, m), CtxHand)
        /\ InQueue(AfterPut(ctxQueue, m), CtxHand) \subseteq InQueue(ctxQueue, CtxHand) \cup {m}
        /\ AfterPut(ctxQueue, m).filled \in Seq(CtxMessages)
    BY ONLY <2>1, <2>2, <2>3, PutInOrder, Zenon
  <2> QED BY <1>1, <2>4, PutKeepsHand, Zenon DEF ToClient
<1>7. ToClient' \subseteq ToClient \cup {m}
  BY <1>4, <1>6, Zenon DEF ToClient
<1>8. \A y \in ToReceiver \cup ToTransmitter : Ahead(conn, asked, m, y)
  <2> SUFFICES ASSUME NEW y \in ToReceiver \cup ToTransmitter PROVE Ahead(conn, asked, m, y)
    BY Zenon
  <2>1. y.type # "softBits"
    BY FlowTypes, MessageTypes, Zenon DEF ServerInv
  <2>2. ~(Live(conn, asked, m) /\ Live(conn, asked, y) /\ Answerer(asked[m.id]) = Answerer(asked[y.id]))
    BY <1>2, Zenon DEF FlowInv, Routed
  <2> QED BY <1>3, <2>1, <2>2, Zenon DEF Ahead
<1>9. Answered(m)'
  BY <1>2, NextPut, AnswererOfStop, Zenon DEF Answered
<1>10. FlowInv'
  BY <1>4, <1>5, <1>7, <1>8, <1>9, NextPut, FlowToClient, Zenon
<1>11. PlacesInv'
  BY <1>1, <1>4, <1>6, NextPut, Zenon DEF PlacesInv, Headers
<1>12. PlacesTypeOK' /\ ReceiverInv'
  <2>1. /\ UNCHANGED <<got, ctxPc, txPc, rxPc, rx_enabled, request_id, rxOk, txReply, asked, conn>>
        /\ Connected /\ Connected' /\ conn \in Nat \ {0}
    BY ONLY NextPut, ServerInv, AnswersInv, AccPut, push' = push, Zenon
  <2>2. conn > 0
    BY <2>1
  <2>3. PlacesTypeOK
    BY Zenon
  <2>4. PlacesTypeOK'
    BY ONLY <1>1, <1>4, <1>6, <2>1, <2>2, <2>3, Zenon DEF PlacesTypeOK
  <2>5. ReceiverInv'
    BY <1>1, <2>1, Zenon DEF ReceiverInv
  <2> QED BY <2>4, <2>5, Zenon
<1> QED BY <1>10, <1>11, <1>12, NextPut, Zenon

LEMMA PutToReceiverKeeps ==
  ASSUME ServerInv, AnswersInv, UNCHANGED <<push, conn, asked, got, ctxQueue, ctxPc, rxPc, txQueue, txPc, rx_enabled, request_id, rxOk, txReply>>,
         Connected, Connected', NEW m \in Requests, rxQueue' = AfterPut(rxQueue, m), m.for = conn, Known(m), Routed(m, "rx"),
         \A x \in Received \cup ToClient \cup ToReceiver : Ahead(conn, asked, x, m),
         InHands' \subseteq InHands, \A y \in InHands' : Ahead(conn, asked, m, y),
         \A i, j \in DOMAIN todo' : i < j => Ahead(conn, asked, todo'[i].msg, todo'[j].msg),
         TodoInv'
  PROVE  AnswersInv'
<1> USE DEF AnswersInv
<1>1. UNCHANGED <<CtxHand, RxHand, TxHand, Received, ToClient, ToTransmitter>>
  BY PutKeepsHand, Zenon DEF CtxHand, RxHand, TxHand, Received, Headers, ToClient, ToTransmitter
<1>2. /\ Ordered(conn, asked, rxQueue', RxHand) /\ InQueue(rxQueue', RxHand) \subseteq ToReceiver \cup {m}
      /\ rxQueue'.detached = rxQueue.detached
  <2>1. rxQueue.filled \in Seq(Requests) /\ Ordered(conn, asked, rxQueue, RxHand)
    BY Zenon DEF RxHand, ServerInv, ServerTypeOK, PlacesInv
  <2>2. \A x \in InQueue(rxQueue, RxHand) : Ahead(conn, asked, x, m)
    BY Zenon DEF ToReceiver
  <2>3. m \in Requests
    BY Zenon
  <2>4. /\ Ordered(conn, asked, AfterPut(rxQueue, m), RxHand)
        /\ InQueue(AfterPut(rxQueue, m), RxHand) \subseteq InQueue(rxQueue, RxHand) \cup {m}
        /\ AfterPut(rxQueue, m).filled \in Seq(Requests)
    BY ONLY <2>1, <2>2, <2>3, PutInOrder, Zenon
  <2> QED BY <2>4, PutKeepsHand, Zenon DEF ToReceiver
<1>3. ToReceiver' \subseteq ToReceiver \cup {m}
  BY <1>1, <1>2, Zenon DEF ToReceiver
<1>4. FlowInv'
  BY <1>1, <1>3, FlowToWorker, Zenon
<1>5. PlacesInv'
  BY <1>1, <1>2, Zenon DEF PlacesInv, Headers
<1>6. PlacesTypeOK' /\ ReceiverInv'
  BY <1>1, <1>2, Zenon DEF PlacesTypeOK, ReceiverInv
<1> QED BY <1>4, <1>5, <1>6, Zenon

LEMMA PutToTransmitterKeeps ==
  ASSUME ServerInv, AnswersInv, AccPut, UNCHANGED push, Head(todo).to = "tx"
  PROVE  AnswersInv'
<1> USE DEF AnswersInv
<1>0. PICK m : m = Head(todo).msg
  BY Zenon
<1>1. txQueue' = AfterPut(txQueue, m) /\ UNCHANGED <<rxQueue, ctxQueue>>
  BY <1>0, Zenon DEF AccPut, PutTx
<1>2. m \in Requests /\ m.for = conn /\ ~push /\ Routed(m, "tx")
  BY <1>0, NextPut, Zenon DEF TodoInv, AccPut
<1>3. UNCHANGED <<CtxHand, RxHand, TxHand, Received, ToClient, ToReceiver>>
  BY <1>1, NextPut, PutKeepsHand, Zenon DEF CtxHand, RxHand, TxHand, Received, Headers, ToClient, ToReceiver
<1>4. /\ Known(m) /\ \A x \in Received \cup ToClient \cup ToTransmitter : Ahead(conn, asked, x, m)
      /\ \A y \in InHands' : Ahead(conn, asked, m, y)
  BY <1>0, NextPut, Zenon DEF FlowInv, AllAhead
<1>5. /\ Ordered(conn, asked, txQueue', TxHand) /\ InQueue(txQueue', TxHand) \subseteq ToTransmitter \cup {m}
      /\ txQueue'.filled \in Seq(Requests) /\ txQueue'.detached = txQueue.detached
  <2>1. txQueue.filled \in Seq(Requests) /\ Ordered(conn, asked, txQueue, TxHand)
    BY Zenon DEF TxHand, PlacesTypeOK, PlacesInv
  <2>2. \A x \in InQueue(txQueue, TxHand) : Ahead(conn, asked, x, m)
    BY <1>4, Zenon DEF ToTransmitter
  <2>3. m \in Requests
    BY <1>2, Zenon
  <2>4. /\ Ordered(conn, asked, AfterPut(txQueue, m), TxHand)
        /\ InQueue(AfterPut(txQueue, m), TxHand) \subseteq InQueue(txQueue, TxHand) \cup {m}
        /\ AfterPut(txQueue, m).filled \in Seq(Requests)
    BY ONLY <2>1, <2>2, <2>3, PutInOrder, Zenon
  <2> QED BY <1>1, <2>4, PutKeepsHand, Zenon DEF ToTransmitter
<1>6. ToTransmitter' \subseteq ToTransmitter \cup {m}
  BY <1>3, <1>5, Zenon DEF ToTransmitter
<1>7. FlowInv'
  BY <1>2, <1>3, <1>4, <1>6, NextPut, FlowToWorker, Zenon
<1>8. PlacesInv'
  BY <1>1, <1>3, <1>5, NextPut, Zenon DEF PlacesInv, Headers
<1>9. PlacesTypeOK' /\ ReceiverInv'
  BY <1>1, <1>3, <1>5, NextPut DEF PlacesTypeOK, ReceiverInv
<1> QED BY <1>7, <1>8, <1>9, NextPut, Zenon

\* One queue_put of the acceptor, and the stop at the end of a connection
LEMMA AcceptorPutKeeps ==
  ASSUME ServerInv, AnswersInv, AccPut \/ AccStop, UNCHANGED push
  PROVE  AnswersInv'
<1> USE DEF AnswersInv
<1>1. CASE AccPut
  <2>1. CASE Head(todo).to = "rx"
    <3>1. /\ rxQueue' = AfterPut(rxQueue, Head(todo).msg) /\ UNCHANGED <<ctxQueue, txQueue>>
      BY <1>1, <2>1, Zenon DEF AccPut, PutRx
    <3>2. Head(todo).msg \in Requests
      BY <1>1, <2>1, NextPut, Zenon DEF Todo
    <3>3. Head(todo).msg.for = conn /\ Routed(Head(todo).msg, "rx")
      BY <1>1, <2>1, NextPut, Zenon DEF TodoInv, AccPut
    <3>4. /\ Known(Head(todo).msg)
          /\ \A x \in Received \cup ToClient \cup ToReceiver : Ahead(conn, asked, x, Head(todo).msg)
      BY <1>1, NextPut, Zenon DEF FlowInv, AllAhead
    <3> QED BY <1>1, <3>1, <3>2, <3>3, <3>4, NextPut, PutToReceiverKeeps, Zenon
  <2> QED BY <1>1, <2>1, NextPut, PutToClientKeeps, PutToTransmitterKeeps, Zenon DEF Todo
<1>2. CASE AccStop
  <2> DEFINE m == [type |-> "stop", id |-> 0, for |-> conn]
  <2>1. /\ accPc = "stop" /\ accPc' = "close" /\ rxQueue' = AfterPut(rxQueue, m)
        /\ UNCHANGED <<conn, asked, todo, got, ctxQueue, ctxPc, rxPc, txQueue, txPc, rx_enabled, request_id, rxOk, txReply>>
    BY <1>2, Zenon DEF AccStop, PutRx, netVars, ctxVars, txVars
  <2>2. Connected /\ Connected' /\ conn \in Nat /\ asked \in Seq(Kinds)
    BY <2>1, Zenon DEF Connected, ServerInv, ServerTypeOK
  <2>3. m \in Requests /\ m.for = conn /\ m.id = 0 /\ m.type = "stop" /\ m.type # "softBits"
    BY <2>2, Zenon DEF Requests, RequestKinds
  <2> HIDE DEF m
  <2>4. ~Live(conn, asked, m) /\ Known(m)
    BY <2>2, <2>3 DEF Live, Known
  <2>5. Routed(m, "rx")
    BY <2>3, <2>4, Zenon DEF Routed
  <2>6. \A x \in Received \cup ToClient \cup ToReceiver : Ahead(conn, asked, x, m)
    BY <2>3, <2>4, Zenon DEF FlowInv, Known, Ahead
  <2>7. InHands = {} /\ InHands' = {}
    <3>1. todo = <<>> /\ todo' = <<>>
      BY <2>1, Zenon DEF TodoInv
    <3> QED BY <3>1 DEF InHands
  <2> QED BY <2>1, <2>2, <2>3, <2>4, <2>5, <2>6, <2>7, PutToReceiverKeeps, Zenon DEF InHands, PlacesInv, TodoInv
<1> QED BY <1>1, <1>2, Zenon

-----------------------------------------------------------------------------
\* What the client receives comes behind all it has received.
LEMMA GotMore ==
  ASSUME got \in Seq(Parts), NEW p \in Parts, got' = Append(got, p)
  PROVE  /\ got' \in Seq(Parts)
         /\ p.part = "body" => Headers' = Headers
         /\ \A i \in Headers : i \in Headers' /\ got'[i] = got[i]
         /\ \A i \in Headers' : i \in Headers \/ (i = Len(got) + 1 /\ got'[i] = p)
         /\ \A i, j \in Headers' : i < j => i \in Headers
<1> DEFINE n == Len(got) + 1
<1>1. /\ got' \in Seq(Parts) /\ DOMAIN got = 1..Len(got) /\ DOMAIN got' = 1..n /\ n \in Nat /\ got'[n] = p
      /\ \A i \in DOMAIN got : got'[i] = got[i] /\ i \in DOMAIN got' /\ i < n
      /\ \A i \in DOMAIN got' : i = n \/ i \in DOMAIN got
  OBVIOUS
<1>2. \A i, j \in DOMAIN got' : i < j => i \in DOMAIN got
  BY <1>1
<1> HIDE DEF n
<1> QED BY <1>1, <1>2, Zenon DEF Headers, n

\* A step of the client's worker leaves the other places alone.
LEMMA ClientStep ==
  ASSUME CtxStep, UNCHANGED <<rxVars, txVars, accVars, is_running, mainPc, push>>
  PROVE  /\ UNCHANGED <<conn, asked, push, rx_enabled, accPc, todo, rxQueue, rxPc, txQueue, txPc, request_id, rxOk, txReply>>
         /\ UNCHANGED <<RxHand, TxHand, ToReceiver, ToTransmitter, InHands, Connected, ReceiverInv, TodoInv>>
<1>1. UNCHANGED <<conn, asked, push, rx_enabled, accPc, todo, rxQueue, rxPc, txQueue, txPc, request_id, rxOk, txReply>>
  BY Zenon DEF CtxStep, CtxTake, CtxNewClient, CtxHeader, CtxBody, netVars, rxVars, txVars, accVars
<1> QED BY <1>1 DEF RxHand, TxHand, ToReceiver, ToTransmitter, InHands, Connected, ReceiverInv, TodoInv, Routed, Live

\* The message in hand is done with, whether it was written or not.
LEMMA ClientCompletes ==
  ASSUME AnswersInv, CtxComplete, UNCHANGED <<conn, asked>>
  PROVE  /\ ToClient' \subseteq ToClient /\ Ordered(conn, asked, ctxQueue', CtxHand') /\ CtxHand' = {}
         /\ ctxQueue'.filled \in Seq(CtxMessages) /\ ctxPc' = "take"
<1>1. ctxQueue' = AfterComplete(ctxQueue) /\ ctxPc' = "take" /\ CtxHand' = {}
  BY Zenon DEF CtxComplete, CtxHand
<1>2. Ordered(conn, asked, ctxQueue, CtxHand) /\ ctxQueue.filled \in Seq(CtxMessages)
  BY Zenon DEF AnswersInv, PlacesInv, PlacesTypeOK
<1>3. /\ Ordered(conn, asked, AfterComplete(ctxQueue), {})
      /\ InQueue(AfterComplete(ctxQueue), {}) \subseteq InQueue(ctxQueue, CtxHand)
  BY ONLY <1>2, CompleteInOrder, Zenon
<1>4. ctxQueue'.filled = ctxQueue.filled
  BY <1>1, Zenon DEF AfterComplete, QueueValue
<1> QED BY <1>1, <1>2, <1>3, <1>4, Zenon DEF ToClient

LEMMA ClientKeeps ==
  ASSUME ServerInv, AnswersInv, CtxStep, UNCHANGED <<rxVars, txVars, accVars, is_running, mainPc, push>>
  PROVE  AnswersInv'
<1> USE DEF AnswersInv
\* A step that takes no message to the client
<1>1. ASSUME got' \in Seq(Parts), Headers' = Headers, \A i \in Headers : got'[i] = got[i],
             ToClient' \subseteq ToClient, Ordered(conn, asked, ctxQueue', CtxHand'),
             ctxQueue'.filled \in Seq(CtxMessages), CtxHand' \subseteq CtxMessages, ctxPc' # "body"
      PROVE  AnswersInv'
  <2>1. Received' = Received
    BY <1>1, Zenon DEF Received
  <2>2. FlowInv'
    BY <1>1, <2>1, ClientStep, FlowShrinks
  <2>3. PlacesInv'
    BY <1>1, ClientStep DEF PlacesInv
  <2>4. PlacesTypeOK'
    BY <1>1, ClientStep DEF PlacesTypeOK
  <2> QED BY <2>2, <2>3, <2>4, ClientStep, Zenon
<1>2. got \in Seq(Parts) /\ ctxQueue.filled \in Seq(CtxMessages) /\ Ordered(conn, asked, ctxQueue, CtxHand)
  BY Zenon DEF PlacesTypeOK, PlacesInv
<1>3. CASE CtxTake
  <2>1. UNCHANGED got /\ Headers' = Headers /\ CtxHand = {}
    BY <1>3, Zenon DEF CtxTake, netVars, Headers, CtxHand
  <2>2. CASE ctxPc' = "done" /\ UNCHANGED ctxQueue
    <3>1. CtxHand' = {} /\ ToClient' = ToClient
      BY <2>1, <2>2, Zenon DEF CtxHand, ToClient
    <3> QED BY <1>1, <1>2, <2>1, <2>2, <3>1, Zenon
  <2>3. CASE ~TakeIsEnd(ctxQueue) /\ ctxPc' = "handle" /\ ctxQueue' = AfterTake(ctxQueue)
    <3>1. ctxQueue.filled # <<>> /\ Ordered(conn, asked, ctxQueue, {})
      BY <1>2, <2>1, <2>3, Zenon DEF TakeIsEnd
    <3>2. /\ Ordered(conn, asked, AfterTake(ctxQueue), {AfterTake(ctxQueue).detached})
          /\ InQueue(AfterTake(ctxQueue), {AfterTake(ctxQueue).detached}) \subseteq InQueue(ctxQueue, {})
          /\ AfterTake(ctxQueue).filled \in Seq(CtxMessages) /\ AfterTake(ctxQueue).detached \in CtxMessages
      BY ONLY <1>2, <3>1, TakeInOrder, Zenon
    <3>3. CtxHand' = {AfterTake(ctxQueue).detached}
      BY <2>3, Zenon DEF CtxHand
    <3>4. ToClient' \subseteq ToClient
      BY <2>1, <2>3, <3>2, <3>3, Zenon DEF ToClient
    <3> QED BY <1>1, <1>2, <2>1, <2>3, <3>2, <3>3, <3>4, Zenon
  <2> QED BY <1>3, <2>2, <2>3, Zenon DEF CtxTake
<1>4. CASE CtxComplete /\ UNCHANGED got
  <2>1. Headers' = Headers
    BY <1>4, Zenon DEF Headers
  <2> QED BY <1>1, <1>2, <1>4, <2>1, ClientStep, ClientCompletes, Zenon
<1>5. CASE CtxBody
  <2>1. CASE UNCHANGED got
    BY <1>4, <1>5, <2>1, Zenon DEF CtxBody
  <2>2. CASE got' = Append(got, [part |-> "body", msg |-> ctxQueue.detached])
    <3>1. PICK p \in Parts : p.part = "body" /\ got' = Append(got, p)
      BY <1>5, <2>2, Zenon DEF CtxBody, PlacesTypeOK, Parts
    <3>2. got' \in Seq(Parts) /\ Headers' = Headers /\ \A i \in Headers : got'[i] = got[i]
      BY <1>2, <3>1, GotMore, Zenon
    <3> QED BY <1>1, <1>5, <3>2, ClientStep, ClientCompletes, Zenon DEF CtxBody
  <2> QED BY <1>5, <2>1, <2>2, Zenon DEF CtxBody, WriteSucceeds, WriteFails
<1>6. CASE CtxHeader /\ ctxPc' = "body" /\ UNCHANGED ctxQueue
  <2>1. ctxPc = "handle" /\ CtxHand = {ctxQueue.detached} /\ CtxHand' = {}
    BY <1>6, Zenon DEF CtxHeader, CtxHand
  <2>2. PICK m : m = ctxQueue.detached
    BY Zenon
  <2>3. m \in ToClient /\ m \in CtxMessages
    BY <2>1, <2>2, Zenon DEF ToClient, InQueue, PlacesTypeOK
  <2>4. ToClient' \subseteq ToClient /\ Ordered(conn, asked, ctxQueue', CtxHand')
        /\ \A y \in ToClient' : Ahead(conn, asked, m, y)
    BY <1>2, <1>6, <2>1, <2>2, Zenon DEF ToClient, InQueue, Ordered
  <2>5. \A x \in Received : Ahead(conn, asked, x, m)
    BY <2>3, Zenon DEF FlowInv, AllAhead
  <2>6. /\ got' \in Seq(Parts) /\ Received' \subseteq Received \cup {m}
        /\ \A i, j \in Headers' : i < j => Ahead(conn, asked, got'[i].msg, got'[j].msg)
    <3>1. CASE UNCHANGED got
      BY <1>2, <3>1, Zenon DEF Received, Headers, PlacesInv
    <3>2. CASE got' = Append(got, [part |-> "header", msg |-> ctxQueue.detached])
      <4>1. PICK p \in Parts : p.part = "header" /\ p.msg = m /\ got' = Append(got, p)
        BY <2>2, <2>3, <3>2, Zenon DEF Parts
      <4>2. /\ got' \in Seq(Parts)
            /\ \A i \in Headers : i \in Headers' /\ got'[i] = got[i]
            /\ \A i \in Headers' : i \in Headers \/ (i = Len(got) + 1 /\ got'[i] = p)
            /\ \A i, j \in Headers' : i < j => i \in Headers
        BY <1>2, <4>1, GotMore, Zenon
      <4>3. Received' \subseteq Received \cup {m}
        BY <4>1, <4>2, Zenon DEF Received
      <4>4. ASSUME NEW i \in Headers', NEW j \in Headers', i < j
            PROVE  Ahead(conn, asked, got'[i].msg, got'[j].msg)
        <5>1. i \in Headers /\ got'[i] = got[i] /\ got[i].msg \in Received
          BY <4>2, <4>4, Zenon DEF Received
        <5>2. CASE j \in Headers
          BY <4>2, <4>4, <5>1, <5>2, Zenon DEF PlacesInv
        <5>3. CASE got'[j] = p
          BY <2>5, <4>1, <5>1, <5>3, Zenon
        <5> QED BY <4>2, <5>2, <5>3, Zenon
      <4> QED BY <4>2, <4>3, <4>4, Zenon
    <3> QED BY <1>6, <3>1, <3>2, Zenon DEF CtxHeader, CtxComplete, WriteSucceeds
  <2>7. FlowInv'
    BY <2>3, <2>4, <2>6, ClientStep, FlowReceived
  <2>8. PlacesInv'
    BY <2>4, <2>6, ClientStep, Zenon DEF PlacesInv
  <2>9. PlacesTypeOK'
    BY <1>2, <1>6, <2>1, <2>2, <2>3, <2>6, ClientStep DEF PlacesTypeOK
  <2> QED BY <2>7, <2>8, <2>9, ClientStep, Zenon
<1>7. CASE CtxNewClient \/ (CtxHeader /\ CtxComplete)
  BY <1>4, <1>7, Zenon DEF CtxNewClient, CtxHeader, netVars, WriteFails, CtxComplete
<1> QED BY <1>3, <1>5, <1>6, <1>7, Zenon DEF CtxStep, CtxHeader

-----------------------------------------------------------------------------
\* A step of the receiver leaves the other places alone.
LEMMA ReceiverStep ==
  ASSUME RxStep \/ SdrStep, UNCHANGED <<txVars, accVars, is_running, mainPc, push>>
  PROVE  /\ UNCHANGED <<conn, got, asked, push, accPc, todo, ctxPc, txQueue, txPc, txReply>>
         /\ UNCHANGED <<TxHand, ToTransmitter, Received, Headers, InHands, Connected, TodoInv>>
<1>1. UNCHANGED <<conn, got, asked, push, accPc, todo, ctxPc, txQueue, txPc, txReply>>
  BY Zenon DEF RxStep, SdrStep, RxTake, RxParameters, RxDestroyOld, RxStart, RxStop, RxStopped, RxRespond, RxProcess, RxSend,
         SdrCallback, SdrSend, ctxVars, netVars, txVars, accVars
<1> QED BY <1>1 DEF TxHand, ToTransmitter, Received, Headers, InHands, Connected, TodoInv, Routed, Live

\* A step that moves no message
LEMMA ReceiverWaits ==
  ASSUME ServerInv, AnswersInv, RxStep \/ SdrStep, UNCHANGED <<txVars, accVars, is_running, mainPc, push>>,
         UNCHANGED <<ctxQueue, request_id>>, rx_enabled' => rx_enabled, rxOk' \in BOOLEAN,
         ToReceiver' \subseteq ToReceiver, Ordered(conn, asked, rxQueue', RxHand'), RxHand' \subseteq Requests, ReceiverInv'
  PROVE  AnswersInv'
<1> USE DEF AnswersInv
<1>0. /\ UNCHANGED <<conn, got, asked, push, accPc, todo, ctxPc, txQueue, txPc, txReply>>
      /\ UNCHANGED <<TxHand, ToTransmitter, Received, Headers, InHands, Connected>>
  BY ReceiverStep, Zenon
<1>1. UNCHANGED <<CtxHand, ToClient>>
  BY <1>0, Zenon DEF CtxHand, ToClient
<1>2. FlowInv'
  BY <1>0, <1>1, FlowShrinks, Zenon
<1>3. PlacesInv' /\ PlacesTypeOK'
  BY <1>0, <1>1, Zenon DEF PlacesInv, PlacesTypeOK
<1> QED BY <1>2, <1>3, ReceiverStep, Zenon

LEMMA RxTakeKeeps ==
  ASSUME ServerInv, AnswersInv, RxTake, UNCHANGED <<txVars, accVars, is_running, mainPc, push>>
  PROVE  AnswersInv'
<1> USE DEF AnswersInv
<1>1. /\ UNCHANGED <<ctxQueue, request_id, rx_enabled, rxOk>> /\ rxPc = "loop" /\ RxHand = {} /\ RxStep
      /\ rxPc' = "process" => rx_enabled
      /\ rxPc' \notin {"send", "stopping", "swapped", "respond"}
  BY Zenon DEF RxTake, RxHand, RxStep
<1>2. rxQueue.filled \in Seq(Requests) /\ Ordered(conn, asked, rxQueue, RxHand) /\ rxOk \in BOOLEAN
  BY Zenon DEF PlacesInv, PlacesTypeOK, ServerInv, ServerTypeOK
<1>3. ReceiverInv'
  BY <1>1, Zenon DEF ReceiverInv
<1>4. CASE UNCHANGED rxQueue /\ rxPc' # "handle"
  <2>1. RxHand' = {}
    BY <1>1, <1>4, Zenon DEF RxHand
  <2>2. ToReceiver' = ToReceiver
    BY <1>1, <1>4, <2>1, Zenon DEF ToReceiver
  <2> QED BY <1>1, <1>2, <1>3, <1>4, <2>1, <2>2, ReceiverWaits, Zenon
<1>5. CASE rxQueue.filled # <<>> /\ rxPc' = "handle" /\ rxQueue' = AfterTake(rxQueue)
  <2>1. Ordered(conn, asked, rxQueue, {})
    BY <1>1, <1>2, Zenon
  <2>2. /\ Ordered(conn, asked, AfterTake(rxQueue), {AfterTake(rxQueue).detached})
        /\ InQueue(AfterTake(rxQueue), {AfterTake(rxQueue).detached}) \subseteq InQueue(rxQueue, {})
        /\ AfterTake(rxQueue).detached \in Requests
    BY ONLY <1>2, <1>5, <2>1, TakeInOrder, Zenon
  <2>3. RxHand' = {AfterTake(rxQueue).detached}
    BY <1>5, Zenon DEF RxHand
  <2>4. ToReceiver' \subseteq ToReceiver
    BY <1>1, <1>5, <2>2, <2>3, Zenon DEF ToReceiver
  <2> QED BY <1>1, <1>2, <1>3, <1>5, <2>2, <2>3, <2>4, ReceiverWaits, Zenon
<1> QED BY <1>4, <1>5, Zenon DEF RxTake

\* The other steps up to the answer, but for the start
LEMMA RxHandlesKeeps ==
  ASSUME ServerInv, AnswersInv, RxParameters \/ RxDestroyOld \/ RxStop \/ RxStopped \/ RxProcess \/ SdrCallback,
         UNCHANGED <<txVars, accVars, is_running, mainPc, push>>
  PROVE  AnswersInv'
<1> USE DEF AnswersInv
<1>1. /\ UNCHANGED <<ctxQueue, request_id, rxQueue>> /\ (rx_enabled' => rx_enabled) /\ (RxStep \/ SdrStep)
  BY DEF RxParameters, RxDestroyOld, RxStop, RxStopped, RxProcess, SdrCallback, ctxVars, RxStep, SdrStep, ServerInv, ServerTypeOK
<1>2. RxHand' = RxHand
  BY Zenon DEF RxHand, RxParameters, RxDestroyOld, RxStop, RxStopped, RxProcess, SdrCallback, Handling
<1>3. rxOk' \in BOOLEAN
  BY Zenon DEF PlacesTypeOK, RxParameters, RxDestroyOld, RxStop, RxStopped, RxProcess, SdrCallback
<1>4. ReceiverInv'
  BY DEF ReceiverInv, RxParameters, RxDestroyOld, RxStop, RxStopped, RxProcess, SdrCallback, Handling
<1>5. ToReceiver' = ToReceiver
  BY <1>1, <1>2, Zenon DEF ToReceiver
<1>6. Ordered(conn, asked, rxQueue', RxHand') /\ RxHand' \subseteq Requests
  BY <1>1, <1>2, Zenon DEF PlacesInv, PlacesTypeOK
<1> QED BY <1>1, <1>3, <1>4, <1>5, <1>6, ReceiverWaits, Zenon

\* Reception is enabled by a start that comes after every stop the client has the answer to.
LEMMA RxStartKeeps ==
  ASSUME ServerInv, AnswersInv, RxStart, UNCHANGED <<txVars, accVars, is_running, mainPc, push>>
  PROVE  AnswersInv'
<1> USE DEF AnswersInv
<1> DEFINE d == rxQueue.detached
           P == Received \cup ToClient \cup ToReceiver \cup ToTransmitter
<1>1. /\ UNCHANGED <<ctxQueue, request_id, rxQueue>> /\ RxStep /\ rxOk' = TRUE /\ d.type = "start" /\ rxPc = "handle"
      /\ rxPc' = "respond"
  BY Zenon DEF RxStart, ctxVars, RxStep, Handling
<1>2. RxHand = {d} /\ RxHand' = RxHand /\ d \in ToReceiver
  BY <1>1, Zenon DEF RxHand, ToReceiver, InQueue
<1>3. UNCHANGED <<CtxHand, ToClient, ToReceiver>>
  BY <1>1, <1>2, ReceiverStep, Zenon DEF CtxHand, ToClient, ToReceiver
<1>4. ASSUME NEW m \in Received \cup ToClient, Live(conn, asked, m), asked[m.id] = "stop"
      PROVE  StartedLater(asked, m.id)
  <2>1. d.for = conn
    BY <1>2, <1>4, AnswererOfStop, Zenon DEF FlowInv, Answered
  <2>2. asked \in Seq(Kinds) /\ asked # <<>> /\ Connected
    <3>1. asked \in Seq(Kinds) /\ m.id \in DOMAIN asked /\ (~Connected => asked = <<>>)
      BY <1>4, Zenon DEF ServerInv, ServerTypeOK, Live, PlacesTypeOK
    <3>2. asked # <<>>
      BY ONLY <3>1
    <3> QED BY <3>1, <3>2, Zenon
  <2>3. d.id \in Nat /\ d.id > 0 /\ d.id <= Len(asked)
    <3>1. Known(d) /\ Routed(d, "rx") /\ d \in Requests
      BY <1>2, FlowTypes, Zenon DEF FlowInv, ServerInv
    <3> QED BY <1>1, <2>1, <2>2, <3>1, Zenon DEF Known, Routed, Requests
  <2>4. d.id \in DOMAIN asked /\ Live(conn, asked, d)
    BY <2>1, <2>2, <2>3 DEF Live
  <2>5. asked[d.id] = "start"
    BY <1>1, <1>2, <2>4, Zenon DEF FlowInv, Routed
  <2>6. m.id < d.id
    BY <1>2, <1>4, <2>4, <2>5, AnswererOfStop, Zenon DEF FlowInv, AllAhead, Ahead
  <2> QED BY <2>3, <2>4, <2>5, <2>6, <1>4, Zenon DEF StartedLater, Live
<1> HIDE DEF d
<1>5. FlowInv'
  <2>1. \A x \in P \cup InHands : Known(x)'
    BY ReceiverStep, <1>1, Zenon DEF FlowInv, Known
  <2>2. /\ \A x \in ToReceiver : Routed(x, "rx")'
        /\ \A x \in ToTransmitter : Routed(x, "tx")'
    BY ReceiverStep, <1>1, Zenon DEF FlowInv, Routed
  <2>3. \A x \in Received \cup ToClient : Answered(x)'
    BY <1>1, <1>3, <1>4, ReceiverStep, Zenon DEF FlowInv, Answered
  <2>4. \A x \in InHands' : Known(x)' /\ \A y \in P : Ahead(conn', asked', y, x)
    BY <1>1, <2>1, ReceiverStep, Zenon DEF FlowInv, AllAhead
  <2>5. \A x, y \in P : Ahead(conn, asked, x, y) => Ahead(conn, asked, x, y)'
    BY <1>1, ReceiverStep, Zenon
  <2> QED BY <1>1, <1>3, <2>1, <2>2, <2>3, <2>4, <2>5, ReceiverStep, FlowAccepts, Zenon
<1>6. PlacesInv' /\ PlacesTypeOK'
  BY <1>1, <1>2, <1>3, ReceiverStep DEF PlacesInv, PlacesTypeOK
<1>7. ReceiverInv'
  BY <1>1, Zenon DEF ReceiverInv, d
<1> QED BY <1>1, <1>5, <1>6, <1>7, ReceiverStep, Zenon

\* The answer m takes the place of the request r that is done with.
LEMMA AnswerIsAhead ==
  ASSUME NEW c, NEW a, NEW r, NEW m, m.id = r.id, m.for = r.for, m.type \in {"response", "complete"}
  PROVE  /\ \A x : Ahead(c, a, x, r) => Ahead(c, a, x, m)
         /\ \A y : Ahead(c, a, r, y) => Ahead(c, a, m, y)
<1>1. m.type # "softBits" /\ m.type \notin RequestKinds
  BY Zenon DEF RequestKinds
<1>2. Live(c, a, m) <=> Live(c, a, r)
  BY Zenon DEF Live
<1> QED BY <1>1, <1>2, Zenon DEF Ahead

\* A message m is put on the queue to the client, where all the others are ahead of it.
LEMMA PutForClient ==
  ASSUME AnswersInv, NEW m \in CtxMessages, ctxQueue' = AfterPut(ctxQueue, m), UNCHANGED ctxPc,
         \A x \in ToClient : Ahead(conn, asked, x, m)
  PROVE  /\ Ordered(conn, asked, ctxQueue', CtxHand') /\ ToClient' \subseteq ToClient \cup {m}
         /\ ctxQueue'.filled \in Seq(CtxMessages) /\ CtxHand' = CtxHand /\ ctxQueue'.detached = ctxQueue.detached
<1>1. ctxQueue'.detached = ctxQueue.detached /\ CtxHand' = CtxHand
  BY PutKeepsHand, Zenon DEF CtxHand
<1>2. ctxQueue.filled \in Seq(CtxMessages) /\ Ordered(conn, asked, ctxQueue, CtxHand) /\ m \in CtxMessages
  BY Zenon DEF AnswersInv, PlacesTypeOK, PlacesInv
<1>3. \A x \in InQueue(ctxQueue, CtxHand) : Ahead(conn, asked, x, m)
  BY Zenon DEF ToClient
<1>4. /\ Ordered(conn, asked, AfterPut(ctxQueue, m), CtxHand)
      /\ InQueue(AfterPut(ctxQueue, m), CtxHand) \subseteq InQueue(ctxQueue, CtxHand) \cup {m}
      /\ AfterPut(ctxQueue, m).filled \in Seq(CtxMessages)
  BY ONLY <1>2, <1>3, PutInOrder, Zenon
<1> QED BY <1>1, <1>4, Zenon DEF ToClient

LEMMA RxRespondKeeps ==
  ASSUME ServerInv, AnswersInv, RxRespond, UNCHANGED <<txVars, accVars, is_running, mainPc, push>>
  PROVE  AnswersInv'
<1> USE DEF AnswersInv
<1>0. /\ UNCHANGED <<conn, got, asked, push, accPc, todo, ctxPc, txQueue, txPc, txReply>>
      /\ UNCHANGED <<TxHand, ToTransmitter, Received, Headers, InHands, Connected>> /\ TodoInv'
  <2>1. RxStep
    BY Zenon DEF RxStep
  <2> QED BY <2>1, ReceiverStep, Zenon
<1>1. PICK d : d = rxQueue.detached
  BY Zenon
<1>2. PICK m : m = SendResponse(d, rxOk)
  BY Zenon
<1>3. /\ ctxQueue' = AfterPut(ctxQueue, m) /\ rxQueue' = AfterComplete(rxQueue) /\ rxOk' = TRUE
      /\ UNCHANGED <<rx_enabled, request_id>> /\ rxPc = "respond" /\ rxPc' \in {"process", "loop"}
      /\ rxPc' = "process" => rx_enabled
  BY <1>1, <1>2, Zenon DEF RxRespond, PutCtx
<1>4. RxHand = {d} /\ RxHand' = {} /\ d \in ToReceiver
  BY <1>1, <1>3, Zenon DEF RxHand, ToReceiver, InQueue
<1>5. d \in Requests /\ rxOk \in BOOLEAN
  BY <1>4, Zenon DEF PlacesTypeOK
<1>6. m \in CtxMessages /\ m.id = d.id /\ m.for = d.for /\ m.type \in {"response", "complete"}
  BY <1>2, <1>5 DEF SendResponse, CtxMessage, CtxMessages, Requests
<1>7. /\ ToReceiver' \subseteq ToReceiver /\ Ordered(conn, asked, rxQueue', RxHand')
      /\ \A y \in ToReceiver' : Ahead(conn, asked, d, y)
  <2>1. Ordered(conn, asked, rxQueue, RxHand)
    BY Zenon DEF PlacesInv
  <2>2. /\ Ordered(conn, asked, AfterComplete(rxQueue), {})
        /\ InQueue(AfterComplete(rxQueue), {}) \subseteq InQueue(rxQueue, RxHand)
        /\ \A x \in RxHand, y \in InQueue(AfterComplete(rxQueue), {}) : Ahead(conn, asked, x, y)
    BY ONLY <2>1, CompleteInOrder, Zenon
  <2> QED BY <1>3, <1>4, <2>2, Zenon DEF ToReceiver
<1>8. /\ \A x \in Received \cup ToClient : Ahead(conn, asked, x, d)
      /\ \A y \in InHands : Ahead(conn, asked, d, y)
      /\ Known(d) /\ Routed(d, "rx")
  BY <1>4, Zenon DEF FlowInv, AllAhead
<1>9. \A y \in ToTransmitter : Ahead(conn, asked, m, y)
  <2> SUFFICES ASSUME NEW y \in ToTransmitter PROVE Ahead(conn, asked, m, y)
    BY Zenon
  <2>1. y.type # "softBits" /\ m.type \notin RequestKinds
    BY <1>6, FlowTypes, MessageTypes, Zenon DEF ServerInv
  <2>2. Routed(y, "tx")
    BY Zenon DEF FlowInv
  <2>3. Live(conn, asked, m) <=> Live(conn, asked, d)
    BY <1>6, Zenon DEF Live
  <2> QED BY <1>6, <1>8, <2>1, <2>2, <2>3, Zenon DEF Ahead, Routed
<1>10. /\ \A x \in Received \cup ToClient : Ahead(conn, asked, x, m)
       /\ \A y \in ToReceiver' \cup InHands : Ahead(conn, asked, m, y)
  BY <1>6, <1>7, <1>8, AnswerIsAhead, Zenon
<1>11. Known(m)
  BY <1>6, <1>8, Zenon DEF Known
<1>12. Answered(m)'
  <2> SUFFICES ASSUME Live(conn, asked, m)
               PROVE  /\ asked[m.id] = "stop" => ~rx_enabled
                      /\ \A r \in ToReceiver' : r.for = conn
    BY <1>0, <1>3, Zenon DEF Answered
  <2>1. asked[d.id] = d.type /\ d.for = conn
    BY <1>6, <1>8, Zenon DEF Routed, Live
  <2>2. ASSUME NEW r \in ToReceiver' PROVE r.for = conn
    <3>1. r \in Requests /\ Known(r) /\ conn \in Nat
      BY <1>7, <2>2, FlowTypes, Zenon DEF FlowInv, ServerInv, ServerTypeOK
    <3>2. d.for <= r.for
      BY <1>5, <1>7, <2>2, <3>1, MessageTypes, Zenon DEF Ahead
    <3>3. r.for \in Nat /\ r.for <= conn
      BY <3>1, Zenon DEF Requests, Known
    <3> QED BY <2>1, <3>1, <3>2, <3>3
  <2> QED BY <1>1, <1>3, <1>6, <2>1, <2>2, Zenon DEF ReceiverInv
<1>13. /\ Ordered(conn, asked, ctxQueue', CtxHand') /\ ToClient' \subseteq ToClient \cup {m}
       /\ ctxQueue'.filled \in Seq(CtxMessages) /\ CtxHand' = CtxHand /\ ctxQueue'.detached = ctxQueue.detached
  BY <1>0, <1>3, <1>6, <1>10, PutForClient, Zenon
<1>14. FlowInv'
  BY <1>0, <1>3, <1>7, <1>9, <1>10, <1>11, <1>12, <1>13, FlowToClient, Zenon
<1>15. PlacesInv' /\ PlacesTypeOK'
  BY <1>0, <1>3, <1>4, <1>7, <1>13, Zenon DEF PlacesInv, PlacesTypeOK
<1>16. ReceiverInv'
  BY <1>3, Zenon DEF ReceiverInv
<1> QED BY <1>0, <1>14, <1>15, <1>16, Zenon

\* Soft bits go to the client only while reception is enabled.
LEMMA SoftBitsKeep ==
  ASSUME ServerInv, AnswersInv, RxSend \/ SdrSend, UNCHANGED <<txVars, accVars, is_running, mainPc, push>>
  PROVE  AnswersInv'
<1> USE DEF AnswersInv
<1>0. /\ UNCHANGED <<conn, got, asked, push, accPc, todo, ctxPc, txQueue, txPc, txReply>>
      /\ UNCHANGED <<TxHand, ToTransmitter, Received, Headers, InHands, Connected>> /\ TodoInv'
  <2>1. RxStep \/ SdrStep
    BY Zenon DEF RxStep, SdrStep
  <2> QED BY <2>1, ReceiverStep, Zenon
<1>1. PICK m : m = SendSoftBits(request_id)
  BY Zenon
<1>2. /\ ctxQueue' = AfterPut(ctxQueue, m) /\ request_id' = request_id + 1
      /\ UNCHANGED <<rxQueue, rx_enabled, rxOk>> /\ (rxPc' = rxPc \/ (rxPc = "send" /\ rxPc' = "loop"))
      /\ rx_enabled
  BY <1>1, Zenon DEF RxSend, SdrSend, SendDemodulated, PutCtx, ServerInv, SdrInv, ReceiverInv
<1>3. RxHand' = RxHand
  BY <1>2, Zenon DEF RxHand
<1>4. ToReceiver' = ToReceiver
  BY <1>2, <1>3, Zenon DEF ToReceiver
<1>5. m \in CtxMessages /\ m.for = 0 /\ m.type = "softBits"
  <2>1. request_id \in Nat
    BY Zenon DEF PlacesTypeOK
  <2> QED BY ONLY <1>1, <2>1 DEF SendSoftBits, CtxMessage, CtxMessages
<1>6. ~Live(conn, asked, m) /\ Known(m)
  <2>1. conn \in Nat /\ (Connected => conn > 0) /\ (~Connected => asked = <<>>)
    BY Zenon DEF PlacesTypeOK, ServerInv, ServerTypeOK
  <2> QED BY <1>5, <2>1 DEF Live, Known
<1>7. m.type \notin RequestKinds
  BY <1>5, Zenon DEF RequestKinds
<1>8. \A x \in Received \cup ToClient : Ahead(conn, asked, x, m)
  BY <1>2, <1>6, <1>7, Zenon DEF FlowInv, Answered, Ahead
<1>9. \A y : Ahead(conn, asked, m, y)
  BY <1>6, <1>7, Zenon DEF Ahead
<1>10. Answered(m)'
  BY <1>0, <1>6, Zenon DEF Answered
<1>11. /\ Ordered(conn, asked, ctxQueue', CtxHand') /\ ToClient' \subseteq ToClient \cup {m}
       /\ ctxQueue'.filled \in Seq(CtxMessages) /\ CtxHand' = CtxHand /\ ctxQueue'.detached = ctxQueue.detached
  BY <1>0, <1>2, <1>5, <1>8, PutForClient, Zenon
<1>12. FlowInv'
  BY <1>0, <1>2, <1>4, <1>6, <1>8, <1>9, <1>10, <1>11, FlowToClient, Zenon
<1>13. request_id' \in Nat
  BY <1>2 DEF PlacesTypeOK
<1>14. PlacesInv' /\ PlacesTypeOK'
  BY <1>0, <1>2, <1>3, <1>11, <1>13, Zenon DEF PlacesInv, PlacesTypeOK
<1>15. ReceiverInv'
  BY <1>2, Zenon DEF ReceiverInv
<1> QED BY <1>0, <1>12, <1>14, <1>15, Zenon

-----------------------------------------------------------------------------
\* The transmitter: it takes a request, answers it, or drops it.
LEMMA TransmitterStep ==
  ASSUME TxStep, UNCHANGED <<rxVars, accVars, is_running, mainPc, push>>
  PROVE  /\ UNCHANGED <<conn, got, asked, push, accPc, todo, ctxPc, rxQueue, rxPc, rx_enabled, rxOk, request_id>>
         /\ UNCHANGED <<RxHand, ToReceiver, Received, Headers, InHands, Connected>> /\ TodoInv' = TodoInv
         /\ ReceiverInv' = ReceiverInv
<1>1. UNCHANGED <<conn, got, asked, push, accPc, todo, ctxPc, rxQueue, rxPc, rx_enabled, rxOk, request_id>>
  BY Zenon DEF TxStep, TxTake, TxFrame, TxFlush, TxParameters, TxRespond, ctxVars, netVars, rxVars, accVars
<1> QED BY <1>1 DEF RxHand, ToReceiver, Received, Headers, InHands, Connected, TodoInv, Routed, Live, ReceiverInv

LEMMA TransmitterWaits ==
  ASSUME AnswersInv, TxStep, UNCHANGED <<rxVars, accVars, is_running, mainPc, push>>, UNCHANGED ctxQueue,
         ToTransmitter' \subseteq ToTransmitter, Ordered(conn, asked, txQueue', TxHand'),
         txQueue'.filled \in Seq(Requests), TxHand' \subseteq Requests,
         txPc' = "respond" => /\ txReply' \in CtxMessages /\ txReply'.type \in {"response", "complete"}
                              /\ txReply'.id = txQueue'.detached.id /\ txReply'.for = txQueue'.detached.for
  PROVE  AnswersInv'
<1> USE DEF AnswersInv
<1>0. /\ UNCHANGED <<conn, got, asked, push, accPc, todo, ctxPc, rxQueue, rxPc, rx_enabled, rxOk, request_id>>
      /\ UNCHANGED <<RxHand, ToReceiver, Received, Headers, InHands, Connected>> /\ TodoInv' /\ ReceiverInv'
  BY TransmitterStep, Zenon
<1>1. UNCHANGED <<CtxHand, ToClient>>
  BY <1>0, Zenon DEF CtxHand, ToClient
<1>2. FlowInv'
  BY <1>0, <1>1, FlowShrinks, Zenon
<1>3. PlacesInv' /\ PlacesTypeOK'
  BY <1>0, <1>1, Zenon DEF PlacesInv, PlacesTypeOK
<1> QED BY <1>0, <1>2, <1>3, Zenon

LEMMA TxTakeKeeps ==
  ASSUME AnswersInv, TxTake, UNCHANGED <<rxVars, accVars, is_running, mainPc, push>>
  PROVE  AnswersInv'
<1> USE DEF AnswersInv
<1>1. UNCHANGED ctxQueue /\ txPc = "take" /\ TxHand = {} /\ TxStep /\ txPc' \in {"done", "handle"}
  BY Zenon DEF TxTake, TxHand, TxStep, ctxVars
<1>2. txQueue.filled \in Seq(Requests) /\ Ordered(conn, asked, txQueue, TxHand)
  BY Zenon DEF PlacesInv, PlacesTypeOK
<1>3. CASE UNCHANGED txQueue /\ txPc' = "done"
  <2>1. TxHand' = {}
    BY <1>3, Zenon DEF TxHand
  <2>2. ToTransmitter' = ToTransmitter
    BY <1>1, <1>3, <2>1, Zenon DEF ToTransmitter
  <2> QED BY <1>1, <1>2, <1>3, <2>1, <2>2, TransmitterWaits, Zenon
<1>4. CASE txQueue.filled # <<>> /\ txPc' = "handle" /\ txQueue' = AfterTake(txQueue)
  <2>1. Ordered(conn, asked, txQueue, {})
    BY <1>1, <1>2, Zenon
  <2>2. /\ Ordered(conn, asked, AfterTake(txQueue), {AfterTake(txQueue).detached})
        /\ InQueue(AfterTake(txQueue), {AfterTake(txQueue).detached}) \subseteq InQueue(txQueue, {})
        /\ AfterTake(txQueue).filled \in Seq(Requests) /\ AfterTake(txQueue).detached \in Requests
    BY ONLY <1>2, <1>4, <2>1, TakeInOrder, Zenon
  <2>3. TxHand' = {AfterTake(txQueue).detached}
    BY <1>4, Zenon DEF TxHand
  <2>4. ToTransmitter' \subseteq ToTransmitter
    BY <1>1, <1>4, <2>2, <2>3, Zenon DEF ToTransmitter
  <2> QED BY <1>1, <1>4, <2>2, <2>3, <2>4, TransmitterWaits, Zenon
<1> QED BY <1>3, <1>4, Zenon DEF TxTake, TakeReturns, TakeIsEnd

\* A frame without a modem is dropped; the other requests get their answer made ready.
LEMMA TxHandlesKeeps ==
  ASSUME AnswersInv, TxFrame \/ TxFlush \/ TxParameters, UNCHANGED <<rxVars, accVars, is_running, mainPc, push>>
  PROVE  AnswersInv'
<1> USE DEF AnswersInv
<1>1. PICK d : d = txQueue.detached
  BY Zenon
<1>2. UNCHANGED ctxQueue /\ TxStep /\ txPc \in {"handle", "flush"} /\ TxHand = {d}
  BY <1>1, Zenon DEF TxFrame, TxFlush, TxParameters, TxStep, ctxVars, TxHand
<1>3. txQueue.filled \in Seq(Requests) /\ Ordered(conn, asked, txQueue, TxHand) /\ d \in Requests
  BY <1>2, Zenon DEF PlacesInv, PlacesTypeOK
<1>4. CASE txQueue' = AfterComplete(txQueue) /\ txPc' = "take"
  <2>1. /\ Ordered(conn, asked, AfterComplete(txQueue), {})
        /\ InQueue(AfterComplete(txQueue), {}) \subseteq InQueue(txQueue, TxHand)
    BY ONLY <1>3, CompleteInOrder, Zenon
  <2>2. AfterComplete(txQueue).filled = txQueue.filled
    BY Zenon DEF AfterComplete, QueueValue
  <2>3. TxHand' = {}
    BY <1>4, Zenon DEF TxHand
  <2>4. ToTransmitter' \subseteq ToTransmitter
    BY <1>4, <2>1, <2>3, Zenon DEF ToTransmitter
  <2> QED BY <1>2, <1>3, <1>4, <2>1, <2>2, <2>3, <2>4, TransmitterWaits, Zenon
<1>5. CASE UNCHANGED txQueue /\ (\/ txPc' = "flush"
                                 \/ /\ txPc' = "respond"
                                    /\ \E ok \in BOOLEAN : txReply' \in {SendTxComplete(d, ok), SendResponse(d, ok)})
  <2>1. TxHand' = TxHand
    BY <1>1, <1>2, <1>5, Zenon DEF TxHand
  <2>2. ToTransmitter' = ToTransmitter
    BY <1>5, <2>1, Zenon DEF ToTransmitter
  <2>3. ASSUME NEW ok \in BOOLEAN, NEW m, m \in {SendTxComplete(d, ok), SendResponse(d, ok)}
        PROVE  m \in CtxMessages /\ m.type \in {"response", "complete"} /\ m.id = d.id /\ m.for = d.for
    BY <1>3, <2>3 DEF SendTxComplete, SendResponse, CtxMessage, CtxMessages, Requests
  <2>4. txPc' = "respond" => /\ txReply' \in CtxMessages /\ txReply'.type \in {"response", "complete"}
                             /\ txReply'.id = txQueue'.detached.id /\ txReply'.for = txQueue'.detached.for
    BY <1>1, <1>5, <2>3, Zenon
  <2>5. txQueue'.filled \in Seq(Requests) /\ Ordered(conn, asked, txQueue', TxHand') /\ TxHand' \subseteq Requests
    BY <1>2, <1>3, <1>5, <2>1, Zenon
  <2> QED BY <1>2, <2>2, <2>4, <2>5, TransmitterWaits, Zenon
<1>6. {TRUE, ~TxFails} \subseteq BOOLEAN
  BY ServerAssumption, Zenon
<1> QED BY <1>1, <1>4, <1>5, <1>6, Zenon DEF TxFrame, TxFlush, TxParameters, TxReplies

LEMMA TxRespondKeeps ==
  ASSUME ServerInv, AnswersInv, TxRespond, UNCHANGED <<rxVars, accVars, is_running, mainPc, push>>
  PROVE  AnswersInv'
<1> USE DEF AnswersInv
<1>0. /\ UNCHANGED <<conn, got, asked, push, accPc, todo, ctxPc, rxQueue, rxPc, rx_enabled, rxOk, request_id>>
      /\ UNCHANGED <<RxHand, ToReceiver, Received, Headers, InHands, Connected>> /\ TodoInv' /\ ReceiverInv'
  <2>1. TxStep
    BY Zenon DEF TxStep
  <2> QED BY <2>1, TransmitterStep, Zenon
<1>1. PICK d : d = txQueue.detached
  BY Zenon
<1>2. PICK m : m = txReply
  BY Zenon
<1>3. /\ ctxQueue' = AfterPut(ctxQueue, m) /\ txQueue' = AfterComplete(txQueue)
      /\ txPc = "respond" /\ txPc' = "take"
  BY <1>2, Zenon DEF TxRespond, PutCtx
<1>4. TxHand = {d} /\ TxHand' = {} /\ d \in ToTransmitter
  BY <1>1, <1>3, Zenon DEF TxHand, ToTransmitter, InQueue
<1>5. m \in CtxMessages /\ m.id = d.id /\ m.for = d.for /\ m.type \in {"response", "complete"}
  BY <1>1, <1>2, <1>3, Zenon DEF PlacesTypeOK
<1>6. /\ ToTransmitter' \subseteq ToTransmitter /\ Ordered(conn, asked, txQueue', TxHand')
      /\ \A y \in ToTransmitter' : Ahead(conn, asked, d, y)
  <2>1. Ordered(conn, asked, txQueue, TxHand)
    BY Zenon DEF PlacesInv
  <2>2. /\ Ordered(conn, asked, AfterComplete(txQueue), {})
        /\ InQueue(AfterComplete(txQueue), {}) \subseteq InQueue(txQueue, TxHand)
        /\ \A x \in TxHand, y \in InQueue(AfterComplete(txQueue), {}) : Ahead(conn, asked, x, y)
    BY ONLY <2>1, CompleteInOrder, Zenon
  <2> QED BY <1>3, <1>4, <2>2, Zenon DEF ToTransmitter
<1>7. /\ \A x \in Received \cup ToClient : Ahead(conn, asked, x, d)
      /\ \A y \in InHands : Ahead(conn, asked, d, y)
      /\ Known(d) /\ Routed(d, "tx")
  BY <1>4, Zenon DEF FlowInv, AllAhead
<1>8. \A y \in ToReceiver : Ahead(conn, asked, m, y)
  <2> SUFFICES ASSUME NEW y \in ToReceiver PROVE Ahead(conn, asked, m, y)
    BY Zenon
  <2>1. y.type # "softBits" /\ m.type \notin RequestKinds
    BY <1>5, FlowTypes, MessageTypes, Zenon DEF ServerInv
  <2>2. Routed(y, "rx")
    BY Zenon DEF FlowInv
  <2>3. Live(conn, asked, m) <=> Live(conn, asked, d)
    BY <1>5, Zenon DEF Live
  <2> QED BY <1>5, <1>7, <2>1, <2>2, <2>3, Zenon DEF Ahead, Routed
<1>9. /\ \A x \in Received \cup ToClient : Ahead(conn, asked, x, m)
      /\ \A y \in ToTransmitter' \cup InHands : Ahead(conn, asked, m, y)
  BY <1>5, <1>6, <1>7, AnswerIsAhead, Zenon
<1>10. Known(m)
  BY <1>5, <1>7, Zenon DEF Known
<1>11. Answered(m)'
  <2>1. Live(conn, asked, m) => Answerer(asked[m.id]) = "tx"
    BY <1>5, <1>7, Zenon DEF Routed, Live
  <2> QED BY <1>0, <2>1, AnswererOfStop, Zenon DEF Answered
<1>12. /\ Ordered(conn, asked, ctxQueue', CtxHand') /\ ToClient' \subseteq ToClient \cup {m}
       /\ ctxQueue'.filled \in Seq(CtxMessages) /\ CtxHand' = CtxHand /\ ctxQueue'.detached = ctxQueue.detached
  BY <1>0, <1>3, <1>5, <1>9, PutForClient, Zenon
<1>13. FlowInv'
  BY <1>0, <1>3, <1>6, <1>8, <1>9, <1>10, <1>11, <1>12, FlowToClient, Zenon
<1>14. txQueue'.filled \in Seq(Requests)
  BY <1>3, Zenon DEF AfterComplete, QueueValue, PlacesTypeOK
<1>15. PlacesInv' /\ PlacesTypeOK'
  BY <1>0, <1>3, <1>4, <1>6, <1>12, <1>14, Zenon DEF PlacesInv, PlacesTypeOK
<1> QED BY <1>0, <1>13, <1>15, Zenon

-----------------------------------------------------------------------------
LEMMA InterruptKeepsMessages ==
  ASSUME NEW q PROVE AfterInterrupt(q).filled = q.filled /\ AfterInterrupt(q).detached = q.detached
  BY Zenon DEF AfterInterrupt, QueueValue

LEMMA IdleKeeps ==
  ASSUME ServerInv, AnswersInv, UNCHANGED push,
         AcceptFails \/ ReadTimeout \/ ClientLeaves \/ Signal \/ MainStep \/ UNCHANGED vars
  PROVE  AnswersInv'
<1>1. UNCHANGED workerPlaces
  BY InterruptKeepsMessages, Zenon
     DEF workerPlaces, AcceptFails, ReadTimeout, ClientLeaves, Signal, MainStep, MainJoined, MainRxJoined, MainTxJoined,
         MainCtxJoined, vars, ctxVars, rxVars, txVars
<1>2. UNCHANGED <<conn, asked, todo>> /\ (got' = got \/ got' = <<>>)
  BY Zenon DEF AcceptFails, ReadTimeout, ClientLeaves, Signal, MainStep, MainJoined, MainRxJoined, MainTxJoined,
         MainCtxJoined, vars, netVars, accVars
<1>3. /\ accPc' \in {accPc, "stop", "read", "done"} /\ (accPc' \in {"stop", "read"} => Connected)
      /\ (accPc' = "done" => ~Connected) /\ (accPc' # accPc => accPc # "put")
  BY Zenon DEF AcceptFails, ReadTimeout, ClientLeaves, Signal, MainStep, MainJoined, MainRxJoined, MainTxJoined,
         MainCtxJoined, vars, netVars, accVars, Connected, LoopPc
<1> QED BY <1>1, <1>2, <1>3, WaitingKeeps, Zenon

LEMMA AnswersInvariant == Spec => []AnswersInv
<1>1. Init => AnswersInv
  BY AnswersInit, Zenon
<1>2. ASSUME ServerInv, AnswersInv, [Next]_vars PROVE AnswersInv'
  <2>1. CASE UNCHANGED push /\ (AcceptFails \/ ReadTimeout \/ ClientLeaves \/ Signal \/ MainStep)
    BY <1>2, <2>1, IdleKeeps, Zenon
  <2>2. CASE UNCHANGED vars
    <3>1. UNCHANGED push
      BY <2>2, Zenon DEF vars
    <3> QED BY <1>2, <2>2, <3>1, IdleKeeps, Zenon
  <2>3. CASE UNCHANGED push /\ (Accept \/ AcceptAborted \/ AccClose)
    BY <1>2, <2>3, ConnectionKeeps, Zenon
  <2>4. CASE UNCHANGED push /\ \E kind \in Kinds : ReadRequest(kind)
    BY <1>2, <2>4, ReadRequestKeeps, Zenon
  <2>5. CASE UNCHANGED push /\ ReadDisconnected
    BY <1>2, <2>5, ReadDisconnectedKeeps, Zenon
  <2>6. CASE UNCHANGED push /\ (AccPut \/ AccStop)
    BY <1>2, <2>6, AcceptorPutKeeps, Zenon
  <2>7. CASE UNCHANGED push /\ CtxStep /\ UNCHANGED <<rxVars, txVars, accVars, is_running, mainPc>>
    BY <1>2, <2>7, ClientKeeps, Zenon
  <2>8. CASE UNCHANGED push /\ (RxStep \/ SdrStep) /\ UNCHANGED <<txVars, accVars, is_running, mainPc>>
    BY <1>2, <2>8, RxTakeKeeps, RxHandlesKeeps, RxStartKeeps, RxRespondKeeps, SoftBitsKeep, Zenon DEF RxStep, SdrStep
  <2>9. CASE UNCHANGED push /\ TxStep /\ UNCHANGED <<rxVars, accVars, is_running, mainPc>>
    BY <1>2, <2>9, TxTakeKeeps, TxHandlesKeeps, TxRespondKeeps, Zenon DEF TxStep
  <2> QED BY <1>2, <2>1, <2>2, <2>3, <2>4, <2>5, <2>6, <2>7, <2>8, <2>9, Zenon DEF Next, AccStep, Exited
<1> QED BY <1>1, <1>2, ServerInvariant, PTL DEF Spec

\* What the client has received of the answers to its own requests is in order.
LEMMA HeadersInOrder ==
  ASSUME AnswersInv, NEW i \in DOMAIN got, NEW j \in DOMAIN got, i < j,
         got[i].part = "header", got[j].part = "header"
  PROVE  Ahead(conn, asked, got[i].msg, got[j].msg)
  BY Zenon DEF AnswersInv, PlacesInv, Headers

\* Each request is answered at most once, and the answers of one thread reach the client in the
\* order of its requests: whatever the workers do, and however the connections before it ended.
THEOREM AnswersKeepOrder == Spec => []AnswersInOrder
<1>1. AnswersInv => AnswersInOrder
  <2> SUFFICES ASSUME AnswersInv, NEW i \in DOMAIN got, NEW j \in DOMAIN got, NEW k \in DOMAIN asked,
                      NEW l \in DOMAIN asked, i < j, Answers(i, k), Answers(j, l),
                      Answerer(asked[k]) = Answerer(asked[l])
               PROVE  k < l
    BY Zenon DEF AnswersInOrder
  <2> QED BY HeadersInOrder, Zenon DEF Answers, IsHeader, Ahead, Live
<1> QED BY <1>1, AnswersInvariant, PTL

\* A client that has the answer to its RX_STOP receives soft bits again only after it asked for
\* another RX_START: neither the worker's loop nor the SDR's callback slips one in behind the answer.
THEOREM NoBitsAfterStop == Spec => []NothingAfterStop
<1>1. AnswersInv => NothingAfterStop
  <2> SUFFICES ASSUME AnswersInv, NEW i \in DOMAIN got, NEW j \in DOMAIN got, NEW k \in DOMAIN asked,
                      i < j, asked[k] = "stop", Answers(i, k), IsHeader(j, "softBits")
               PROVE  \E l \in DOMAIN asked : l > k /\ asked[l] = "start"
    BY Zenon DEF NothingAfterStop
  <2> QED BY HeadersInOrder, Zenon DEF Answers, IsHeader, Ahead, Live, StartedLater
<1> QED BY <1>1, AnswersInvariant, PTL

-----------------------------------------------------------------------------
(* The threads use their queues as module BoundedFifo promises and demands it: one consumer that *)
(* completes a message before it takes the next, producers that wait for a free node.           *)

CtxFifo == INSTANCE BoundedFifo WITH Messages <- CtxMessages, QueueSize <- CtxQueueSize,
                                     q <- ctxQueue, ended <- (ctxPc = "done"), blocking <- TRUE

\* A receiver that ended because the SDR failed was not told so by its queue.
RxFifo == INSTANCE BoundedFifo WITH Messages <- Requests, QueueSize <- RxQueueSize,
                                    q <- rxQueue, ended <- (rxPc = "done" /\ ~RxReadFails), blocking <- TRUE

TxFifo == INSTANCE BoundedFifo WITH Messages <- Requests, QueueSize <- TxQueueSize,
                                    q <- txQueue, ended <- (txPc = "done"), blocking <- TRUE

\* A worker that takes the next message, or has ended, holds none.
IdleInv ==
  /\ ctxPc \in {"take", "done"} => ctxQueue.detached = NULL
  /\ rxPc \in {"loop", "process", "send", "done"} => rxQueue.detached = NULL
  /\ txPc \in {"take", "done"} => txQueue.detached = NULL

QueuesInv == ServerInv /\ AnswersInv /\ IdleInv

LEMMA MessagesAreNotNull == NULL \notin CtxMessages /\ NULL \notin Requests
  BY NullAssumption, Zenon DEF CtxMessages, Requests

\* What a step may do to the queue to the client and to its consumer
CtxQueueUse ==
  \/ \E m \in CtxMessages : PutCtx(m) /\ UNCHANGED ctxPc
  \/ CtxTake
  \/ ctxPc \in {"handle", "body"} /\ CtxComplete
  \/ ctxPc = "handle" /\ ctxPc' = "body" /\ UNCHANGED ctxQueue
  \/ (UNCHANGED ctxQueue \/ ctxQueue' = AfterInterrupt(ctxQueue)) /\ UNCHANGED ctxPc

LEMMA ClientQueueUsed == ASSUME QueuesInv, [Next]_vars PROVE CtxQueueUse
<1> USE DEF QueuesInv, AnswersInv
<1>1. CASE CtxStep
  BY <1>1, Zenon DEF CtxQueueUse, CtxStep, CtxNewClient, CtxHeader, CtxBody
<1>2. CASE AccPut /\ UNCHANGED push
  <2>1. CASE Head(todo).to = "ctx"
    <3>1. Head(todo).msg \in CtxMessages
      BY <1>2, <2>1, NextPut, MessageTypes, Zenon DEF TodoInv, AccPut
    <3>2. PutCtx(Head(todo).msg) /\ UNCHANGED ctxPc
      BY <1>2, <2>1, Zenon DEF AccPut
    <3> QED BY <3>1, <3>2, Zenon DEF CtxQueueUse
  <2>2. CASE Head(todo).to # "ctx"
    <3>1. UNCHANGED <<ctxQueue, ctxPc>>
      <4>1. Head(todo) \in Todo
        BY <1>2, NextPut, Zenon
      <4>2. Head(todo).to \in {"ctx", "rx", "tx"}
        BY ONLY <4>1 DEF Todo
      <4> QED BY <1>2, <2>2, <4>2, Zenon DEF AccPut
    <3> QED BY <3>1, Zenon DEF CtxQueueUse
  <2> QED BY <2>1, <2>2, Zenon
<1>3. CASE RxRespond
  <2>1. rxQueue.detached \in Requests /\ rxOk \in BOOLEAN
    BY <1>3, Zenon DEF PlacesTypeOK, RxHand, RxRespond
  <2>2. SendResponse(rxQueue.detached, rxOk) \in CtxMessages
    BY ONLY <2>1 DEF SendResponse, CtxMessage, CtxMessages, Requests
  <2> QED BY <1>3, <2>2, Zenon DEF CtxQueueUse, RxRespond
<1>4. CASE RxSend \/ SdrSend
  <2>1. request_id \in Nat
    BY Zenon DEF PlacesTypeOK
  <2>2. SendSoftBits(request_id) \in CtxMessages
    BY ONLY <2>1 DEF SendSoftBits, CtxMessage, CtxMessages
  <2> QED BY <1>4, <2>2, Zenon DEF CtxQueueUse, RxSend, SdrSend, SendDemodulated
<1>5. CASE TxRespond
  BY <1>5, Zenon DEF CtxQueueUse, TxRespond, PlacesTypeOK
<1>6. CASE MainRxJoined \/ MainTxJoined
  BY <1>6, Zenon DEF CtxQueueUse, MainRxJoined, MainTxJoined
<1>7. CASE UNCHANGED <<ctxQueue, ctxPc>>
  BY <1>7, Zenon DEF CtxQueueUse
<1>8. (RxStep => RxRespond \/ RxSend \/ UNCHANGED ctxVars) /\ (SdrStep => SdrSend \/ UNCHANGED ctxVars)
  BY Zenon DEF RxStep, RxTake, RxParameters, RxDestroyOld, RxStart, RxStop, RxStopped, RxProcess, SdrStep, SdrCallback,
               ctxVars
<1>9. TxStep => TxRespond \/ UNCHANGED ctxVars
  BY Zenon DEF TxStep, TxTake, TxFrame, TxFlush, TxParameters
<1>10. /\ AccStep => AccPut \/ UNCHANGED ctxVars
       /\ MainStep => MainRxJoined \/ MainTxJoined \/ UNCHANGED ctxVars
       /\ Accept \/ AcceptAborted \/ AcceptFails \/ ReadDisconnected \/ ClientLeaves \/ Signal \/ Exited => UNCHANGED ctxVars
       /\ \A kind : ReadRequest(kind) => UNCHANGED ctxVars
  BY Zenon DEF AccStep, ReadTimeout, AccStop, AccClose, MainStep, MainJoined, MainCtxJoined, Accept, AcceptAborted,
               AcceptFails, ReadDisconnected, ClientLeaves, Signal, Exited, ReadRequest, vars
<1> QED BY <1>1, <1>2, <1>3, <1>4, <1>5, <1>6, <1>7, <1>8, <1>9, <1>10, Zenon DEF Next, vars, ctxVars

LEMMA ClientQueueIsFifo ==
  ASSUME QueuesInv, CtxQueueUse
  PROVE  /\ [CtxFifo!FifoNext]_(CtxFifo!fifoVars)
         /\ ctxPc' \in {"take", "done"} => ctxQueue'.detached = NULL
<1> USE DEF QueuesInv, AnswersInv
<1> DEFINE Goal == /\ [CtxFifo!FifoNext]_(CtxFifo!fifoVars)
                   /\ ctxPc' \in {"take", "done"} => ctxQueue'.detached = NULL
<1>1. ASSUME NEW m \in CtxMessages, PutCtx(m), UNCHANGED ctxPc PROVE Goal
  <2>1. CASE ctxQueue.poison
    BY <1>1, <2>1, Zenon DEF PutCtx, AfterPut, CtxFifo!fifoVars, IdleInv
  <2>2. CASE ~ctxQueue.poison
    <3>1. CtxFifo!Accept(m)
      BY <1>1, <2>2, Zenon DEF PutCtx, AfterPut, PutReturns, CtxFifo!Accept, CtxFifo!HasFree, CtxFifo!InUse,
                               HasFree, InUse, CtxFifo!QueueValue, QueueValue
    <3>2. ctxQueue'.detached = ctxQueue.detached
      BY <1>1, PutKeepsHand, Zenon DEF PutCtx
    <3> QED BY <1>1, <3>1, <3>2, Zenon DEF CtxFifo!FifoNext, IdleInv
  <2> QED BY <2>1, <2>2, Zenon
<1>2. CASE CtxTake
  <2>1. CASE TakeIsEnd(ctxQueue)
    <3>1. ctxPc' = "done" /\ ctxPc = "take" /\ UNCHANGED ctxQueue /\ ctxQueue.poison /\ ctxQueue.detached = NULL
      BY <1>2, <2>1, Zenon DEF CtxTake, TakeReturns, TakeIsEnd, IdleInv
    <3> QED BY <2>1, <3>1, Zenon DEF CtxFifo!End, CtxFifo!TakeIsEnd, TakeIsEnd, CtxFifo!FifoNext
  <2>2. CASE ~TakeIsEnd(ctxQueue)
    <3>1. ctxPc' = "handle" /\ ctxPc = "take" /\ ctxQueue' = AfterTake(ctxQueue) /\ ctxQueue.detached = NULL
      BY <1>2, <2>2, Zenon DEF CtxTake, IdleInv
    <3> QED BY <2>2, <3>1, Zenon DEF CtxFifo!Deliver, CtxFifo!AfterTake, CtxFifo!QueueValue, AfterTake, QueueValue, TakeIsEnd,
                               CtxFifo!FifoNext
  <2> QED BY <2>1, <2>2, Zenon
<1>3. CASE ctxPc \in {"handle", "body"} /\ CtxComplete
  <2>1. ctxQueue.detached # NULL
    BY <1>3, MessagesAreNotNull, Zenon DEF PlacesTypeOK, CtxHand
  <2>2. CtxFifo!Finish /\ ctxQueue'.detached = NULL
    BY <1>3, <2>1 DEF CtxComplete, CtxFifo!Finish, CtxFifo!AfterComplete, CtxFifo!QueueValue, AfterComplete, QueueValue
  <2> QED BY <2>2, Zenon DEF CtxFifo!FifoNext
<1>4. CASE ctxPc = "handle" /\ ctxPc' = "body" /\ UNCHANGED ctxQueue
  BY <1>4, Zenon DEF CtxFifo!fifoVars
<1>5. CASE UNCHANGED <<ctxQueue, ctxPc>>
  BY <1>5, Zenon DEF CtxFifo!fifoVars, IdleInv
<1>6. CASE ctxQueue' = AfterInterrupt(ctxQueue) /\ UNCHANGED ctxPc
  <2>1. CtxFifo!Close /\ ctxQueue'.detached = ctxQueue.detached
    BY <1>6 DEF CtxFifo!Close, CtxFifo!AfterInterrupt, CtxFifo!QueueValue, AfterInterrupt, QueueValue
  <2> QED BY <1>6, <2>1, Zenon DEF CtxFifo!FifoNext, IdleInv
<1> QED BY <1>1, <1>2, <1>3, <1>4, <1>5, <1>6, Zenon DEF CtxQueueUse

\* ... to the queue of the receiver
RxQueueUse ==
  \/ \E r \in Requests : PutRx(r) /\ UNCHANGED rxPc
  \/ RxTake
  \/ RxRespond
  \/ /\ rxPc \in {"handle", "swapped", "stopping"} /\ rxPc' \in {"swapped", "stopping", "respond"}
     /\ UNCHANGED rxQueue
  \/ /\ rxPc \in {"process", "send"} /\ (rxPc' \in {"loop", "send"} \/ (RxReadFails /\ rxPc' = "done"))
     /\ UNCHANGED rxQueue
  \/ (UNCHANGED rxQueue \/ rxQueue' = AfterInterrupt(rxQueue)) /\ UNCHANGED rxPc

LEMMA ReceiverQueueUsed == ASSUME QueuesInv, [Next]_vars PROVE RxQueueUse
<1> USE DEF QueuesInv, AnswersInv
<1>1. CASE RxStep
  BY <1>1, Zenon DEF RxQueueUse, RxStep, RxParameters, RxDestroyOld, RxStart, RxStop, RxStopped, RxProcess, RxSend, Handling
<1>2. CASE AccPut /\ UNCHANGED push
  <2>1. Head(todo) \in Todo
    BY <1>2, NextPut, Zenon
  <2>2. Head(todo).to \in {"ctx", "rx", "tx"} /\ (Head(todo).to = "rx" => Head(todo).msg \in Requests)
    BY ONLY <2>1 DEF Todo
  <2>3. UNCHANGED rxPc /\ (PutRx(Head(todo).msg) \/ UNCHANGED rxQueue)
        /\ (Head(todo).to # "rx" => UNCHANGED rxQueue)
    BY <1>2, <2>2, Zenon DEF AccPut
  <2> QED BY <2>2, <2>3, Zenon DEF RxQueueUse
<1>3. CASE AccStop
  <2>1. conn \in Nat
    BY Zenon DEF ServerInv, ServerTypeOK
  <2>2. [type |-> "stop", id |-> 0, for |-> conn] \in Requests
    BY ONLY <2>1 DEF Requests, RequestKinds
  <2> QED BY <1>3, <2>2, Zenon DEF RxQueueUse, AccStop
<1>4. CASE MainJoined
  BY <1>4, Zenon DEF RxQueueUse, MainJoined
<1>5. CASE UNCHANGED <<rxQueue, rxPc>>
  BY <1>5, Zenon DEF RxQueueUse
<1>6. SdrStep => UNCHANGED <<rxQueue, rxPc>>
  BY Zenon DEF SdrStep, SdrCallback, SdrSend
<1>7. /\ AccStep => AccPut \/ AccStop \/ UNCHANGED <<rxQueue, rxPc>>
      /\ MainStep => MainJoined \/ UNCHANGED <<rxQueue, rxPc>>
      /\ Accept \/ AcceptAborted \/ AcceptFails \/ ReadDisconnected \/ ClientLeaves \/ Signal \/ Exited
           => UNCHANGED <<rxQueue, rxPc>>
      /\ \A kind : ReadRequest(kind) => UNCHANGED <<rxQueue, rxPc>>
  BY Zenon DEF AccStep, ReadTimeout, AccClose, MainStep, MainRxJoined, MainTxJoined, MainCtxJoined, Accept, AcceptAborted,
               AcceptFails, ReadDisconnected, ClientLeaves, Signal, Exited, ReadRequest, vars, rxVars
<1> QED BY <1>1, <1>2, <1>3, <1>4, <1>5, <1>6, <1>7, Zenon DEF Next, vars, rxVars

LEMMA ReceiverQueueIsFifo ==
  ASSUME QueuesInv, RxQueueUse
  PROVE  /\ [RxFifo!FifoNext]_(RxFifo!fifoVars)
         /\ rxPc' \in {"loop", "process", "send", "done"} => rxQueue'.detached = NULL
<1> USE DEF QueuesInv, AnswersInv
<1> DEFINE Goal == /\ [RxFifo!FifoNext]_(RxFifo!fifoVars)
                   /\ rxPc' \in {"loop", "process", "send", "done"} => rxQueue'.detached = NULL
<1>1. ASSUME NEW r \in Requests, PutRx(r), UNCHANGED rxPc PROVE Goal
  <2>1. CASE rxQueue.poison
    BY <1>1, <2>1, Zenon DEF PutRx, AfterPut, RxFifo!fifoVars, IdleInv
  <2>2. CASE ~rxQueue.poison
    <3>1. RxFifo!Accept(r)
      BY <1>1, <2>2, Zenon DEF PutRx, AfterPut, PutReturns, RxFifo!Accept, RxFifo!HasFree, RxFifo!InUse,
                               HasFree, InUse, RxFifo!QueueValue, QueueValue
    <3>2. rxQueue'.detached = rxQueue.detached
      BY <1>1, PutKeepsHand, Zenon DEF PutRx
    <3> QED BY <1>1, <3>1, <3>2, Zenon DEF RxFifo!FifoNext, IdleInv
  <2> QED BY <2>1, <2>2, Zenon
<1>2. CASE RxTake
  <2>1. rxPc = "loop" /\ rxQueue.detached = NULL
    BY <1>2, Zenon DEF RxTake, IdleInv
  <2>2. CASE rxPc' = "process" /\ UNCHANGED rxQueue
    BY <2>1, <2>2, Zenon DEF RxFifo!fifoVars
  <2>3. CASE rxPc' = "done" /\ TakeReturns(rxQueue) /\ TakeIsEnd(rxQueue) /\ UNCHANGED rxQueue
    <3>1. rxQueue.poison
      BY <2>3, Zenon DEF TakeReturns, TakeIsEnd
    <3>2. CASE RxReadFails
      BY <2>1, <2>3, <3>2, Zenon DEF RxFifo!fifoVars
    <3>3. CASE ~RxReadFails
      BY <2>1, <2>3, <3>1, <3>3, Zenon DEF RxFifo!End, RxFifo!TakeIsEnd, TakeIsEnd, RxFifo!FifoNext
    <3> QED BY <3>2, <3>3, Zenon
  <2>4. CASE rxPc' = "handle" /\ rxQueue.filled # <<>> /\ rxQueue' = AfterTake(rxQueue)
    BY <2>1, <2>4, Zenon DEF RxFifo!Deliver, RxFifo!AfterTake, RxFifo!QueueValue, AfterTake, QueueValue, RxFifo!FifoNext
  <2> QED BY <1>2, <2>2, <2>3, <2>4, Zenon DEF RxTake
<1>3. CASE RxRespond
  <2>1. rxQueue.detached # NULL
    BY <1>3, MessagesAreNotNull, Zenon DEF RxRespond, PlacesTypeOK, RxHand
  <2>2. rxPc = "respond" /\ rxPc' # "done"
    BY <1>3, Zenon DEF RxRespond
  <2>3. RxFifo!Finish /\ rxQueue'.detached = NULL
    <3>1. rxQueue' = AfterComplete(rxQueue) /\ UNCHANGED (rxPc = "done" /\ ~RxReadFails)
      BY <1>3, <2>2, Zenon DEF RxRespond
    <3>2. AfterComplete(rxQueue).detached = NULL
      BY DEF AfterComplete, QueueValue
    <3> QED BY <2>1, <3>1, <3>2, Zenon DEF RxFifo!Finish, RxFifo!AfterComplete, RxFifo!QueueValue, AfterComplete, QueueValue
  <2> QED BY <2>3, Zenon DEF RxFifo!FifoNext
<1>4. CASE /\ rxPc \in {"handle", "swapped", "stopping"} /\ rxPc' \in {"swapped", "stopping", "respond"}
           /\ UNCHANGED rxQueue
  BY <1>4, Zenon DEF RxFifo!fifoVars
<1>5. CASE /\ rxPc \in {"process", "send"} /\ (rxPc' \in {"loop", "send"} \/ (RxReadFails /\ rxPc' = "done"))
           /\ UNCHANGED rxQueue
  BY <1>5, Zenon DEF RxFifo!fifoVars, IdleInv
<1>6. CASE UNCHANGED <<rxQueue, rxPc>>
  BY <1>6, Zenon DEF RxFifo!fifoVars, IdleInv
<1>7. CASE rxQueue' = AfterInterrupt(rxQueue) /\ UNCHANGED rxPc
  <2>1. RxFifo!Close /\ rxQueue'.detached = rxQueue.detached
    BY <1>7 DEF RxFifo!Close, RxFifo!AfterInterrupt, RxFifo!QueueValue, AfterInterrupt, QueueValue
  <2> QED BY <1>7, <2>1, Zenon DEF RxFifo!FifoNext, IdleInv
<1> QED BY <1>1, <1>2, <1>3, <1>4, <1>5, <1>6, <1>7, Zenon DEF RxQueueUse

\* ... to the queue of the transmitter
TxQueueUse ==
  \/ \E r \in Requests : PutTx(r) /\ UNCHANGED txPc
  \/ TxTake
  \/ txPc \in {"handle", "respond"} /\ txPc' = "take" /\ txQueue' = AfterComplete(txQueue)
  \/ txPc \in {"handle", "flush"} /\ txPc' \in {"flush", "respond"} /\ UNCHANGED txQueue
  \/ (UNCHANGED txQueue \/ txQueue' = AfterInterrupt(txQueue)) /\ UNCHANGED txPc

LEMMA TransmitterQueueUsed == ASSUME QueuesInv, [Next]_vars PROVE TxQueueUse
<1> USE DEF QueuesInv, AnswersInv
<1>1. CASE TxStep
  BY <1>1, Zenon DEF TxQueueUse, TxStep, TxFrame, TxFlush, TxParameters, TxRespond, TxReplies
<1>2. CASE AccPut /\ UNCHANGED push
  <2>1. Head(todo) \in Todo /\ (Head(todo).to = "tx" => Head(todo).msg \in Requests)
    BY <1>2, NextPut, Zenon DEF TodoInv, AccPut
  <2>2. Head(todo).to \in {"ctx", "rx", "tx"}
    BY ONLY <2>1 DEF Todo
  <2>3. UNCHANGED txPc /\ (PutTx(Head(todo).msg) \/ UNCHANGED txQueue)
        /\ (Head(todo).to # "tx" => UNCHANGED txQueue)
    BY <1>2, <2>2, Zenon DEF AccPut
  <2> QED BY <2>1, <2>3, Zenon DEF TxQueueUse
<1>3. CASE MainRxJoined
  BY <1>3, Zenon DEF TxQueueUse, MainRxJoined
<1>4. CASE UNCHANGED <<txQueue, txPc>>
  BY <1>4, Zenon DEF TxQueueUse
<1>5. /\ AccStep => AccPut \/ UNCHANGED <<txQueue, txPc>>
      /\ MainStep => MainRxJoined \/ UNCHANGED <<txQueue, txPc>>
      /\ Accept \/ AcceptAborted \/ AcceptFails \/ ReadDisconnected \/ ClientLeaves \/ Signal \/ Exited
           => UNCHANGED <<txQueue, txPc>>
      /\ \A kind : ReadRequest(kind) => UNCHANGED <<txQueue, txPc>>
  BY Zenon DEF AccStep, ReadTimeout, AccStop, AccClose, MainStep, MainJoined, MainTxJoined, MainCtxJoined, Accept,
               AcceptAborted, AcceptFails, ReadDisconnected, ClientLeaves, Signal, Exited, ReadRequest, vars, txVars
<1> QED BY <1>1, <1>2, <1>3, <1>4, <1>5, Zenon DEF Next, vars, txVars

LEMMA TransmitterQueueIsFifo ==
  ASSUME QueuesInv, TxQueueUse
  PROVE  /\ [TxFifo!FifoNext]_(TxFifo!fifoVars)
         /\ txPc' \in {"take", "done"} => txQueue'.detached = NULL
<1> USE DEF QueuesInv, AnswersInv
<1> DEFINE Goal == /\ [TxFifo!FifoNext]_(TxFifo!fifoVars)
                   /\ txPc' \in {"take", "done"} => txQueue'.detached = NULL
<1>1. ASSUME NEW r \in Requests, PutTx(r), UNCHANGED txPc PROVE Goal
  <2>1. CASE txQueue.poison
    BY <1>1, <2>1, Zenon DEF PutTx, AfterPut, TxFifo!fifoVars, IdleInv
  <2>2. CASE ~txQueue.poison
    <3>1. TxFifo!Accept(r)
      BY <1>1, <2>2, Zenon DEF PutTx, AfterPut, PutReturns, TxFifo!Accept, TxFifo!HasFree, TxFifo!InUse,
                               HasFree, InUse, TxFifo!QueueValue, QueueValue
    <3>2. txQueue'.detached = txQueue.detached
      BY <1>1, PutKeepsHand, Zenon DEF PutTx
    <3> QED BY <1>1, <3>1, <3>2, Zenon DEF TxFifo!FifoNext, IdleInv
  <2> QED BY <2>1, <2>2, Zenon
<1>2. CASE TxTake
  <2>1. txPc = "take" /\ txQueue.detached = NULL /\ TakeReturns(txQueue)
    BY <1>2, Zenon DEF TxTake, IdleInv
  <2>2. CASE txPc' = "done" /\ TakeIsEnd(txQueue) /\ UNCHANGED txQueue
    <3>1. txQueue.poison
      BY <2>1, <2>2, Zenon DEF TakeReturns, TakeIsEnd
    <3> QED BY <2>1, <2>2, <3>1, Zenon DEF TxFifo!End, TxFifo!TakeIsEnd, TakeIsEnd, TxFifo!FifoNext
  <2>3. CASE txPc' = "handle" /\ ~TakeIsEnd(txQueue) /\ txQueue' = AfterTake(txQueue)
    BY <2>1, <2>3, Zenon DEF TxFifo!Deliver, TxFifo!AfterTake, TxFifo!QueueValue, AfterTake, QueueValue, TakeIsEnd,
                             TxFifo!FifoNext
  <2> QED BY <1>2, <2>2, <2>3, Zenon DEF TxTake
<1>3. CASE txPc \in {"handle", "respond"} /\ txPc' = "take" /\ txQueue' = AfterComplete(txQueue)
  <2>1. txQueue.detached # NULL
    BY <1>3, MessagesAreNotNull, Zenon DEF PlacesTypeOK, TxHand
  <2>2. TxFifo!Finish /\ txQueue'.detached = NULL
    BY <1>3, <2>1 DEF TxFifo!Finish, TxFifo!AfterComplete, TxFifo!QueueValue, AfterComplete, QueueValue
  <2> QED BY <2>2, Zenon DEF TxFifo!FifoNext
<1>4. CASE txPc \in {"handle", "flush"} /\ txPc' \in {"flush", "respond"} /\ UNCHANGED txQueue
  BY <1>4, Zenon DEF TxFifo!fifoVars
<1>5. CASE UNCHANGED <<txQueue, txPc>>
  BY <1>5, Zenon DEF TxFifo!fifoVars, IdleInv
<1>6. CASE txQueue' = AfterInterrupt(txQueue) /\ UNCHANGED txPc
  <2>1. TxFifo!Close /\ txQueue'.detached = txQueue.detached
    BY <1>6 DEF TxFifo!Close, TxFifo!AfterInterrupt, TxFifo!QueueValue, AfterInterrupt, QueueValue
  <2> QED BY <1>6, <2>1, Zenon DEF TxFifo!FifoNext, IdleInv
<1> QED BY <1>1, <1>2, <1>3, <1>4, <1>5, <1>6, Zenon DEF TxQueueUse

\* The three queues of the server are bounded FIFOs with one consumer each, whatever the threads
\* and the clients do.  It is what queue.c implements (QueueImplementsFifo): the threads call it
\* only as it can be called.
THEOREM ServerQueuesAreFifos == Spec => CtxFifo!FifoSpec /\ RxFifo!FifoSpec /\ TxFifo!FifoSpec
<1>1. Init => IdleInv /\ CtxFifo!FifoInit /\ RxFifo!FifoInit /\ TxFifo!FifoInit
  BY DEF Init, CtxInit, RxInit, TxInit, IdleInv, NewQueue, QueueValue,
         CtxFifo!FifoInit, CtxFifo!NewQueue, CtxFifo!QueueValue, RxFifo!FifoInit, RxFifo!NewQueue, RxFifo!QueueValue,
         TxFifo!FifoInit, TxFifo!NewQueue, TxFifo!QueueValue
<1>2. QueuesInv /\ [Next]_vars =>
        /\ IdleInv'
        /\ [CtxFifo!FifoNext]_(CtxFifo!fifoVars) /\ [RxFifo!FifoNext]_(RxFifo!fifoVars)
        /\ [TxFifo!FifoNext]_(TxFifo!fifoVars)
  BY ClientQueueUsed, ClientQueueIsFifo, ReceiverQueueUsed, ReceiverQueueIsFifo, TransmitterQueueUsed,
     TransmitterQueueIsFifo, Zenon DEF IdleInv
<1> QED BY <1>1, <1>2, ServerInvariant, AnswersInvariant, PTL
        DEF Spec, QueuesInv, CtxFifo!FifoSpec, RxFifo!FifoSpec, TxFifo!FifoSpec

-----------------------------------------------------------------------------
(* The output buffer of the demodulator.  server_modem_swap shows that the callback of an SDR can *)
(* hold the buffer of a destroyed modem; it is the only place where one is held.                 *)

\* A buffer is held from sdr_process until it was copied; the rx worker's own is its modem's.
BufferInv ==
  /\ sdrPc # "send" /\ rxPc # "send" => demod_output = 0
  /\ rxPc = "send" => demod_output = modem

LEMMA BufferKept == ASSUME ServerInv, BufferInv, [Next]_vars PROVE BufferInv'
<1> USE DEF BufferInv, ServerInv, SdrInv
<1>1. CASE RxStep /\ UNCHANGED push
  <2>1. CASE RxProcess \/ RxSend
    BY <1>1, <2>1, Zenon DEF RxProcess, RxSend, Demodulate, SendDemodulated
  <2>2. CASE RxStart
    BY <1>1, <2>2 DEF RxStart, Handling
  <2> QED BY <1>1, <2>1, <2>2, Zenon DEF RxStep, RxTake, RxParameters, RxDestroyOld, RxStop, RxStopped, RxRespond, Handling
<1>2. CASE SdrStep
  BY <1>2, Zenon DEF SdrStep, SdrCallback, SdrSend, Demodulate, SendDemodulated
<1>3. CASE UNCHANGED <<rxPc, sdrPc, demod_output, modem>>
  BY <1>3, Zenon
<1>4. AccPut => UNCHANGED <<rxPc, sdrPc, demod_output, modem>>
  BY Zenon DEF AccPut
<1>5. /\ AccStep => UNCHANGED <<rxPc, sdrPc, demod_output, modem>>
      /\ MainStep => MainCtxJoined \/ UNCHANGED <<rxPc, sdrPc, demod_output, modem>>
  BY <1>4, Zenon DEF AccStep, ReadTimeout, AccStop, AccClose, MainStep, MainJoined, MainRxJoined, MainTxJoined, rxVars
<1>6. /\ Accept \/ AcceptAborted \/ AcceptFails \/ ReadDisconnected \/ ClientLeaves \/ Signal \/ Exited
           => UNCHANGED <<rxPc, sdrPc, demod_output, modem>>
      /\ \A kind : ReadRequest(kind) => UNCHANGED <<rxPc, sdrPc, demod_output, modem>>
  BY Zenon DEF Accept, AcceptAborted, AcceptFails, ReadDisconnected, ClientLeaves, Signal, Exited, ReadRequest, vars, rxVars
<1>7. CASE MainCtxJoined
  BY <1>7, Zenon DEF MainCtxJoined
<1> QED BY <1>1, <1>2, <1>3, <1>5, <1>6, <1>7, Zenon DEF Next, vars, rxVars

\* The rx worker never reads the output of a destroyed modem: only the callback of an SDR that
\* pushes its samples can hold such a buffer, between the mutex and the copy.
THEOREM OnlyCallbackOutlivesModem == Spec => [](DemodBufferAlive \/ (push /\ sdrPc = "send"))
<1>1. Init => BufferInv
  BY Zenon DEF Init, RxInit, BufferInv
<1>2. ServerInv /\ BufferInv => DemodBufferAlive \/ (push /\ sdrPc = "send")
  BY Zenon DEF ServerInv, SdrInv, BufferInv, DemodBufferAlive
<1>3. ServerInv /\ BufferInv /\ [Next]_vars => BufferInv'
  BY BufferKept, Zenon
<1> QED BY <1>1, <1>2, <1>3, ServerInvariant, PTL DEF Spec
=============================================================================
