---------------------------- MODULE CommParameters ----------------------------
(***************************************************************************)
(* The way of a parameters request through the server that AppConfig       *)
(* started: encoded by the client, read into the buffer of the server,     *)
(* decoded once to check it, copied into the queue of the rx or the tx     *)
(* worker if it fits, decoded again by the worker, answered.  The sizes of *)
(* the buffer and of the queues come from the configuration.               *)
(***************************************************************************)
EXTENDS AppConfig, Api

CONSTANTS Wanted,       \* settings that a client may ask for
          Announced     \* offsets of message_length from the length that was encoded

\* Every field of a table has a value of its type: deviation is signed.
FitsTable(part, table) ==
  /\ part = [f \in DOMAIN table |-> part[f]]
  /\ \A f \in DOMAIN table :
       IF f = "deviation" THEN part[f] \in Int /\ 2 * part[f] \in (-U64)..(U64 - 1)
                          ELSE part[f] \in 0..(Capacity(table[f][2]) - 1)

\* The psk.type that goes with a modem_type
PskTypes == <<"none", "BPSK", "DPSK", "SDPSK", "none">>

ASSUME WantedAssumption ==
  /\ Announced \subseteq Int
  /\ \A s \in Wanted :
       /\ s = [type |-> s.type, psk |-> PskTypes[s.type], sdr |-> s.sdr, modem |-> s.modem]
       /\ s.type \in PSK \cup {GFSK, PSK_PM}
       /\ FitsTable(s.sdr, SdrWritten) /\ FitsTable(s.modem, Written(s.type))

VARIABLES request,      \* the request on its way, or NoRequest
          answer,       \* "none", "success", "failure"
          applied       \* what the worker created a modem and tuned the device with

parametersVars == <<request, answer, applied>>

HeaderSize == 10        \* API_HEADER_SIZE
NoRequest == [at |-> "none"]

ParametersInit == request = NoRequest /\ answer = "none" /\ applied = {}

\* A client encodes its settings and announces len bytes: those, fewer or more of them.
Send(direction, settings, len) ==
  /\ configStage = "server"
  /\ request = NoRequest
  /\ len >= 0
  /\ request' = [at |-> "socket", direction |-> direction, settings |-> settings, len |-> len,
                 payload |-> [i \in 0..(len - 1) |-> IF i < TotalSize(settings.type)
                                                     THEN Encoded(settings, i) ELSE ByteBase - 1]]
  /\ UNCHANGED <<configVars, answer, applied>>

Answer(a) == answer' = a /\ request' = [request EXCEPT !.at = "done"]

\* sdr_process_tx of the device: airspy has none, so there is no sdr_tx_worker.
HasTxWorker == config["sdr_type"] # "airspy"

\* buffer_len of the queue that the request is for
QueueBuffer(direction) == IF direction = "tx" THEN config["max_frame_size"] ELSE config["sdr_buffer_len"]

\* queue_put: what does not fit is dropped, and its callers do not look at the result.
Put(direction, len) ==
  /\ request' = [request EXCEPT !.at = IF len > QueueBuffer(direction) THEN "done" ELSE "queue"]
  /\ UNCHANGED answer

\* buffer_length: the sum is one of uint32_t.
BufferLength == (config["sdr_buffer_len"] + HeaderSize + 100) % Uint32

\* tcp_worker_callback, with message_length bytes of payload
HandleParameters ==
  /\ request.at = "socket"
  /\ \/ /\ request.len > BufferLength
        /\ Answer("failure")
     \/ /\ request.len <= BufferLength
        /\ \/ ~Decodable(request.payload, request.len) /\ Answer("failure")
           \/ /\ Decodable(request.payload, request.len)
              /\ \/ request.direction = "tx" /\ ~HasTxWorker /\ Answer("failure")
                 \/ request.direction = "rx" /\ Put("rx", request.len)
                 \/ request.direction = "tx" /\ HasTxWorker /\ Put("tx", request.len)
  /\ UNCHANGED <<configVars, applied>>

\* The worker takes the request: the modem and the device may refuse the settings.
ApplyParameters ==
  /\ request.at = "queue"
  /\ \/ Answer("failure") /\ UNCHANGED applied
     \/ /\ Decodable(request.payload, request.len)
        /\ applied' = {Decode(request.payload)}
        /\ Answer("success")
  /\ UNCHANGED configVars

ParametersNext ==
  \/ \E direction \in {"rx", "tx"}, settings \in Wanted, d \in Announced :
       Send(direction, settings, TotalSize(settings.type) + d)
  \/ HandleParameters
  \/ ApplyParameters

-----------------------------------------------------------------------------
\* The worker applies exactly the settings that the client encoded and reports success only
\* then; a message that was cut short is refused; and a message is dropped without an answer
\* only when it is longer than the buffers of the queue it is for.
ParametersAsSent ==
  /\ \A s \in applied : s = request.settings
  /\ answer = "success" => applied # {} /\ request.len >= TotalSize(request.settings.type)
  /\ request # NoRequest /\ request.at = "done" /\ answer = "none" =>
       /\ request.len >= TotalSize(request.settings.type)
       /\ request.len > QueueBuffer(request.direction)
=============================================================================
