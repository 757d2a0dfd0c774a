------------------------------ MODULE TcpUtils ------------------------------
(***************************************************************************)
(* src/tcp_utils.c and the way tcp_worker_callback of src/tcp_server.c     *)
(* uses it to cut the byte stream of a client into requests: a header of   *)
(* HeaderSize bytes, then as many bytes as it announces.                   *)
(*                                                                         *)
(* The client sends the requests that begin at the bytes Starts of its     *)
(* stream, in any number of segments.                                      *)
(* recv() returns any part of what arrived, or fails with a timeout        *)
(* (SO_RCVTIMEO) when nothing did.                                         *)
(***************************************************************************)
EXTENDS Integers, Sequences

CONSTANTS HeaderSize,       \* API_HEADER_SIZE, smaller here
          Starts,           \* where every request starts in the client's stream, and its end
          BadVersion,       \* requests that may have another protocol version
          Shutdown,         \* requests that may be a SHUTDOWN
          BufferLength,     \* buffer_length: payloads beyond it are refused
          MaxStalled        \* TCP_UTILS_MAX_STALLED_TIMEOUTS

ASSUME FramingAssumption ==
  /\ HeaderSize \in Nat \ {0}
  /\ Starts \in Seq(Nat) \ {<<>>}
  /\ Starts[1] = 0
  /\ \A i, j \in 1..Len(Starts) : i < j => Starts[i] + HeaderSize <= Starts[j]
  /\ BufferLength \in Nat
  /\ MaxStalled \in Nat \ {0}

VARIABLES arrived,     \* bytes that reached the server's socket
          pos,         \* bytes that recv() returned
          phase,       \* "header", "payload" or "dropped"
          left,        \* left of tcp_utils_read_data_partially
          total,       \* total_read of tcp_utils_read_data
          part,        \* bytes read by the current tcp_utils_read_data_partially
          stalled,     \* stalled_timeouts
          quiet,       \* consecutive timeouts since the last byte arrived
          closed,      \* the client closed the connection
          is_running,  \* of the server
          abandoned    \* the server went on without reading an announced payload

vars == <<arrived, pos, phase, left, total, part, stalled, quiet, closed, is_running, abandoned>>

Requests == 1..(Len(Starts) - 1)
StreamLength == Starts[Len(Starts)]
Boundaries == {Starts[i] : i \in 1..Len(Starts)}

\* The length of the payload that the header of request i announces.
Length(i) == Starts[i + 1] - Starts[i] - HeaderSize

\* The request whose header ends at byte p of the stream.
HeaderEndsAt(p) == {i \in Requests : Starts[i] + HeaderSize = p}

Init ==
  /\ arrived = 0 /\ pos = 0
  /\ phase = "header"
  /\ left = HeaderSize /\ total = 0 /\ part = 0 /\ stalled = 0
  /\ quiet = 0
  /\ closed = FALSE
  /\ is_running = TRUE
  /\ abandoned = FALSE

\* tcp_utils_read_data(buffer, len) is entered.
Call(p, len) == phase' = p /\ left' = len /\ total' = 0 /\ part' = 0 /\ stalled' = 0

\* The client sends n more bytes.
Arrive(n) ==
  /\ phase # "dropped"
  /\ ~closed
  /\ arrived + n <= StreamLength
  /\ arrived' = arrived + n
  /\ quiet' = 0
  /\ UNCHANGED <<pos, phase, left, total, part, stalled, closed, is_running, abandoned>>

Close ==
  /\ phase # "dropped"
  /\ ~closed
  /\ closed' = TRUE
  /\ UNCHANGED <<arrived, pos, phase, left, total, part, stalled, quiet, is_running, abandoned>>

\* tcp_server_shutdown, on another thread
Stop ==
  /\ is_running
  /\ is_running' = FALSE
  /\ UNCHANGED <<arrived, pos, phase, left, total, part, stalled, quiet, closed, abandoned>>

-----------------------------------------------------------------------------
\* The server gives the client up.
Drop == phase' = "dropped" /\ UNCHANGED <<left, total, part, stalled>>

\* The loop of tcp_worker_callback goes on with the next header, unless the server stops.
NextHeader ==
  \/ is_running /\ Call("header", HeaderSize)
  \/ ~is_running /\ Drop

\* Request i was read to its end.
Served(i) == NextHeader \/ (i \in Shutdown /\ Drop)

\* The header of request i was read: the payload that it announces follows, if there is one;
\* "the payload is not read, so the stream cannot be resynchronized. drop the client" if it
\* is longer than the buffer.
ReadPayload(i) ==
  \/ Length(i) > BufferLength /\ Drop
  \/ Length(i) = 0 /\ Served(i)
  \/ Length(i) \in 1..BufferLength /\ Call("payload", Length(i))

\* A header that was read off the boundaries may be anything: of another version, too long, of
\* a SHUTDOWN, with a payload.
ReadAnything == NextHeader \/ Drop \/ \E n \in 1..BufferLength : Call("payload", n)

\* The header that ends at byte p was read: another version is answered and skipped.
HeaderRead(p) ==
  \/ \E i \in HeaderEndsAt(p) \cap BadVersion : NextHeader /\ abandoned' = (abandoned \/ Length(i) > 0)
  \/ \E i \in HeaderEndsAt(p) : ReadPayload(i) /\ UNCHANGED abandoned
  \/ HeaderEndsAt(p) = {} /\ ReadAnything /\ UNCHANGED abandoned

\* The payload that starts at byte p, where its header ended, was read.
PayloadRead(p) ==
  /\ \/ \E i \in HeaderEndsAt(p) : Served(i)
     \/ HeaderEndsAt(p) = {} /\ (NextHeader \/ Drop)
  /\ UNCHANGED abandoned

\* tcp_utils_read_data returned 0 for the bytes up to p.
ReadDone(p) ==
  \/ phase = "header" /\ HeaderRead(p)
  \/ phase = "payload" /\ PayloadRead(p - total - part - left)

\* recv() returns n bytes.
Recv(n) ==
  /\ phase # "dropped"
  /\ n \in 1..left
  /\ pos + n <= arrived
  /\ pos' = pos + n
  /\ \/ n = left /\ ReadDone(pos + n)
     \/ n < left /\ left' = left - n /\ part' = part + n /\ UNCHANGED <<phase, total, stalled, abandoned>>
  /\ UNCHANGED <<arrived, quiet, closed, is_running>>

\* tcp_utils_read_data returned a value below zero: the client is dropped after a failed
\* header, but after a failed payload the loop goes on.
ReadFailed == \/ phase = "header" /\ Drop /\ UNCHANGED abandoned
              \/ phase = "payload" /\ NextHeader /\ abandoned' = TRUE

\* recv() returns 0 behind the last byte of a client that has closed the connection, or fails
\* because it was reset, and what had arrived is lost.
RecvClosed ==
  /\ phase # "dropped"
  /\ closed
  /\ arrived' = pos
  /\ ReadFailed
  /\ UNCHANGED <<pos, quiet, closed, is_running>>

\* Mutants: progress does not reset the count; every timeout does.
StalledTimeoutsNoReset == stalled + 1
StalledTimeoutsAlwaysReset == 0

\* stalled_timeouts after another timeout.
StalledTimeouts == IF part > 0 THEN 0 ELSE stalled + 1

\* Mutant: a timeout in the middle of a message is reported like one before it.
RecvTimeoutForgetsPart ==
  /\ phase # "dropped"
  /\ ~closed
  /\ pos = arrived
  /\ quiet' = IF quiet < MaxStalled THEN quiet + 1 ELSE quiet
  /\ NextHeader /\ abandoned' = (abandoned \/ phase = "payload")
  /\ UNCHANGED <<arrived, pos, closed, is_running>>

\* recv() fails with EAGAIN: nothing was read yet and the call returns -EAGAIN, or it
\* was in the middle and tries again up to MaxStalled times without progress.
RecvTimeout ==
  /\ phase # "dropped"
  /\ ~closed
  /\ pos = arrived
  /\ quiet' = IF quiet < MaxStalled THEN quiet + 1 ELSE quiet
  /\ \/ /\ total + part = 0
        /\ NextHeader
        /\ abandoned' = (abandoned \/ phase = "payload")
     \/ /\ total + part > 0
        /\ StalledTimeouts >= MaxStalled
        /\ ReadFailed
     \/ /\ total + part > 0
        /\ StalledTimeouts < MaxStalled
        /\ stalled' = StalledTimeouts
        /\ total' = total + part
        /\ part' = 0
        /\ UNCHANGED <<phase, left, abandoned>>
  /\ UNCHANGED <<arrived, pos, closed, is_running>>

Dropped == phase = "dropped" /\ UNCHANGED vars

Next ==
  \/ \E n \in 1..StreamLength : Arrive(n) \/ Recv(n)
  \/ Close
  \/ Stop
  \/ RecvClosed
  \/ RecvTimeout
  \/ Dropped

Spec == Init /\ [][Next]_vars

\* recv() returns, at the latest with a timeout.
FairSpec == Spec /\ WF_vars((\E n \in 1..StreamLength : Recv(n)) \/ RecvClosed \/ RecvTimeout)

-----------------------------------------------------------------------------
\* The server starts to read a header only where the client started a request: "nothing
\* was read: caller can safely treat this as no message yet".
HeaderAtBoundary == phase = "header" /\ total + part = 0 => pos \in Boundaries

\* However the stream is cut into segments and wherever the timeouts fall, the server is
\* in step with the client as long as it reads every payload that a header announces.
InStepUnlessAbandoned == ~abandoned => HeaderAtBoundary

\* The connection of a client that is in step is given up for one of five reasons: it left, it
\* was silent for MaxStalled timeouts in the middle of a header, it announced a payload longer
\* than the buffer (nothing behind that header was read), it asked for it with a request that
\* was read to its end, or the server stops.  One that is slow but makes progress is served.
DroppedForAReason ==
  phase = "dropped" /\ ~abandoned =>
    \/ closed
    \/ quiet >= MaxStalled /\ pos \notin Boundaries
    \/ \E i \in Requests : Length(i) > BufferLength /\ pos = Starts[i] + HeaderSize
    \/ \E i \in Requests \cap Shutdown : pos = Starts[i + 1]
    \/ ~is_running

\* A client that goes silent inside a header does not hold the server for ever: the
\* header is read to its end or the client is dropped.
StalledClientIsDropped ==
  (phase = "header" /\ total + part > 0) ~> (phase # "header" \/ total + part = 0)
=============================================================================
