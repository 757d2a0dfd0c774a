----------------------------- MODULE MCTcpUtils -----------------------------
(* Streams of requests for TLC. *)
EXTENDS TcpUtils

\* Behind headers of 3 bytes the payloads have 0, 2, 0, 1 and 3 bytes: with a buffer of 2 the
\* last one is too long.
MixedStarts == <<0, 3, 8, 11, 15, 21>>
\* One payload of 2 bytes and an empty one.
OneWithPayload == <<0, 5, 8>>
\* One of each with a payload and one without.
OtherVersion == {2, 3}
ShutdownRequests == {1, 4}
None == {}
=============================================================================
