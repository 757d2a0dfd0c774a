----------------------------- MODULE MCTcpServer -----------------------------
(* The server with its workers for TLC. *)
EXTENDS TcpServer
=============================================================================
