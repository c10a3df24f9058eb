--------------------------- MODULE MCSessionSend ---------------------------
(* SessionSend with two threads beside the io thread.                      *)
EXTENDS SessionSend

CONSTANTS worker, grpc

MCThreads == {worker, grpc}
=============================================================================
