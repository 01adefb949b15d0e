---------------------------- MODULE MCStreaming -----------------------------
(* Streaming with the two buffers of the camera driver, room for two       *)
(* packets, and queues short enough for both to run full.                  *)
EXTENDS Streaming

CONSTANTS f1, f2, p1, p2
=============================================================================
