---------------------------- MODULE MCEventLoop -----------------------------
(* EventLoop with one OTA and one management topic.                        *)
EXTENDS EventLoop

CONSTANTS ota, capture

MCTopics == <<ota, capture>>
=============================================================================
