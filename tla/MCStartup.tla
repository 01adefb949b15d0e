------------------------------ MODULE MCStartup -----------------------------
(* Startup with one task beside ipcam_task that logs.                      *)
EXTENDS Startup

CONSTANTS other
=============================================================================
