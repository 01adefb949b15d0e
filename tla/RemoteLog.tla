----------------------------- MODULE RemoteLog ------------------------------
(***************************************************************************)
(* log.c: log_start and log_stop, run by ipcam_task, exchange the function *)
(* that every task of the device logs with; log_vprintf sends a line over  *)
(* the socket and passes it on to the function that was there before. A    *)
(* step is one access to what the tasks share, none of which is locked.    *)
(***************************************************************************)
EXTENDS Integers

CONSTANTS Loggers,   \* tasks that log
          MaxSocket  \* bound: sockets open at a time

ASSUME RemoteLogAssumption == MaxSocket \in Nat

VARIABLES
    hook,       \* what esp_log calls: "uart", or "remote" for log_vprintf
    orig,       \* orig_esp_log, "none" while it is NULL
    sock, open, \* the socket or -1, the sockets that are open
    at, old,    \* where ipcam_task is in log_start or log_stop, the hook it replaced
    line,       \* where each task is in log_vprintf
    started,    \* ghost: log_start returned 0 and log_stop has not been called since
    overlapped  \* ghost: log_start was called in between

logVars == <<hook, orig, sock, open, at, old, line, started, overlapped>>

LogTypeOK ==
    /\ hook \in {"uart", "remote"}
    /\ {orig, old} \subseteq {"none", "uart", "remote"}
    /\ sock \in -1..MaxSocket
    /\ open \subseteq 0..MaxSocket
    /\ at \in {"out", "install", "save", "close"}
    /\ line \in [Loggers -> {"idle", "send", "orig"}]
    /\ {started, overlapped} \subseteq BOOLEAN

LogInit == /\ hook = "uart" /\ orig = "none"
           /\ sock = -1 /\ open = {}
           /\ at = "out" /\ old = "none"
           /\ line = [t \in Loggers |-> "idle"]
           /\ started = FALSE /\ overlapped = FALSE

-----------------------------------------------------------------------------
(* log_start; without a host or a port it is not called here.              *)

(* The address could not be parsed, the socket not be opened or not be     *)
(* configured. A socket of an earlier log_start is closed in the first     *)
(* case, and forgotten in the others; the hook stays what it is.           *)
StartFails == /\ at = "out"
              /\ open' \in {open, open \ {sock}}
              /\ sock' = -1
              /\ overlapped' = (overlapped \/ started)
              /\ UNCHANGED <<hook, orig, at, old, line, started>>

StartOpens == /\ at = "out"
              /\ \E s \in (0..MaxSocket) \ open :
                    /\ \A r \in 0..s - 1 : r \in open
                    /\ sock' = s
                    /\ open' = open \cup {s}
              /\ at' = "install"
              /\ overlapped' = (overlapped \/ started)
              /\ UNCHANGED <<hook, orig, old, line, started>>

StartInstalls == /\ at = "install"
                 /\ hook' = "remote"
                 /\ old' = hook
                 /\ at' = "save"
                 /\ UNCHANGED <<orig, sock, open, line, started, overlapped>>

StartSaves == /\ at = "save"
              /\ orig' = old
              /\ at' = "out"
              /\ started' = TRUE
              /\ UNCHANGED <<hook, sock, open, old, line, overlapped>>

-----------------------------------------------------------------------------
(* log_stop *)

(* Mistake: log_stop does not restore the hook. *)
StopKeepsHook == /\ at = "out"
                 /\ started' = FALSE
                 /\ at' = IF sock < 0 THEN "out" ELSE "close"
                 /\ UNCHANGED <<hook, orig, sock, open, old, line, overlapped>>

StopRestores == /\ at = "out"
                /\ started' = FALSE
                /\ IF sock < 0
                      THEN UNCHANGED <<hook, at>>
                      ELSE hook' = orig /\ at' = "close"
                /\ UNCHANGED <<orig, sock, open, old, line, overlapped>>

(* Mistake: log_stop leaves the number of the closed socket behind. *)
CloseKeepsNumber == /\ at = "close"
                    /\ open' = open \ {sock}
                    /\ at' = "out"
                    /\ UNCHANGED <<hook, orig, sock, old, line, started, overlapped>>

StopCloses == /\ at = "close"
              /\ open' = open \ {sock}
              /\ sock' = -1
              /\ at' = "out"
              /\ UNCHANGED <<hook, orig, old, line, started, overlapped>>

LogCall == StartInstalls \/ StartSaves \/ StopCloses

-----------------------------------------------------------------------------
(* A line that task t logs *)

LineStarts(t) == /\ line[t] = "idle"
                 /\ hook = "remote"
                 /\ line' = [line EXCEPT ![t] = "send"]
                 /\ UNCHANGED <<hook, orig, sock, open, at, old, started, overlapped>>

(* Whether the socket, if it is still open, takes the line or not.         *)
LineSent(t) == /\ line[t] = "send"
               /\ line' = [line EXCEPT ![t] = "orig"]
               /\ UNCHANGED <<hook, orig, sock, open, at, old, started, overlapped>>

LinePassedOn(t) == /\ line[t] = "orig"
                   /\ orig # "remote"
                   /\ line' = [line EXCEPT ![t] = "idle"]
                   /\ UNCHANGED <<hook, orig, sock, open, at, old, started, overlapped>>

(* log_vprintf would call itself until the stack of the task is used up.   *)
Overflow(t) == line[t] = "orig" /\ orig = "remote"

-----------------------------------------------------------------------------
(* As long as no log_start was called on top of another, what log_start    *)
(* and log_stop leave behind fits together, whichever of their calls       *)
(* failed: the hook is log_vprintf exactly while there is a socket, which  *)
(* is open and the only one, and a line passed on reaches the function     *)
(* that was there before.                                                  *)
HookFollowsSocket ==
    at = "out" /\ ~overlapped =>
        /\ hook = "remote" <=> sock >= 0
        /\ open = {sock} \ {-1}
        /\ orig \in {"none", "uart"}
        /\ (\E t \in Loggers : line[t] # "idle") => orig = "uart"
=============================================================================
