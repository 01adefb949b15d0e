---------------------------- MODULE AtomicConfig ----------------------------
(***************************************************************************)
(* What the two-partition configuration store promises its user: an update *)
(* replaces the configuration in one atomic step, and the device boots what *)
(* the last completed update installed, wherever the power was cut.        *)
(*                                                                         *)
(* The promise is given to a "sound" device: one that runs the partition   *)
(* NVS names, and whose config.json nobody has rewritten in place. After   *)
(* an installation it is suspended until the device has restarted.         *)
(***************************************************************************)
CONSTANTS Valid,     \* complete images whose config.json parses
          Contents,  \* everything a device can find in its flash
          Misfit,    \* a partition filled from an image too long for it
          NoConfig   \* no configuration: the device comes up as access point

VARIABLES mode,     \* "down", "sound", "restart" (installed) or "open"
          running,  \* the configuration in use, NoConfig when down
          durable   \* what the next boot will use

vars == <<mode, running, durable>>

Init == /\ mode = "down"
        /\ running = NoConfig
        /\ durable \in Valid

(* The device comes up with exactly the durable configuration. It is sound *)
(* at once, unless there is none or recording the choice failed.           *)
Boot == /\ mode = "down"
        /\ mode' \in IF durable = NoConfig THEN {"open"} ELSE {"sound", "restart"}
        /\ running' = durable
        /\ UNCHANGED durable

PowerLoss == /\ mode # "down"
             /\ mode' = "down"
             /\ running' = NoConfig
             /\ UNCHANGED durable

(* An update takes effect as a whole. An image that does not load leaves   *)
(* the old configuration the durable one; the length of an image that is   *)
(* too long is not looked at.                                              *)
Install == /\ mode = "sound"
           /\ mode' = "restart"
           /\ durable' \in Valid \cup {durable, Misfit}
           /\ UNCHANGED running

(* The user starts rewriting config.json in place, or deletes it.          *)
Edit == /\ mode = "sound"
        /\ mode' = "open"
        /\ durable' \in Contents
        /\ UNCHANGED running

(* Nothing is promised about the flash of a device that is not sound.      *)
Unprotected == /\ mode \in {"restart", "open"}
               /\ mode' \in {"sound", "restart", "open"}
               /\ durable' \in Contents
               /\ UNCHANGED running

Next == Boot \/ PowerLoss \/ Install \/ Edit \/ Unprotected

Spec == Init /\ [][Next]_vars
=============================================================================
