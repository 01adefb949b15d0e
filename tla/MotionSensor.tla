---------------------------- MODULE MotionSensor ----------------------------
(***************************************************************************)
(* motion_sensor.c: the interrupt handler, its queue of one, and           *)
(* motion_sensor_task, which disables the interrupt, waits for the pin to  *)
(* settle, reads it, calls back and enables the interrupt again. What the  *)
(* callback does belongs to the module that composes this one (Startup).   *)
(* While the interrupt is disabled, an edge leaves no trace.               *)
(***************************************************************************)
EXTENDS Integers

CONSTANT Edges  \* bound: changes of the pin

ASSUME MotionSensorAssumption == Edges \in Nat

VARIABLES
    pin, edges,  \* the level of the pin, how often it may still change
    armed,       \* the interrupt is enabled
    signalled,   \* event_queue of motion_sensor.c has its one element
    sensor,      \* where motion_sensor_task is, "none" before it exists
    level,       \* what it read
    on_trigger,  \* the callback is set
    reported,    \* ghost: the level the callback was last called with
    missed       \* ghost: an edge after the last reading found the interrupt
                 \* disabled, or there was no callback for the reading

sensorVars == <<pin, edges, armed, signalled, sensor, level, on_trigger, reported, missed>>

SensorTypeOK ==
    /\ {pin, level, reported} \subseteq 0..1
    /\ edges \in 0..Edges
    /\ {armed, signalled, on_trigger, missed} \subseteq BOOLEAN
    /\ sensor \in {"none", "wait", "disable", "read", "call", "enable"}

(* After power-on the pin may have any level.                              *)
SensorOff(p) == /\ pin = p
                /\ armed = FALSE /\ signalled = FALSE
                /\ sensor = "none" /\ level = 0 /\ on_trigger = FALSE
                /\ reported = 0 /\ missed = FALSE

SensorInit == edges = Edges /\ \E p \in 0..1 : SensorOff(p)

(* motion_sensor_isr_handler: if the queue is full the edge is in it.      *)
Edge == /\ edges > 0
        /\ edges' = edges - 1
        /\ pin' = 1 - pin
        /\ signalled' = (signalled \/ armed)
        /\ missed' = (missed \/ sensor \in {"call", "enable"})
        /\ UNCHANGED <<armed, sensor, level, on_trigger, reported>>

(* motion_sensor_initialize. What is known of the pin is what it is now.   *)
SensorStart == /\ sensor = "none"
               /\ armed' = TRUE
               /\ sensor' = "wait"
               /\ reported' = pin
               /\ UNCHANGED <<pin, edges, signalled, level, on_trigger, missed>>

SetOnTrigger == /\ on_trigger' = TRUE
                /\ UNCHANGED <<pin, edges, armed, signalled, sensor, level,
                               reported, missed>>

SensorReceive == /\ sensor = "wait"
                 /\ signalled
                 /\ signalled' = FALSE
                 /\ sensor' = "disable"
                 /\ UNCHANGED <<pin, edges, armed, level, on_trigger, reported, missed>>

SensorDisable == /\ sensor = "disable"
                 /\ armed' = FALSE
                 /\ sensor' = "read"
                 /\ UNCHANGED <<pin, edges, signalled, level, on_trigger, reported, missed>>

(* Mistake: an edge is taken for a change of the level. *)
EdgeMeansChange == /\ sensor = "read"
                   /\ level' = 1 - reported
                   /\ missed' = FALSE
                   /\ sensor' = "call"
                   /\ UNCHANGED <<pin, edges, armed, signalled, on_trigger, reported>>

(* After DEBOUNCE_MS.                                                      *)
SensorRead == /\ sensor = "read"
              /\ level' = pin
              /\ missed' = FALSE
              /\ sensor' = "call"
              /\ UNCHANGED <<pin, edges, armed, signalled, on_trigger, reported>>

SensorSkips == /\ sensor = "call"
               /\ ~on_trigger
               /\ missed' = TRUE
               /\ sensor' = "enable"
               /\ UNCHANGED <<pin, edges, armed, signalled, level, on_trigger, reported>>

SensorReports == /\ sensor = "call"
                 /\ on_trigger
                 /\ reported' = level
                 /\ sensor' = "enable"
                 /\ UNCHANGED <<pin, edges, armed, signalled, level, on_trigger, missed>>

SensorEnable == /\ sensor = "enable"
                /\ armed' = TRUE
                /\ sensor' = "wait"
                /\ UNCHANGED <<pin, edges, signalled, level, on_trigger, reported, missed>>

(* motion_sensor_task outside the callback.                                *)
SensorTask == \/ SensorReceive \/ SensorDisable \/ SensorRead \/ SensorSkips
              \/ SensorEnable

(* While the task waits for an edge, the last level the callback had is    *)
(* that of the pin, however often the pin changed meanwhile, with one      *)
(* exception: a change between gpio_get_level and gpio_intr_enable (or a   *)
(* reading before the callback was set).                                   *)
LastLevelReported == sensor = "wait" /\ ~signalled => reported = pin \/ missed
=============================================================================
