------------------------------ MODULE Startup -------------------------------
(***************************************************************************)
(* The device from power-on: app_main brings the components up in order,   *)
(* while the tasks it has already started run. The motion sensor and the   *)
(* network post to event_queue, ipcam_task starts and stops remote logging *)
(* with the network, every task logs. What else the events do is the       *)
(* subject of EventLoop.                                                   *)
(***************************************************************************)
EXTENDS MotionSensor, RemoteLog, Sequences

CONSTANTS QueueLen,  \* length of event_queue of ipcam.c
          Changes,   \* bound: changes of the network
          Restarts,  \* bound: restarts
          ipcam      \* ipcam_task, one of the Loggers

ASSUME StartupAssumption ==
    /\ QueueLen \in Nat \ {0}
    /\ Changes \in Nat
    /\ Restarts \in Nat
    /\ ipcam \in Loggers

VARIABLES
    app,         \* the call app_main makes next, or what the device has become
    config,      \* what of the configuration decides here
    created, events,  \* event_queue exists, what is in it
    logs,        \* ipcam_task has a line to log
    net,         \* the event the network event handler is posting, or "none"
    changes, restarts

startVars == <<app, config, created, events, logs, net, changes, restarts>>
vars == <<sensorVars, logVars, startVars>>

Network == {"netUp", "netDown"}
Working == {"network", "startAP", "connect", "station", "accessPoint"}

(* Whether the configuration was loaded, and has an eth section, an SSID   *)
(* other than MY_SSID, and a log host and port. Without a configuration    *)
(* every getter returns its default.                                       *)
Configs == {c \in [loaded : BOOLEAN, eth : BOOLEAN, ssid : BOOLEAN, logging : BOOLEAN] :
               c.eth \/ c.ssid \/ c.logging => c.loaded}

TypeOK ==
    /\ SensorTypeOK
    /\ LogTypeOK
    /\ app \in {"sensor", "callback", "devices", "queue", "task"} \cup Working
    /\ config \in Configs
    /\ {created, logs} \subseteq BOOLEAN
    /\ events \in Seq(Network \cup {"motion"}) /\ Len(events) <= QueueLen
    /\ net \in Network \cup {"none"}
    /\ changes \in 0..Changes
    /\ restarts \in 0..Restarts

Off == /\ app = "sensor" /\ created = FALSE /\ events = <<>> /\ logs = FALSE
       /\ net = "none"

Init == /\ SensorInit /\ LogInit /\ Off
        /\ config \in Configs
        /\ changes = Changes /\ restarts = Restarts

-----------------------------------------------------------------------------
(* An abort, a failed assertion of FreeRTOS or an overflow of a stack: the *)
(* device starts again, with what is in flash and the pin as it is.        *)
Restart == /\ restarts > 0
           /\ restarts' = restarts - 1
           /\ armed' = FALSE /\ signalled' = FALSE /\ sensor' = "none"
           /\ level' = 0 /\ on_trigger' = FALSE /\ reported' = 0 /\ missed' = FALSE
           /\ hook' = "uart" /\ orig' = "none" /\ sock' = -1 /\ open' = {}
           /\ at' = "out" /\ old' = "none"
           /\ line' = [t \in Loggers |-> "idle"]
           /\ started' = FALSE /\ overlapped' = FALSE
           /\ app' = "sensor" /\ created' = FALSE /\ events' = <<>>
           /\ logs' = FALSE /\ net' = "none"
           /\ UNCHANGED <<pin, edges, config, changes>>

-----------------------------------------------------------------------------
(* app_main. What comes before the motion sensor (configuration, OTA, the  *)
(* event handlers, MQTT, the web server) sets up what nothing uses before  *)
(* the network is connected to.                                            *)

Then(call) == /\ app' = call
              /\ UNCHANGED <<config, logs, net, changes, restarts>>

(* Without a pin there is no task and no interrupt.                        *)
AppSensor == /\ app = "sensor"
             /\ SensorStart \/ UNCHANGED sensorVars
             /\ Then("callback")
             /\ UNCHANGED <<logVars, created, events>>

AppCallback == /\ app = "callback"
               /\ SetOnTrigger
               /\ Then("devices")
               /\ UNCHANGED <<logVars, created, events>>

(* The camera, the microphone, the encoder and the RTP sender.             *)
AppDevices == /\ app = "devices"
              /\ Then("queue")
              /\ UNCHANGED <<sensorVars, logVars, created, events>>

(* start_ipcam_task *)
AppQueue == /\ app = "queue"
            /\ created' = TRUE
            /\ Then("task")
            /\ UNCHANGED <<sensorVars, logVars, events>>

AppTask == /\ app = "task"
           /\ Then("network")
           /\ UNCHANGED <<sensorVars, logVars, created, events>>

AppNetwork == /\ app = "network"
              /\ Then(IF config.loaded /\ config.ssid THEN "connect" ELSE "startAP")
              /\ UNCHANGED <<sensorVars, logVars, created, events>>

(* wifi_start_ap needs what wifi_initialize has set up, which is not       *)
(* called where there is an eth section.                                   *)
StartAP == /\ app = "startAP"
           /\ ~config.eth
           /\ Then("accessPoint")
           /\ UNCHANGED <<sensorVars, logVars, created, events>>

(* wifi_connect or eth_connect *)
Connect == /\ app = "connect"
           /\ Then("station")
           /\ UNCHANGED <<sensorVars, logVars, created, events>>

(* ESP_ERROR_CHECK aborts when any of these calls fails.                   *)
AppFails == /\ app \in {"sensor", "devices", "queue", "task", "startAP", "connect"}
            /\ Restart

AppMain == AppSensor \/ AppCallback \/ AppDevices \/ AppQueue \/ AppTask
           \/ AppNetwork \/ StartAP \/ Connect

-----------------------------------------------------------------------------
(* Mistake: an event is put into a full queue. *)
PostAnyway(e) == /\ created
                 /\ events' = Append(events, e)

(* xQueueSend, waiting for ever.                                           *)
Post(e) == /\ created
           /\ Len(events) < QueueLen
           /\ events' = Append(events, e)

SensorOnly == (Edge \/ SensorTask) /\ UNCHANGED <<logVars, startVars>>

SensorPosts == /\ SensorReports
               /\ Post("motion")
               /\ UNCHANGED <<logVars, app, config, created, logs,
                              net, changes, restarts>>

(* The network may come while wifi_connect or eth_connect runs.            *)
NetworkChange == /\ app \in {"connect", "station"}
                 /\ net = "none"
                 /\ changes > 0
                 /\ changes' = changes - 1
                 /\ net' \in Network
                 /\ UNCHANGED <<sensorVars, logVars, app, config,
                                created, events, logs, restarts>>

PostNetwork == /\ net # "none"
               /\ Post(net)
               /\ net' = "none"
               /\ UNCHANGED <<sensorVars, logVars, app, config,
                              created, logs, changes, restarts>>

(* The callbacks of the motion sensor and of the network do not look       *)
(* whether event_queue exists: posting to NULL fails an assertion of       *)
(* FreeRTOS, and the device restarts.                                      *)
PostsNull == /\ ~created
             /\ (sensor = "call" /\ on_trigger) \/ net # "none"
             /\ Restart

-----------------------------------------------------------------------------
(* ipcam_task: log_start and log_stop are the first things it does when    *)
(* the network comes and goes, and every event makes it log.               *)

Handle(e) == \/ e = "netUp" /\ config.logging /\ (StartFails \/ StartOpens)
             \/ e = "netUp" /\ ~config.logging /\ UNCHANGED logVars
             \/ e = "netDown" /\ StopRestores
             \/ e = "motion" /\ UNCHANGED logVars

Receive == /\ app \in Working
           /\ at = "out" /\ ~logs /\ line[ipcam] = "idle"
           /\ events # <<>>
           /\ Handle(Head(events))
           /\ events' = Tail(events)
           /\ logs' = TRUE
           /\ UNCHANGED <<sensorVars, app, config, created, net,
                          changes, restarts>>

LogCallOnly == LogCall /\ UNCHANGED <<sensorVars, startVars>>

IpcamLogs == /\ at = "out" /\ logs
             /\ logs' = FALSE
             /\ LineStarts(ipcam) \/ (hook = "uart" /\ UNCHANGED logVars)
             /\ UNCHANGED <<sensorVars, app, config, created,
                            events, net, changes, restarts>>

Lines == /\ \/ \E t \in Loggers : LineSent(t) \/ LinePassedOn(t)
            \/ \E t \in Loggers \ {ipcam} : LineStarts(t)
         /\ UNCHANGED <<sensorVars, startVars>>

StackOverflow == (\E t \in Loggers : Overflow(t)) /\ Restart

Next == \/ AppMain \/ AppFails
        \/ SensorOnly \/ SensorPosts
        \/ NetworkChange \/ PostNetwork \/ PostsNull
        \/ Receive \/ LogCallOnly \/ IpcamLogs
        \/ Lines \/ StackOverflow

Spec == Init /\ [][Next]_vars

-----------------------------------------------------------------------------
(* Once app_main is done, neither posting an event nor logging brings the  *)
(* device down: no callback finds event_queue missing, and no line that a  *)
(* task is logging while log_start and log_stop exchange the function runs *)
(* into log_vprintf again, unless log_start was called on top of another.  *)
(* (What brings the device down in other parts is the subject of           *)
(* ConfigStore and Ota.)                                                   *)
StaysUp ==
    [][Restart /\ app \in {"station", "accessPoint"} => overlapped]_vars
=============================================================================
