---------------------------- MODULE StartupProofs ---------------------------
(***************************************************************************)
(* Theorems about Startup, for any number of tasks that log, of edges, of  *)
(* changes of the network and of restarts, and any length of event_queue.  *)
(* The invariant is made of one part for each of the composed modules:     *)
(* what motion_sensor_task knows of the pin, and what log_start and        *)
(* log_stop have done so far.                                              *)
(***************************************************************************)
EXTENDS Startup, SequenceTheorems, TLAPS

(* From its reading on, the task has the level of the pin or missed an     *)
(* edge; before, an edge left its mark in the queue.                       *)
Debounced == /\ sensor = "wait" => armed
             /\ sensor = "wait" => reported = pin \/ missed \/ signalled
             /\ sensor = "call" => level = pin \/ missed
             /\ sensor = "enable" => reported = pin \/ missed

SensorInv == SensorTypeOK /\ Debounced

HasSocket == sock >= 0 /\ open = {sock}

(* What log_start and log_stop have done when they are at each place, as   *)
(* long as no log_start was called on top of another.                      *)
Exchanged ==
    /\ at = "out" => IF started THEN HasSocket /\ hook = "remote" /\ orig = "uart"
                                ELSE sock = -1 /\ open = {} /\ hook = "uart"
    /\ at = "install" => ~started /\ HasSocket /\ hook = "uart"
    /\ at = "save" => ~started /\ HasSocket /\ hook = "remote" /\ old = "uart"
    /\ at = "close" => ~started /\ HasSocket /\ hook = "uart" /\ orig = "uart"
    /\ orig \in {"none", "uart"}

(* A task inside log_vprintf, when log_start is not just installing it,    *)
(* finds the original function saved.                                      *)
LinesReturn == \A t \in Loggers : line[t] # "idle" => orig = "uart" \/ at = "save"

(* What log_stop restores was saved, even after a log_start on top.        *)
Saved == /\ at = "out" /\ sock >= 0 => orig # "none"
         /\ at = "save" => old # "none"

LogInv == LogTypeOK /\ Saved /\ (~overlapped => Exchanged /\ LinesReturn)

StartTypeOK ==
    /\ app \in {"sensor", "callback", "devices", "queue", "task"} \cup Working
    /\ config \in Configs
    /\ created \in BOOLEAN /\ logs \in BOOLEAN
    /\ events \in Seq(Network \cup {"motion"}) /\ Len(events) <= QueueLen
    /\ net \in Network \cup {"none"}
    /\ changes \in 0..Changes
    /\ restarts \in 0..Restarts

(* app_main creates event_queue before it starts what posts to it, except  *)
(* the motion sensor.                                                      *)
QueueFirst == app \in {"task"} \cup Working => created

Inv == SensorInv /\ LogInv /\ StartTypeOK /\ QueueFirst

-----------------------------------------------------------------------------
LEMMA InvTypeOK == Inv => TypeOK
BY DEF Inv, SensorInv, LogInv, StartTypeOK, TypeOK

LEMMA InitInv == Init => Inv
<1> SUFFICES ASSUME Init PROVE Inv
    OBVIOUS
<1>1. SensorInv
    <2>1. PICK p \in 0..1 : SensorOff(p)
        BY DEF Init, SensorInit
    <2>2. pin \in 0..1 /\ level \in 0..1 /\ reported \in 0..1
        BY <2>1 DEF SensorOff
    <2>3. edges \in 0..Edges
        BY MotionSensorAssumption DEF Init, SensorInit
    <2>4. {armed, signalled, on_trigger, missed} \subseteq BOOLEAN /\ sensor = "none"
        BY <2>1, Zenon DEF SensorOff
    <2>5. SensorTypeOK
        BY <2>2, <2>3, <2>4 DEF SensorTypeOK
    <2> QED
        BY <2>4, <2>5 DEF SensorInv, Debounced
<1>2. LogInv
    <2>1. sock = -1 /\ open = {} /\ hook = "uart" /\ orig = "none" /\ old = "none"
          /\ at = "out" /\ line = [t \in Loggers |-> "idle"] /\ ~started
        BY DEF Init, LogInit
    <2>2. {started, overlapped} \subseteq BOOLEAN
        BY Zenon DEF Init, LogInit
    <2>3. LogTypeOK
        BY <2>1, <2>2, RemoteLogAssumption DEF LogTypeOK
    <2>4. Exchanged /\ LinesReturn /\ Saved
        BY <2>1 DEF Exchanged, LinesReturn, Saved
    <2> QED
        BY <2>3, <2>4 DEF LogInv
<1>3. events \in Seq(Network \cup {"motion"}) /\ Len(events) = 0
    BY EmptySeq DEF Init, Off
<1>4. StartTypeOK
    <2>1. created \in BOOLEAN /\ logs \in BOOLEAN
        BY Zenon DEF Init, Off
    <2>2. config \in Configs /\ app = "sensor" /\ net = "none"
        BY DEF Init, Off
    <2>3. changes \in 0..Changes /\ restarts \in 0..Restarts
        BY StartupAssumption DEF Init
    <2> QED
        BY <1>3, <2>1, <2>2, <2>3, StartupAssumption DEF StartTypeOK
<1>5. QueueFirst
    BY DEF Init, Off, QueueFirst, Working
<1> QED
    BY <1>1, <1>2, <1>4, <1>5 DEF Inv

-----------------------------------------------------------------------------
(* The motion sensor: each step of the task or of the interrupt.           *)
LEMMA SensorStep ==
    ASSUME SensorInv,
           Edge \/ SensorStart \/ SetOnTrigger \/ SensorTask \/ SensorReports
    PROVE  SensorInv'
<1> USE DEF SensorInv, SensorTypeOK, Debounced
<1>1. CASE Edge
    <2>1. pin \in {0, 1} /\ pin' \in {0, 1} /\ edges' \in 0..Edges
        BY <1>1, MotionSensorAssumption DEF Edge
    <2>2. signalled' = (signalled \/ armed) /\ missed' = (missed \/ sensor \in {"call", "enable"})
        BY <1>1 DEF Edge
    <2>3. signalled' \in BOOLEAN /\ missed' \in BOOLEAN
        BY <2>2, Zenon
    <2>4. UNCHANGED <<armed, sensor, level, on_trigger, reported>>
        BY <1>1 DEF Edge
    <2>5. SensorTypeOK'
        BY <2>1, <2>3, <2>4
    <2>6. (sensor = "wait" => signalled') /\ (sensor \in {"call", "enable"} => missed')
        BY <2>2, Zenon
    <2> QED
        BY <2>4, <2>5, <2>6
<1>2. CASE SensorStart
    BY <1>2 DEF SensorStart
<1>3. CASE SetOnTrigger
    BY <1>3 DEF SetOnTrigger
<1>4. CASE SensorReceive
    BY <1>4 DEF SensorReceive
<1>5. CASE SensorDisable
    BY <1>5 DEF SensorDisable
<1>6. CASE SensorRead
    BY <1>6 DEF SensorRead
<1>7. CASE SensorSkips
    BY <1>7 DEF SensorSkips
<1>8. CASE SensorReports
    BY <1>8 DEF SensorReports
<1>9. CASE SensorEnable
    BY <1>9 DEF SensorEnable
<1> QED
    BY <1>1, <1>2, <1>3, <1>4, <1>5, <1>6, <1>7, <1>8, <1>9 DEF SensorTask

-----------------------------------------------------------------------------
(* The remote log: each step of log_start and log_stop.                    *)
LEMMA LogStep ==
    ASSUME LogInv, StartFails \/ StartOpens \/ StopRestores \/ LogCall
    PROVE  LogInv'
<1> USE DEF LogInv, LogTypeOK, Saved, Exchanged, LinesReturn, HasSocket
<1>0. \A s \in 0..MaxSocket : s >= 0 /\ s # -1
    BY RemoteLogAssumption
<1>1. CASE StartFails
    <2>1. overlapped' = (overlapped \/ started)
        BY <1>1 DEF StartFails
    <2>2. overlapped' \in BOOLEAN /\ (~overlapped' => ~overlapped /\ ~started)
        BY <2>1, Zenon
    <2>3. open' \subseteq 0..MaxSocket /\ sock' \in -1..MaxSocket
          /\ (open = {} => open' = {}) /\ sock' = -1
        BY <1>1, RemoteLogAssumption DEF StartFails
    <2> QED
        BY <1>1, <2>2, <2>3 DEF StartFails
<1>2. CASE StartOpens
    <2>1. overlapped' = (overlapped \/ started)
        BY <1>2 DEF StartOpens
    <2>2. overlapped' \in BOOLEAN /\ (~overlapped' => ~overlapped /\ ~started)
        BY <2>1, Zenon
    <2>3. /\ sock' \in 0..MaxSocket /\ open' = open \cup {sock'}
        BY <1>2 DEF StartOpens
    <2>4. sock' \in -1..MaxSocket /\ open' \subseteq 0..MaxSocket
        BY <2>3, RemoteLogAssumption
    <2> QED
        BY <1>0, <1>2, <2>2, <2>3, <2>4 DEF StartOpens
<1>3. CASE StartInstalls
    BY <1>3 DEF StartInstalls
<1>4. CASE StartSaves
    BY <1>4 DEF StartSaves
<1>5. CASE StopRestores
    <2>1. ~started' /\ started' \in BOOLEAN
        BY <1>5, Zenon DEF StopRestores
    <2>2. UNCHANGED <<orig, sock, open, old, line, overlapped>> /\ at = "out"
        BY <1>5 DEF StopRestores
    <2>3. CASE sock < 0
        <3>1. UNCHANGED <<hook, at>>
            BY <1>5, <2>3 DEF StopRestores
        <3>2. ~overlapped => ~started
            BY <2>2, <2>3
        <3> QED
            BY <2>1, <2>2, <3>1, <3>2
    <2>4. CASE ~(sock < 0)
        <3>1. hook' = orig /\ at' = "close"
            BY <1>5, <2>4 DEF StopRestores
        <3>2. ~overlapped => HasSocket /\ orig = "uart"
            BY <2>2, <2>4
        <3>3. hook' \in {"uart", "remote"}
            BY <2>2, <2>4, <3>1, RemoteLogAssumption
        <3> QED
            BY <2>1, <2>2, <3>1, <3>2, <3>3
    <2> QED
        BY <2>3, <2>4
<1>6. CASE StopCloses
    BY <1>6, RemoteLogAssumption DEF StopCloses
<1> QED
    BY <1>1, <1>2, <1>3, <1>4, <1>5, <1>6 DEF LogCall

(* A line on its way.                                                      *)
LEMMA LineStep ==
    ASSUME LogInv, NEW t \in Loggers, LineStarts(t) \/ LineSent(t) \/ LinePassedOn(t)
    PROVE  LogInv'
<1> USE DEF LogInv, LogTypeOK, Saved, Exchanged, LinesReturn, HasSocket
<1>1. CASE LineStarts(t)
    BY <1>1 DEF LineStarts
<1>2. CASE LineSent(t)
    BY <1>2 DEF LineSent
<1>3. CASE LinePassedOn(t)
    BY <1>3 DEF LinePassedOn
<1> QED
    BY <1>1, <1>2, <1>3

-----------------------------------------------------------------------------
(* After a restart everything in RAM is as it was.                         *)
LEMMA RestartInv ==
    ASSUME Inv, Restart
    PROVE  Inv'
<1>1. SensorInv'
    <2>1. {armed', signalled', on_trigger', missed'} \subseteq BOOLEAN
        BY Zenon DEF Restart
    <2>2. /\ level' = 0 /\ reported' = 0 /\ sensor' = "none"
          /\ UNCHANGED <<pin, edges>>
        BY DEF Restart
    <2> QED
        BY <2>1, <2>2 DEF Inv, SensorInv, SensorTypeOK, Debounced
<1>2. LogInv'
    <2>1. /\ sock' = -1 /\ open' = {} /\ hook' = "uart" /\ orig' = "none"
          /\ old' = "none" /\ at' = "out" /\ line' = [t \in Loggers |-> "idle"]
          /\ ~started'
        BY DEF Restart
    <2>2. {started', overlapped'} \subseteq BOOLEAN
        BY Zenon DEF Restart
    <2>3. LogTypeOK'
        BY <2>1, <2>2, RemoteLogAssumption DEF LogTypeOK
    <2>4. Exchanged' /\ LinesReturn' /\ Saved'
        BY <2>1 DEF Exchanged, LinesReturn, Saved
    <2> QED
        BY <2>3, <2>4 DEF LogInv
<1>3. StartTypeOK'
    <2>1. created' \in BOOLEAN /\ logs' \in BOOLEAN
        BY Zenon DEF Restart
    <2>2. events' \in Seq(Network \cup {"motion"}) /\ Len(events') = 0
        BY EmptySeq DEF Restart
    <2>3. restarts' \in 0..Restarts
        BY StartupAssumption DEF Restart, Inv, StartTypeOK
    <2>4. app' = "sensor" /\ net' = "none" /\ UNCHANGED <<config, changes>>
        BY DEF Restart
    <2>5. 0 <= QueueLen
        BY StartupAssumption
    <2> QED
        BY <2>1, <2>2, <2>3, <2>4, <2>5 DEF Inv, StartTypeOK
<1>4. QueueFirst'
    BY DEF Restart, QueueFirst, Working
<1> QED
    BY <1>1, <1>2, <1>3, <1>4 DEF Inv

(* A part whose variables do not change keeps its invariant.               *)
LEMMA SensorStutter == SensorInv /\ UNCHANGED sensorVars => SensorInv'
BY DEF SensorInv, SensorTypeOK, Debounced, sensorVars

LEMMA LogStutter == LogInv /\ UNCHANGED logVars => LogInv'
BY DEF LogInv, LogTypeOK, Saved, Exchanged, LinesReturn, HasSocket, logVars

LEMMA StartStutter ==
    StartTypeOK /\ QueueFirst /\ UNCHANGED startVars => StartTypeOK' /\ QueueFirst'
BY DEF StartTypeOK, QueueFirst, startVars

LEMMA QueueStays == QueueFirst /\ UNCHANGED <<app, created>> => QueueFirst'
BY DEF QueueFirst

(* The queue of ipcam_task.                                                *)
LEMMA PostKeepsQueue ==
    ASSUME StartTypeOK, NEW e \in Network \cup {"motion"}, Post(e)
    PROVE  events' \in Seq(Network \cup {"motion"}) /\ Len(events') <= QueueLen
<1>1. events' = Append(events, e) /\ Len(events) < QueueLen
    BY DEF Post
<1>2. events' \in Seq(Network \cup {"motion"}) /\ Len(events') = Len(events) + 1
    BY <1>1, AppendProperties DEF StartTypeOK
<1>3. Len(events) \in Nat
    BY LenProperties DEF StartTypeOK
<1> QED
    BY <1>1, <1>2, <1>3, StartupAssumption

-----------------------------------------------------------------------------
(* app_main: the motion sensor and its callback, then the rest.            *)
LEMMA AppMainInv ==
    ASSUME Inv, AppMain
    PROVE  Inv'
<1>1. SensorInv'
    BY SensorStep, SensorStutter DEF Inv, AppMain, AppSensor, AppCallback, AppDevices,
       AppQueue, AppTask, AppNetwork, StartAP, Connect
<1>2. LogInv'
    BY LogStutter DEF Inv, AppMain, AppSensor, AppCallback, AppDevices,
       AppQueue, AppTask, AppNetwork, StartAP, Connect
<1>3. created' \in BOOLEAN /\ events' = events
    <2>1. CASE AppQueue
        <3>1. created' = TRUE /\ events' = events
            BY <2>1, Zenon DEF AppQueue
        <3> QED
            BY <3>1
    <2>2. CASE ~AppQueue
        BY <2>2 DEF Inv, StartTypeOK, AppMain, AppSensor, AppCallback, AppDevices,
           AppTask, AppNetwork, StartAP, Connect
    <2> QED
        BY <2>1, <2>2
<1>4. app' \in {"callback", "devices", "queue", "task"} \cup Working
      /\ UNCHANGED <<config, logs, net, changes, restarts>>
    BY DEF AppMain, AppSensor, AppCallback, AppDevices, AppQueue, AppTask,
       AppNetwork, StartAP, Connect, Then, Working
<1>5. QueueFirst'
    BY DEF Inv, QueueFirst, AppMain, AppSensor, AppCallback, AppDevices, AppQueue,
           AppTask, AppNetwork, StartAP, Connect, Then, Working
<1> QED
    BY <1>1, <1>2, <1>3, <1>4, <1>5 DEF Inv, StartTypeOK

(* The sensor and the network post their events.                           *)
LEMMA PostersInv ==
    ASSUME Inv, SensorOnly \/ SensorPosts \/ NetworkChange \/ PostNetwork
    PROVE  Inv'
<1>1. CASE SensorOnly
    BY <1>1, SensorStep, LogStutter, StartStutter DEF Inv, SensorOnly
<1>2. CASE SensorPosts
    <2>1. SensorInv' /\ LogInv'
        BY <1>2, SensorStep, LogStutter DEF Inv, SensorPosts
    <2>2. events' \in Seq(Network \cup {"motion"}) /\ Len(events') <= QueueLen
        BY <1>2, PostKeepsQueue DEF Inv, SensorPosts
    <2> QED
        BY <1>2, <2>1, <2>2, QueueStays DEF Inv, SensorPosts, StartTypeOK
<1>3. CASE NetworkChange
    <2>1. SensorInv' /\ LogInv'
        BY <1>3, SensorStutter, LogStutter DEF Inv, NetworkChange
    <2>2. changes' \in 0..Changes /\ net' \in Network
        BY <1>3, StartupAssumption DEF Inv, StartTypeOK, NetworkChange
    <2> QED
        BY <1>3, <2>1, <2>2, QueueStays DEF Inv, NetworkChange, StartTypeOK
<1>4. CASE PostNetwork
    <2>1. SensorInv' /\ LogInv'
        BY <1>4, SensorStutter, LogStutter DEF Inv, PostNetwork
    <2>2. events' \in Seq(Network \cup {"motion"}) /\ Len(events') <= QueueLen
        BY <1>4, PostKeepsQueue DEF Inv, StartTypeOK, PostNetwork
    <2> QED
        BY <1>4, <2>1, <2>2, QueueStays DEF Inv, PostNetwork, StartTypeOK
<1> QED
    BY <1>1, <1>2, <1>3, <1>4

(* ipcam_task, and the lines all tasks log.                                *)
LEMMA LoggingInv ==
    ASSUME Inv, Receive \/ LogCallOnly \/ IpcamLogs \/ Lines
    PROVE  Inv'
<1>1. CASE Receive
    <2>1. SensorInv'
        BY <1>1, SensorStutter DEF Inv, Receive
    <2>2. LogInv'
        BY <1>1, LogStep, LogStutter DEF Inv, Receive, Handle
    <2>3. events' \in Seq(Network \cup {"motion"}) /\ Len(events') = Len(events) - 1
          /\ Len(events) \in Nat
        BY <1>1, HeadTailProperties, LenProperties DEF Inv, StartTypeOK, Receive
    <2>4. Len(events') <= QueueLen
        BY <2>3, StartupAssumption DEF Inv, StartTypeOK
    <2>5. logs' \in BOOLEAN
        BY <1>1, Zenon DEF Receive
    <2>6. UNCHANGED <<app, config, created, net, changes, restarts>>
        BY <1>1 DEF Receive
    <2> QED
        BY <2>1, <2>2, <2>3, <2>4, <2>5, <2>6, QueueStays DEF Inv, StartTypeOK
<1>2. CASE LogCallOnly
    BY <1>2, LogStep, SensorStutter, StartStutter DEF Inv, LogCallOnly
<1>3. CASE IpcamLogs
    <2>1. SensorInv'
        BY <1>3, SensorStutter DEF Inv, IpcamLogs
    <2>2. LogInv'
        BY <1>3, LineStep, LogStutter, StartupAssumption DEF Inv, IpcamLogs
    <2>3. logs' \in BOOLEAN
        BY <1>3, Zenon DEF IpcamLogs
    <2> QED
        BY <1>3, <2>1, <2>2, <2>3, QueueStays DEF Inv, StartTypeOK, IpcamLogs
<1>4. CASE Lines
    BY <1>4, LineStep, SensorStutter, StartStutter DEF Inv, Lines
<1> QED
    BY <1>1, <1>2, <1>3, <1>4

LEMMA NextInv == Inv /\ [Next]_vars => Inv'
<1> SUFFICES ASSUME Inv, [Next]_vars PROVE Inv'
    OBVIOUS
<1>1. CASE AppMain
    BY <1>1, AppMainInv
<1>2. CASE AppFails \/ PostsNull \/ StackOverflow
    BY <1>2, RestartInv DEF AppFails, PostsNull, StackOverflow
<1>3. CASE SensorOnly \/ SensorPosts \/ NetworkChange \/ PostNetwork
    BY <1>3, PostersInv
<1>4. CASE Receive \/ LogCallOnly \/ IpcamLogs \/ Lines
    BY <1>4, LoggingInv
<1>5. CASE UNCHANGED vars
    BY <1>5, SensorStutter, LogStutter, StartStutter DEF Inv, vars
<1> QED
    BY <1>1, <1>2, <1>3, <1>4, <1>5 DEF Next

THEOREM Invariance == Spec => []Inv
<1>1. Init => Inv
    BY InitInv
<1>2. Inv /\ [Next]_vars => Inv'
    BY NextInv
<1> QED
    BY <1>1, <1>2, PTL DEF Spec

-----------------------------------------------------------------------------
(* The variables have their types: whatever fails, event_queue stays       *)
(* within its length and the function esp_log calls is never NULL.         *)
THEOREM TypeCorrect == Spec => []TypeOK
<1>1. Inv => TypeOK
    BY InvTypeOK
<1> QED
    BY <1>1, Invariance, PTL

(* motion_sensor_task ends with the level of its pin reported, however     *)
(* often the pin changed while its interrupt was enabled.                  *)
THEOREM LevelIsReported == Spec => []LastLevelReported
<1>1. Inv => LastLevelReported
    BY DEF Inv, SensorInv, Debounced, LastLevelReported
<1> QED
    BY <1>1, Invariance, PTL

(* log_start and log_stop leave the log function and the socket in         *)
(* agreement, for any number of tasks that log meanwhile.                  *)
THEOREM HookIsRestored == Spec => []HookFollowsSocket
<1>1. Inv => HookFollowsSocket
    <2> SUFFICES ASSUME Inv, at = "out", ~overlapped
                 PROVE  /\ hook = "remote" <=> sock >= 0
                        /\ open = {sock} \ {-1}
                        /\ orig \in {"none", "uart"}
                        /\ (\E t \in Loggers : line[t] # "idle") => orig = "uart"
        BY DEF HookFollowsSocket
    <2> QED
        BY DEF Inv, LogInv, Exchanged, LinesReturn, HasSocket
<1> QED
    BY <1>1, Invariance, PTL

(* A device that has started stays up: event_queue exists by then, and     *)
(* log_vprintf never calls itself unless log_start ran twice.              *)
THEOREM StartedStaysUp == Spec => StaysUp
<1> DEFINE Started == app \in {"station", "accessPoint"}
<1>1. Inv /\ [Next]_vars => [Restart /\ Started => overlapped]_vars
    <2> SUFFICES ASSUME Inv, Next, Restart, Started, ~overlapped
                 PROVE  FALSE
        OBVIOUS
    <2>1. restarts' # restarts
        BY DEF Restart, Inv, StartTypeOK
    <2>2. ~StackOverflow
        BY DEF Inv, LogInv, Exchanged, StackOverflow, Overflow
    <2>3. ~PostsNull
        BY DEF Inv, QueueFirst, Working, PostsNull
    <2>4. ~AppFails
        BY DEF AppFails
    <2>5. ~AppMain
        BY <2>1 DEF AppMain, AppSensor, AppCallback, AppDevices, AppQueue, AppTask,
               AppNetwork, StartAP, Connect, Then
    <2>6. ~(SensorOnly \/ SensorPosts \/ NetworkChange \/ PostNetwork)
        BY <2>1 DEF SensorOnly, SensorPosts, NetworkChange, PostNetwork, startVars
    <2>7. ~(Receive \/ LogCallOnly \/ IpcamLogs \/ Lines)
        BY <2>1 DEF Receive, LogCallOnly, IpcamLogs, Lines, startVars
    <2> QED
        BY <2>2, <2>3, <2>4, <2>5, <2>6, <2>7 DEF Next
<1> QED
    BY <1>1, Invariance, PTL DEF Spec, StaysUp
=============================================================================
