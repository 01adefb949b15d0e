------------------------------ MODULE EventLoop ------------------------------
(***************************************************************************)
(* The control plane: ipcam_task and its event_queue (ipcam.c), the lists  *)
(* and the flag of mqtt.c, the callbacks of wifi.c and eth.c, and the      *)
(* motion sensor and heartbeat that feed the queue. The MQTT client of     *)
(* ESP-IDF, its task and the broker are external: the client task runs     *)
(* mqtt_event_cb with the client's API lock held. Publishing, subscribing  *)
(* and unsubscribing take that lock, and destroying the client waits for   *)
(* its task: all of them wait until mqtt_event_cb has returned.            *)
(*                                                                         *)
(* mqtt.c is used by two tasks, ipcam_task and the client task, without a  *)
(* lock. A step is one access to the flag, one operation on a list or one  *)
(* call of the client.                                                     *)
(***************************************************************************)
EXTENDS Integers, Sequences

CONSTANTS Topics,     \* what is subscribed, in the order of the calls
          QueueLen,   \* length of event_queue
          Readings,   \* bound: readings of the motion sensor
          Happenings, \* bound: other things that happen to the device
          None

Topic == {Topics[i] : i \in DOMAIN Topics}

ASSUME EventLoopAssumption ==
    /\ Topics \in Seq(Topic)
    /\ QueueLen \in Nat \ {0}
    /\ Readings \in Nat
    /\ Happenings \in Nat

VARIABLES
    events,        \* event_queue
    todo, at,      \* the calls ipcam_task has left to make, where in the first
    is_connected,  \* mqtt.c
    subs,          \* subscription_list, the topics in order
    pubs,          \* publications_list, the newest first
    client,        \* mqtt_handle's client: "none", "offline" or "online"
    broker,        \* the topics the broker has of this connection
    got,           \* the readings the broker received, in order
    cb, walk,      \* where mqtt_event_cb is, the list nodes it has yet to visit
    net,           \* the event the network event handler is posting, or "none"
    motion,        \* readings taken by motion_sensor_task
    sensing,       \* motion_sensor_task is posting the last one
    beating,       \* heartbeat_timer_cb is posting
    dropping,      \* wifi_reconnect asked for the link to be dropped
    drops,         \* num_disconnections
    left           \* happenings left

ipcamVars == <<todo, at>>
mqttVars == <<is_connected, subs, pubs>>
clientVars == <<client, broker, got, cb, walk>>
sourceVars == <<net, motion, sensing, beating, left>>
reconnectVars == <<dropping, drops>>
vars == <<events, ipcamVars, mqttVars, clientVars, sourceVars, reconnectVars>>

Network == {"netUp", "netDown"}
EventTypes == Network \cup {"mqttUp", "mqttDown", "heartbeat", "message"}
Calling == {"publish", "subscribe", "unsubscribe", "heartbeat", "connect",
          "disconnect", "count"}
Online == <<"Status", 0>>
Uptime == <<"Uptime", 0>>
Reading(n) == <<"MotionDetected", n>>
Publications == {Online, Uptime} \cup {Reading(n) : n \in 1..Readings}
Ops == [op : Calling, arg : Topic \cup Publications \cup {None}]

TypeOK ==
    /\ Len(events) <= QueueLen
    /\ \A i \in DOMAIN events : events[i] \in (EventTypes \X {0})
                                                \cup ({"motion"} \X (1..Readings))
    /\ \A i \in DOMAIN todo : todo[i] \in Ops
    /\ at \in {"start", "send", "queue", "link", "free", "destroy"}
    /\ is_connected \in BOOLEAN
    /\ \A i \in DOMAIN subs : subs[i] \in Topic
    /\ \A i \in DOMAIN pubs : pubs[i] \in Publications
    /\ client \in {"none", "offline", "online"}
    /\ broker \subseteq Topic
    /\ \A i \in DOMAIN got : got[i] \in 1..Readings
    /\ cb \in {"idle", "set", "flush", "free", "up", "clear", "forget", "down",
               "data"}
    /\ net \in Network \cup {"none"}
    /\ motion \in 0..Readings
    /\ {sensing, beating, dropping} \subseteq BOOLEAN
    /\ drops \in 0..255
    /\ left \in 0..Happenings

Init ==
    /\ events = <<>> /\ todo = <<>> /\ at = "start"
    /\ is_connected = FALSE /\ subs = <<>> /\ pubs = <<>>
    /\ client = "none" /\ broker = {} /\ got = <<>>
    /\ cb = "idle" /\ walk = <<>>
    /\ net = "none" /\ motion = 0 /\ sensing = FALSE /\ beating = FALSE
    /\ dropping = FALSE /\ drops = 0
    /\ left = Happenings

(* Mistake: an event is added to a full queue. *)
PostAnyway(e) == events' = Append(events, e)

(* xQueueSend, waiting for ever.                                           *)
Post(e) == Len(events) < QueueLen /\ events' = Append(events, e)

Happens == left > 0 /\ left' = left - 1

-----------------------------------------------------------------------------
(* The sources of events. Each posts from a task of its own and waits for  *)
(* room in the queue as long as it takes.                                  *)

(* event_handler of wifi.c and eth.c: an address was assigned, or the link *)
(* was lost. An address may be assigned again without the link being lost. *)
NetworkChange == /\ net = "none"
                 /\ Happens
                 /\ net' \in Network
                 /\ UNCHANGED <<events, ipcamVars, mqttVars, clientVars, motion,
                                sensing, beating, reconnectVars>>

LinkDropped == /\ net = "none"
               /\ dropping
               /\ net' = "netDown"
               /\ dropping' = FALSE
               /\ UNCHANGED <<events, ipcamVars, mqttVars, clientVars, motion,
                              sensing, beating, left, drops>>

PostNetwork == /\ net # "none"
               /\ Post(<<net, 0>>)
               /\ net' = "none"
               /\ UNCHANGED <<ipcamVars, mqttVars, clientVars, motion, sensing,
                              beating, left, reconnectVars>>

HeartbeatTimer == /\ ~beating
                  /\ Happens
                  /\ beating' = TRUE
                  /\ UNCHANGED <<events, ipcamVars, mqttVars, clientVars, net,
                                 motion, sensing, reconnectVars>>

PostHeartbeat == /\ beating
                 /\ Post(<<"heartbeat", 0>>)
                 /\ beating' = FALSE
                 /\ UNCHANGED <<ipcamVars, mqttVars, clientVars, net, motion,
                                sensing, left, reconnectVars>>

MotionTriggered == /\ ~sensing
                   /\ motion < Readings
                   /\ motion' = motion + 1
                   /\ sensing' = TRUE
                   /\ UNCHANGED <<events, ipcamVars, mqttVars, clientVars, net,
                                  beating, left, reconnectVars>>

PostMotion == /\ sensing
              /\ Post(<<"motion", motion>>)
              /\ sensing' = FALSE
              /\ UNCHANGED <<ipcamVars, mqttVars, clientVars, net, motion,
                             beating, left, reconnectVars>>

-----------------------------------------------------------------------------
(* ipcam_task: each event is handled by a fixed list of calls.             *)

Op(o, a) == [op |-> o, arg |-> a]
ForEach(o, ts) == [i \in DOMAIN ts |-> Op(o, ts[i])]

(* self_publish: status and versions, which stand or fall together.        *)
SelfPublish == <<Op("publish", Online), Op("heartbeat", None)>>
Subscribe == ForEach("subscribe", Topics)
Cleanup == ForEach("unsubscribe", Topics)

(* ipcam_handle_event. What a message or the network does to the capture   *)
(* is Streaming's subject; log_start and log_stop touch nothing here.      *)
Calls(e) ==
    CASE e[1] = "heartbeat" -> <<Op("heartbeat", None)>>
      [] e[1] = "netUp" -> <<Op("connect", None)>>
      [] e[1] = "netDown" -> <<Op("disconnect", None)>> \o Cleanup
      [] e[1] = "mqttUp" -> SelfPublish \o Subscribe
      [] e[1] = "mqttDown" -> Append(Cleanup, Op("count", None))
      [] e[1] = "motion" -> <<Op("publish", Reading(e[2]))>>
      [] e[1] = "message" -> <<>>

Receive == /\ todo = <<>>
           /\ events # <<>>
           /\ todo' = Calls(Head(events))
           /\ events' = Tail(events)
           /\ UNCHANGED <<at, mqttVars, clientVars, sourceVars,
                   reconnectVars>>

Doing(o, place) == todo # <<>> /\ Head(todo).op = o /\ at = place
Arg == Head(todo).arg
Return == todo' = Tail(todo) /\ at' = "start"
Continue(place) == at' = place /\ UNCHANGED todo

(* heartbeat_publish looks at the flag, mqtt_publish looks again. The free *)
(* memory that follows is published the same way and left out.             *)
HeartbeatPublish ==
    /\ Doing("heartbeat", "start")
    /\ todo' = IF is_connected
                  THEN <<Op("publish", Uptime)>> \o Tail(todo)
                  ELSE Tail(todo)
    /\ UNCHANGED <<events, at, mqttVars, clientVars, sourceVars,
                   reconnectVars>>

PublishStart ==
    /\ Doing("publish", "start")
    /\ Continue(IF is_connected THEN "send" ELSE "queue")
    /\ UNCHANGED <<events, mqttVars, clientVars, sourceVars,
                   reconnectVars>>

(* The client refuses a publication while it has no connection (QoS 0, the *)
(* default of config_mqtt_qos_get; the result is not looked at).           *)
Deliver(p) == got' = IF client = "online" /\ p \notin {Online, Uptime}
                        THEN Append(got, p[2]) ELSE got

LockFree == cb = "idle"

PublishSend ==
    /\ Doing("publish", "send")
    /\ LockFree
    /\ Deliver(Arg)
    /\ Return
    /\ UNCHANGED <<events, mqttVars, client, broker, cb, walk, sourceVars,
                   reconnectVars>>

PublishQueue ==
    /\ Doing("publish", "queue")
    /\ pubs' = <<Arg>> \o pubs
    /\ Return
    /\ UNCHANGED <<events, is_connected, subs, clientVars, sourceVars,
                   reconnectVars>>

SubscribeStart ==
    /\ Doing("subscribe", "start")
    /\ IF is_connected THEN Continue("send") ELSE Return
    /\ UNCHANGED <<events, mqttVars, clientVars, sourceVars,
                   reconnectVars>>

SubscribeSend ==
    /\ Doing("subscribe", "send")
    /\ LockFree
    /\ IF client = "online"
          THEN broker' = broker \cup {Arg} /\ Continue("link")
          ELSE UNCHANGED broker /\ Return
    /\ UNCHANGED <<events, mqttVars, client, got, cb, walk, sourceVars,
                   reconnectVars>>

SubscribeLink ==
    /\ Doing("subscribe", "link")
    /\ subs' = Append(subs, Arg)
    /\ Return
    /\ UNCHANGED <<events, is_connected, pubs, clientVars, sourceVars,
                   reconnectVars>>

(* mqtt_subscription_remove: the first node with the topic, if any.        *)
Removed(t, s) ==
    IF \E i \in DOMAIN s : s[i] = t
       THEN LET k == CHOOSE i \in DOMAIN s :
                         s[i] = t /\ \A j \in 1..i - 1 : s[j] # t
            IN  SubSeq(s, 1, k - 1) \o SubSeq(s, k + 1, Len(s))
       ELSE s

UnsubscribeStart ==
    /\ Doing("unsubscribe", "start")
    /\ subs' = Removed(Arg, subs)
    /\ IF is_connected THEN Continue("send") ELSE Return
    /\ UNCHANGED <<events, is_connected, pubs, clientVars, sourceVars,
                   reconnectVars>>

UnsubscribeSend ==
    /\ Doing("unsubscribe", "send")
    /\ LockFree
    /\ broker' = broker \ {Arg}
    /\ Return
    /\ UNCHANGED <<events, mqttVars, client, got, cb, walk, sourceVars,
                   reconnectVars>>

(* mqtt_connect destroys the client it had, which waits for the client's   *)
(* task. Neither the flag nor the subscriptions are touched.               *)
MqttConnect ==
    /\ Doing("connect", "start")
    /\ cb = "idle"
    /\ client' = "offline"
    /\ broker' = {}
    /\ Return
    /\ UNCHANGED <<events, mqttVars, got, cb, walk, sourceVars,
                   reconnectVars>>

DisconnectClear ==
    /\ Doing("disconnect", "start")
    /\ is_connected' = FALSE
    /\ Continue("free")
    /\ UNCHANGED <<events, subs, pubs, clientVars, sourceVars,
                   reconnectVars>>

DisconnectFree ==
    /\ Doing("disconnect", "free")
    /\ subs' = <<>>
    /\ Continue("destroy")
    /\ UNCHANGED <<events, is_connected, pubs, clientVars, sourceVars,
                   reconnectVars>>

DisconnectDestroy ==
    /\ Doing("disconnect", "destroy")
    /\ cb = "idle"
    /\ client' = "none"
    /\ broker' = {}
    /\ Return
    /\ UNCHANGED <<events, mqttVars, got, cb, walk, sourceVars,
                   reconnectVars>>

(* Mistake: the link is dropped in a call that waits for event_handler. *)
CountWaitsForHandler ==
    /\ Doing("count", "start")
    /\ net = "none"
    /\ drops' = (drops + 1) % 256
    /\ dropping' \in IF drops' % 3 = 0 THEN {TRUE, dropping} ELSE {dropping}
    /\ Return
    /\ UNCHANGED <<events, mqttVars, clientVars, sourceVars>>

(* mqtt_on_disconnected counts in a uint8_t. Every third time it drops the *)
(* Wi-Fi link (with Ethernet, wifi_reconnect does nothing).                *)
CountDisconnection ==
    /\ Doing("count", "start")
    /\ drops' = (drops + 1) % 256
    /\ dropping' \in IF drops' % 3 = 0 THEN {TRUE, dropping} ELSE {dropping}
    /\ Return
    /\ UNCHANGED <<events, mqttVars, clientVars, sourceVars>>

IpcamTask ==
    \/ Receive
    \/ HeartbeatPublish
    \/ PublishStart \/ PublishSend \/ PublishQueue
    \/ SubscribeStart \/ SubscribeSend \/ SubscribeLink
    \/ UnsubscribeStart \/ UnsubscribeSend
    \/ MqttConnect
    \/ DisconnectClear \/ DisconnectFree \/ DisconnectDestroy
    \/ CountDisconnection

-----------------------------------------------------------------------------
(* The client's task: the connection to the broker comes and goes, and     *)
(* mqtt_event_cb is run for each change and each message.                  *)

Goto(place) == cb' = place
ClientOnly == UNCHANGED <<ipcamVars, sourceVars, reconnectVars>>

Connected == /\ cb = "idle" /\ client = "offline"
             /\ left > 0 /\ left' = left - 1
             /\ client' = "online"
             /\ broker' = {}
             /\ Goto("set")
             /\ UNCHANGED <<events, ipcamVars, mqttVars, got, walk, net, motion,
                            sensing, beating, reconnectVars>>

SetConnected == /\ cb = "set"
                /\ is_connected' = TRUE
                /\ walk' = pubs
                /\ Goto("flush")
                /\ UNCHANGED <<events, subs, pubs, client, broker, got>>
                /\ ClientOnly

(* mqtt_publications_publish calls mqtt_publish for each node.             *)
Flush == /\ cb = "flush"
         /\ IF walk = <<>>
               THEN Goto("free") /\ UNCHANGED <<walk, pubs, got>>
               ELSE /\ walk' = Tail(walk)
                    /\ IF is_connected
                          THEN Deliver(Head(walk)) /\ UNCHANGED pubs
                          ELSE pubs' = <<Head(walk)>> \o pubs /\ UNCHANGED got
                    /\ UNCHANGED cb
         /\ UNCHANGED <<events, is_connected, subs, client, broker>>
         /\ ClientOnly

(* Mistake: publications_list is not freed. *)
KeepPublications == /\ cb = "free"
                    /\ Goto("up")
                    /\ UNCHANGED <<events, mqttVars, client, broker, got, walk>>
                    /\ ClientOnly

FreePublications == /\ cb = "free"
                    /\ pubs' = <<>>
                    /\ Goto("up")
                    /\ UNCHANGED <<events, is_connected, subs, client, broker,
                                   got, walk>>
                    /\ ClientOnly

(* Mistake: the event is posted without waiting, and lost if need be. *)
PostUpOrLose == /\ cb = "up"
                /\ \/ Post(<<"mqttUp", 0>>)
                   \/ Len(events) = QueueLen /\ UNCHANGED events
                /\ Goto("idle")
                /\ UNCHANGED <<mqttVars, client, broker, got, walk>>
                /\ ClientOnly

PostUp == /\ cb = "up"
          /\ Post(<<"mqttUp", 0>>)
          /\ Goto("idle")
          /\ UNCHANGED <<mqttVars, client, broker, got, walk>>
          /\ ClientOnly

(* The connection is lost, or could not be made.                           *)
Disconnected == /\ cb = "idle" /\ client # "none"
                /\ left > 0 /\ left' = left - 1
                /\ client' = "offline"
                /\ broker' = {}
                /\ Goto("clear")
                /\ UNCHANGED <<events, ipcamVars, mqttVars, got, walk, net,
                               motion, sensing, beating, reconnectVars>>

ClearConnected == /\ cb = "clear"
                  /\ is_connected' = FALSE
                  /\ Goto("forget")
                  /\ UNCHANGED <<events, subs, pubs, client, broker, got, walk>>
                  /\ ClientOnly

FreeSubscriptions == /\ cb = "forget"
                     /\ subs' = <<>>
                     /\ Goto("down")
                     /\ UNCHANGED <<events, is_connected, pubs, client, broker,
                                    got, walk>>
                     /\ ClientOnly

PostDown == /\ cb = "down"
            /\ Post(<<"mqttDown", 0>>)
            /\ Goto("idle")
            /\ UNCHANGED <<mqttVars, client, broker, got, walk>>
            /\ ClientOnly

(* mqtt_message_cb posts one event for each node that matches.             *)
MessageArrives(t) ==
    /\ cb = "idle" /\ client = "online" /\ t \in broker
    /\ left > 0 /\ left' = left - 1
    /\ walk' = SelectSeq(subs, LAMBDA u : u = t)
    /\ Goto("data")
    /\ UNCHANGED <<events, ipcamVars, mqttVars, client, broker, got, net,
                   motion, sensing, beating, reconnectVars>>

PostMessage == /\ cb = "data"
               /\ IF walk = <<>>
                     THEN Goto("idle") /\ UNCHANGED <<events, walk>>
                     ELSE /\ Post(<<"message", 0>>)
                          /\ walk' = Tail(walk)
                          /\ UNCHANGED cb
               /\ UNCHANGED <<mqttVars, client, broker, got>>
               /\ ClientOnly

ClientTask ==
    \/ SetConnected \/ Flush \/ FreePublications \/ PostUp
    \/ ClearConnected \/ FreeSubscriptions \/ PostDown
    \/ PostMessage

Happening == \/ NetworkChange \/ HeartbeatTimer \/ MotionTriggered
             \/ Connected \/ Disconnected
             \/ \E i \in DOMAIN Topics : MessageArrives(Topics[i])

-----------------------------------------------------------------------------
Next == \/ Happening
        \/ LinkDropped \/ PostNetwork \/ PostHeartbeat \/ PostMotion
        \/ IpcamTask
        \/ ClientTask

(* FreeRTOS runs every ready task. A poster waits as long as the queue is  *)
(* full. What happens to the device is not fair.                           *)
Fairness == /\ WF_vars(IpcamTask)
            /\ WF_vars(ClientTask)
            /\ WF_vars(LinkDropped)
            /\ WF_vars(PostNetwork) /\ WF_vars(PostHeartbeat) /\ WF_vars(PostMotion)

Spec == Init /\ [][Next]_vars /\ Fairness

-----------------------------------------------------------------------------
(* Nothing is left to do for any task.                                     *)
Settled == /\ todo = <<>> /\ events = <<>>
           /\ cb = "idle" /\ net = "none" /\ ~dropping
           /\ ~sensing /\ ~beating

InList(t) == \E i \in DOMAIN subs : subs[i] = t

(* However connections and networks came and went, and whichever of their  *)
(* events ipcam_task handled late: a device that has settled with a        *)
(* connection is subscribed to every topic, with the broker and in the     *)
(* list that finds the callbacks (mqtt_on_connected, cleanup).             *)
SubscribedWhenSettled ==
    Settled /\ client = "online" =>
        \A t \in Topic : t \in broker /\ InList(t)

(* No reading of the motion sensor reaches the broker twice, although a    *)
(* queued one is published from a list that is only freed afterwards       *)
(* (MQTT_EVENT_CONNECTED in mqtt_event_cb).                                *)
AtMostOnce == \A i, j \in DOMAIN got : got[i] = got[j] => i = j

(* ipcam_task is stuck in a call for ever only if that call waits for the  *)
(* client's task (esp_mqtt_client_publish, _subscribe, _unsubscribe or     *)
(* _destroy), that task waits in a callback for room in event_queue, and   *)
(* the queue is full, which only ipcam_task could change.                  *)
WaitsForClient == \/ \E o \in {"publish", "subscribe", "unsubscribe"} : Doing(o, "send")
                  \/ Doing("connect", "start")
                  \/ Doing("disconnect", "destroy")
Jammed == /\ Len(events) = QueueLen
          /\ cb \in {"up", "down", "data"}
          /\ WaitsForClient
StuckOnlyWhenJammed == <>[](todo # <<>>) => <>[]Jammed

(* What ipcam.c says of heartbeat_publish, "Only publish uptime when       *)
(* connected, we don't want it to be queued": no uptime is ever in         *)
(* publications_list.                                                      *)
UptimeNotQueued == \A i \in DOMAIN pubs : pubs[i] # Uptime

(* What mqtt.c says of mqtt_publish, "If we're currently not connected,    *)
(* queue publication": a reading is handed to the client only while that   *)
(* has a connection. The client's task is not in the middle of telling     *)
(* mqtt.c about a change then, as PublishSend has the API lock.            *)
NotConnectedQueues ==
    [][PublishSend /\ client # "online" => Arg \in {Online, Uptime}]_vars

(* What the README says of MotionDetected, "depicting if motion was        *)
(* detected": a settled broker that has the newest reading has it last.    *)
NewestReadingLast ==
    Settled /\ (\E i \in DOMAIN got : got[i] = motion) => got[Len(got)] = motion
=============================================================================
