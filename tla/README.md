# Formal model of esp32-ipcam

TLA+ specifications of the control logic of esp32-ipcam (`src/main`), model
checked with TLC on small instances, and theorems about them proved with TLAPS
for every value of the constants. The program is an ESP-IDF application: a
handful of FreeRTOS tasks that share queues, semaphores and plain global
variables. The models follow the code task by task; a step is one access to
shared state, one call that waits, or one flash operation.

## 1. The system

| Part | State it keeps | Operations | Talks to |
| --- | --- | --- | --- |
| Configuration store, `config.c` | partitions `fs_0`, `fs_1`, NVS byte `active_part`, the parsed JSON, an update handle | `config_initialize`, `config_update_begin/write/end`, getters | `ota.c` |
| OTA, `ota.c` | one global `ota_ctx` (`in_progress`, `ops`, `bytes_written`, `handle`) | `ota_open`, `ota_write`, `ota_close`, `ota_download` + `ota_task` | called from the HTTP server's task, from `ipcam_task` and from `ota_task` |
| HTTP server, `httpd.c` | a reset timer per successful upload | upload handlers, `/still`, `/fs` (read, write, delete), status, restart | `ota.c`, camera driver, SPIFFS, `ipcam.c` callbacks |
| Camera, `camera.c` | binary semaphore `capture_semaphore`, `is_capturing` | `camera_start`, `camera_stop`, capture task | driver's frame buffers, `rtp.c` |
| RTP sender, `rtp.c` | two queues, a counting semaphore, a static queue variable, two static sequence numbers | `rtp_send_jpeg`, `rtp_send_opus`, `stream_task`, which parses and packetizes | sockets |
| Microphone, `microphone.c` | a gate like the camera's, one sample buffer per read | `microphone_start`, `microphone_stop`, capture task | I2S driver, audio encoder |
| Audio encoder, `audio_encoder.c` | `frames_queue`, `pending_frames`, `current_frame`, the repacketizer | `audio_encoder_encode`, `audio_encoder_task` | Opus, `rtp.c` |
| IPCAM task, `ipcam.c` | `event_queue`, ten places; `num_disconnections` | `ipcam_task` runs one handler per event; callbacks of all other parts post events and wait for room | all parts |
| MQTT wrapper, `mqtt.c` | `is_connected`, `subscription_list`, `publications_list`, `mqtt_handle`, no lock | `mqtt_connect/disconnect/subscribe/unsubscribe/publish` (from `ipcam_task`), `mqtt_event_cb` (client's task) | ESP-IDF's MQTT client |
| Wi-Fi, Ethernet | callbacks | `event_handler` in the default event loop's task, `wifi_reconnect` | `ipcam.c` |
| Motion sensor, `motion_sensor.c` | a queue of one, the callback | interrupt handler, `motion_sensor_task` | callback of `ipcam.c`, in its own task |
| Remote log, `log.c` | the exchanged log function `orig_esp_log`, the socket | `log_start`, `log_stop` (from `ipcam_task`), `log_vprintf` (from every task) | ESP-IDF's log |
| `app_main`, `ipcam.c` | the order of initialisation | brings all parts up, then the network or the access point | all parts |
| Resolver, web page, host tools | see section 7 | | |

What is hard, by kind (PROJECT.json lists each hazard at its line):

- **Unlocked shared state**: `ota_ctx` between three tasks; the lists and the
  flag of `mqtt.c` between two; the static `queue` of `add_frame_to_queue`.
- **Crashes**: power may be cut anywhere in an update of the flash.
- **Partial failure**: writes whose failure is not looked at, a handle freed
  on a failed write and used again, a capture stopped for an update that is
  then refused.
- **Limits**: two frame buffers, queues that refuse or block, a semaphore that
  counts to the sum of two queues.
- **Order**: events handled after the state they report has changed again,
  publications kept newest first; a callback installed before the queue it
  posts to exists; an edge of a pin while its interrupt is disabled.
- **Two counters for one thing**: `current_frame` and the repacketizer's own
  count; the sequence number kept between pictures and the one in the header.
- **Waiting**: a client that falls silent, a semaphore wait that times out,
  tasks that wait for each other.

What makes each part correct: the *store* boots the last complete configuration
wherever power was cut; *OTA* reports success only for a whole image, ends a
download that has started, and leaves neither `in_progress` set nor the capture
stopped behind an update that is over; the *streaming* path loses no wake-up,
releases each buffer at most once and keeps count of the tokens of its gate;
*audio* sends packets of successive frames with the time of the first; the *RTP
sender* cuts a picture as RFC 2435 has it and numbers packets without gaps; the
*event loop* ends up subscribed and delivers a reading at most once; the *motion
sensor* ends with the level of its pin reported; the *remote log* leaves the log
function as it found it; a device that has *started* is not brought down by an
event or a line of its log.

The code does not keep all of this without exception. A download whose task is
not created keeps `in_progress` set and the capture stopped; a web client that
falls silent keeps `in_progress` set, and updates refused, for as long as it
likes; a camera or microphone whose stop timed out may go on through the next stop
as well; the event loop hangs when the MQTT client's callback waits for room in a
full queue, and with it every update that is to restart the device; an edge, a
second `log_start` or an early trigger have their windows. Each property of
section 4 names its exceptions.

## 2. Modules

| Module | Models | Used by |
| --- | --- | --- |
| `AtomicConfig` | abstract promise: a configuration replaced in one atomic step | refined by `ConfigStore` |
| `ConfigStore` | `config.c`, and the parts of `ota.c` and `httpd.c` that write the flash | `MCConfigStore`, `ConfigStoreProofs` |
| `Ota` | `ota.c`, `ota_handler`, the OTA handlers of `ipcam.c` | `MCOta`, `OtaProofs` |
| `Streaming` | `camera.c`, the queueing half of `rtp.c`, their users | `MCStreaming`, `StreamingProofs` |
| `RtpSender` | the sending half of `rtp.c`: `parse_jpeg`, RFC 2435 packets, Opus packets | `MCRtpSender`, `RtpSenderProofs` |
| `AudioStream` | abstract promise: an ordered stream of packets | refined by `AudioPath` |
| `AudioPath` | `microphone.c` and `audio_encoder.c` | `MCAudioPath`, `AudioPathProofs` |
| `EventLoop` | `ipcam_task`, `mqtt.c`, the network callbacks, external MQTT client and broker | `MCEventLoop`, `EventLoopProofs` |
| `MotionSensor` | `motion_sensor.c` | composed by `Startup` |
| `RemoteLog` | `log.c` | composed by `Startup` |
| `Startup` | `app_main` from the motion sensor on, the two modules above, the events between them | `MCStartup`, `StartupProofs` |
| `ConfigStoreProofs`, `OtaProofs`, `StreamingProofs`, `RtpSenderProofs`, `AudioPathProofs`, `EventLoopProofs`, `StartupProofs` | theorems, each about the module in its name | |
| `MC*` | declare the model values of the `.cfg` files and tuples built from them | |

Definitions that begin with "Mistake:" in their comment are not part of any
specification. Each is a mutation of the definition that follows it and shows,
when put in its place, that some property can fail.

### ConfigStore

`part[p]` is what partition *p* holds and whether mounting it and parsing its
`config.json` succeeds; `nvs` is the byte `active_part`; both survive
`PowerLoss`, everything else does not. `Boot` is `config_initialize`:
`BootActive`, `BootFallback` (which formats what could not be mounted and may
fail to record its choice) and `BootNone`. An update is `OtaOpen`,
`UpdateBegin` (the erase has started), `EraseDone` or `EraseFails`, then one
`UpdateWrite` or `UpdateWriteFails` per chunk, and `OtaClose`, which stands for
`ota_close` with `config_update_end`. `update.written` is both `bytes_written`
counters, which agree within a session. `handle = "freed"` is the dangling
pointer left by a failed `config_update_write`; using it fails the operation or
aborts the program (`UseAfterFree`, `PowerLoss`). That freed memory happens to
hold a partition whose size matches the count is assumed not to happen. An
image is a model value with a size in chunks; `Cut` is a partition filled with
the beginning of an image too long for it.

### Ota

Any number of web uploads and downloads of either type. `OpenCheck` is the test
in `ota_open`, `OpenOps`, `OpenFlag` and `OpenBytes` its three assignments;
`SpawnTask` and `SpawnFails` are the creation of `ota_task`, whose result
`ota_download` ignores; `OtaWrite`, `Begin`, `Write`, `WriteFails` the steps of
`ota_write`; `CloseClear`, `CloseRead`, `End`, `EndFails` those of `ota_close`. Every step uses `ctx` as it is at that moment,
as the code does; an update handle remembers which operations created it, its
partition and its count, and is `Usable` only with those operations and while
not freed. Anything else fails or restarts the device (`WildHandle`).
`ipcam_task` appears with its queue: a requested download is an event, and so
is every completion. The events of other parts are left out, except that handling
one may never return (`OtherHangs`), at any time `ipcam_task` is not handling an
update: `EventLoop` shows how that comes about. A flash partition records which session wrote which chunk,
so that mixed images are seen. Ghosts: `met`, sessions that were open beside
another one; `owner`, the session that last set `in_progress`; `beside`, the owner
at the time a session was refused; `stopper`, the download the capture was last
stopped for. One boot is modelled; `up` becomes FALSE at `abort()`.

### Streaming

`gate` is `capture_semaphore`; `cam`, `enc` and `stream` are the places of the
capture, encoder and stream task; `route` is the static `queue` of
`add_frame_to_queue`. Whether the compiled code reads it again after the
assignment is not defined, so a send may use the producer's own queue or the one
`route` names now. Frame buffers and packets are model values that move between
holders. `surplus`, `strayed` and `lost` are ghosts: a stop that timed out and
whose token is still about, a frame sent to the queue of the other kind, and
frames refused by a queue and never released.

### RtpSender

The step `SendAndFree` of `Streaming`, seen from inside. A picture is a sequence
of JPEG segments and the length of its scan; `Visited` are the segments the loop
of `parse_jpeg` gets to. `StartPicture` parses and fills the headers, `SendPacket`
and `SendFails` are one turn of the loop of `rtp_send_jpeg_data`, with the offset
(24 bits), the sequence number (16) and the width and height (8 each) kept to the
width they have in the header. The constants are the widths and the sizes of the
code's `#define`s and structs, so that the instance can make them small.

### AudioPath

`gate` and `capturing` are those of `microphone.c`, with the surplus token of a
stop that timed out as in `Streaming`. A frame is named by the number of the read
that took it, which is also its time and its buffer. `MicTake` allocates, or does
not when the heap is used up; `MicReadFails` and a full queue leave the buffer
behind, as the code does. `EncEncode` is `opus_encode_frame` with its four
endings. `pending` says which frame each slot of `pending_frames` holds and
`repack` which slots the repacketizer points to: that the frames it points to
are still there when the packet is made is a property, not an assumption.

### Startup, MotionSensor, RemoteLog

`app` is the call `app_main` makes next; each may abort (`AppFails`). `config` is
what of the configuration decides here. `Restart` puts everything that is in RAM
back; flash and the pin stay. The tasks that `app_main` has already started run
meanwhile. Any callback may find `event_queue` missing (`PostsNull`), the sensor's
as well as the network's; `StaysUp` says when none does. `MotionSensor` has the interrupt handler (`Edge`) and the task's steps
`SensorReceive` ... `SensorEnable`; that a pending edge is discarded when the
interrupt is enabled again is what ESP-IDF's `gpio_intr_enable` does. `RemoteLog`
splits `orig_esp_log = esp_log_set_vprintf(log_vprintf)` into the exchange and the
assignment, and a line of `log_vprintf` into the send and the call of
`orig_esp_log`, which any number of tasks may be inside.

### EventLoop

`ipcam_task` takes an event and has a list of calls to make (`Calls`); each call
of `mqtt.c` is broken where it reads the flag, works on a list or calls the
client. The client's task runs `mqtt_event_cb` step by step (`cb`). The client,
the broker and the connection between them are external: `Connected`,
`Disconnected` and what `Deliver`, `MessageArrives` say of the broker. Assumed
of the client: publications are QoS 0 (the default) and refused while it has no
connection, a subscription is refused only then, `esp_mqtt_client_destroy`
waits until the client's task has left its callback, and a new connection
starts without subscriptions. The client runs `mqtt_event_cb` with its API lock
held, and publishing, subscribing and unsubscribing take that lock: `PublishSend`,
`SubscribeSend` and `UnsubscribeSend` wait until the callback has returned
(`LockFree`), as destroying the client does. The two OTA topics
and the management topics are two representatives, subscribed in the order of
the code.

## 3. Runs

| Run | Instance | States | Shows |
| --- | --- | --- | --- |
| `config_store` | 5 images (two good, one that does not parse, one short, one long), 2 chunks | 80 240 | section 4 |
| `ota_sessions` | one upload, one download, each of either type, 2 chunks, queue of 1 | 961 264 | section 4 |
| `ota_stream` | as `ota_sessions`, queue of 2 | | **violated**: a download without a task leaves the capture stopped |
| `ota_overlap` | as `ota_sessions`, queue of 2 | | **violated**: a partition that was erased under its session becomes active |
| `streaming` | 2 frame buffers, 2 packets, queues of 2 and 1 | about 174 000 | section 4 |
| `event_loop` | 2 topics, queue of 2, 1 reading, 5 happenings | 180 437 | section 4 |
| `mqtt_queueing` | as `event_loop` | | **violated**: a reading is dropped instead of queued |
| `mqtt_order` | as `event_loop`, 2 readings | | **violated**: the older reading arrives last |
| `uptime_queued` | as `event_loop` | | **violated**: an uptime is queued |
| `audio` | queue of 2, 3 frames to a packet, room for 4 buffers, 6 reads | 131 939 | section 4 |
| `rtp` | packets of 8 bytes (6 beside the headers, 3 beside the tables), 10 pictures, 2 Opus packets, 3 jobs | 33 745 | section 4 |
| `startup` | 9 configurations, 2 edges, queue of 2, 3 changes of the network, 2 tasks that log, 1 restart | 816 976 | section 4 |

Why the bounds are enough. *ConfigStore*: two chunks are the fewest with a
"first" and a "last" that differ, so that an update can fail before, between and
after writes, and the long image can be cut off exactly at the end. There is no
bound on crashes, updates or edits. *Ota*: every race is between two sessions,
and one of each kind covers all pairs that can overlap (the HTTP server handles
one upload at a time, two requests over MQTT are taken by one task). A queue of
one is full with the completion of the upload when the download wants to report,
so that both ways for a download to end, with and without room for its report,
occur. That a download refused beside another one does not keep the capture
stopped is proved (`CaptureReturns`). *Streaming*: two buffers is what the code configures (`fb_count`); the
queues are shorter than its ten places so that the audio queue does run full;
`VideoLen` is not less than the number of buffers, as in the code. *EventLoop*:
`Happenings` bounds the changes of network and connection, heartbeats and
messages: five suffice for connect, lose and reconnect with an event still
queued. A queue of two makes it run full, which the ten places of the code do
too, only later. *AudioPath*: six reads make two packets when nothing fails, and
leave a failure at every place of a packet with a packet after it; four buffers
are used up by the leaks of a full queue and failed reads. *RtpSender*: the scans
end one byte before, at and after the end of a first packet with tables (3), of a
second (9) and of one without tables (6), and there is an empty one; four
sequence numbers wrap within two pictures. One picture is 2048 pixels wide. *Startup*: two edges are a
trigger and a bounce, at any two of the places the task can be; three changes of
the network make start, stop, start and start, start, stop; a second task that
logs stands for all others, which do not interact.

`CHECK_DEADLOCK FALSE` is set where the model really ends: after a restart and
with all sessions done or `ipcam_task` hanging in `Ota`, with the bounds used up or
`ipcam_task` jammed in `EventLoop`, with the bounds used up in `RtpSender` and `Startup`. `AudioPath`
never stops: `ipcam_task` can always start or stop the microphone.

## 4. Properties

**ConfigStore.** `TargetIsInactive`: no update erases or writes the partition NVS
names. `AtomicUpdate` (refinement): seen through the next boot, the flash of a
sound device is replaced in one step, by `config_update_end`, with a whole image
or not at all; the two exceptions the code has, an image cut off at the end of
the partition and `config.json` edited in place, are named in `AtomicConfig`.
`CommitIsWhole`: the partition that becomes active holds one image from first to
last chunk although a download carries on after failed writes.

**Ota.** `FlagHasOwner`: while `in_progress` is set, the session that last set it
is still open, or is a download whose task was not created; however sessions slip
past the check together, none leaves the flag set behind it. `AloneMeansWhole`: a
session that reports success and was alone has left exactly its image in the
partition the device will use. `StreamsReturn`: once all is quiet the capture runs
again, unless the very download it was last stopped for has no task, or was
refused beside a web upload or beside a download without a task. The first and
the last are consequences of `ota.c:240`, which `ota_stream` exhibits; the second
comes of `ipcam.c:133-139`, where the capture is stopped whatever `ota_download`
returned. A download refused beside another download has no such effect.
`SuccessPending`: after a reported success the device restarts, or the timer or
the completion that makes it do so is still there; whether `ipcam_task` gets to
it is a matter of `EventLoop`. `DownloadSettles`: a download with a task ends, or
waits with its report for a full queue that a hanging `ipcam_task` does not empty.

**Streaming.** `TokenPerFrame`: tokens of `queue_semaphore` match queued frames.
`WokenForFrame`, `SignalSucceeds`: the `continue` in `stream_task` and the second
error path of `add_frame_to_queue` are dead code. `GateBalance`: the tokens of the
capture gate are one while the camera is started, none while it is stopped, and
never more than one too many, left by a stop that timed out. While that one is
about, the next stop may take it, report success and leave the capture going on:
the property bounds the damage, it does not say that a stop ends the capture.
`OneHolder`: every buffer has one holder, and no queue holds one twice; a frame
that a full queue refused is held by nobody who returns it (`lost`). `VideoNeverRefused`: a picture is lost only if a frame strayed
through the unlocked static variable. `VideoDrains`: with a silent microphone
every queued picture is sent and released. `StartIsEffective`: a started camera
gets past the gate.

**EventLoop.** `SubscribedWhenSettled`: a device that has settled with a
connection is subscribed to everything, with the broker and in its own list,
however late the events were handled. `AtMostOnce`: no reading reaches the broker
twice. `StuckOnlyWhenJammed`: if `ipcam_task` is busy for ever, it is because the
queue is full, the client's task waits in its callback for room in it, and
`ipcam_task` waits for the client's task, to destroy it or for its API lock. That
hang is reachable by publishing, by subscribing and by reconnecting (a full queue
and a message, a connection or a disconnection are enough); the property says that
nothing else hangs it, no lost wake-up and no call that waits for an event.

**RtpSender.** `SentAsFragments`: the n-th packet of a picture is the n-th
fragment of a formula, and all of them are sent unless a packet was refused. `VideoContinues`:
the numbers of the video stream go on across refused packets and pictures, and a
broken off picture is recognizable. `AudioGapsAreDrops`: gaps in the numbers of
the audio stream count what was dropped.

**AudioPath.** `OrderedStream` (refinement): packets of always as many frames, in
order, with the time of the first. `CountersAgree`: `current_frame` and the
repacketizer stay in step through every failure. `FrameInOnePlace`: no frame is
lost silently, sent twice or overwritten in its slot. `BufferHeld`: no buffer is
used after it was freed, and only the two leaks of the capture task exist.
`GateBalance`: as for the camera. `QueuedIsFreed`: the buffer of a queued frame is
freed in the end.

**Startup.** `LastLevelReported`: while the sensor's task waits, the level last
reported is the pin's, with the one exception of an edge between reading and
`gpio_intr_enable`. `HookFollowsSocket`: what `log_start` and `log_stop` leave
behind fits together through failures, as long as no `log_start` comes on top of
another. `StaysUp`: once `app_main` is done, no callback finds `event_queue`
missing, and no line of the log runs into `log_vprintf` again, unless `log_start`
ran on top of another. Both restarts are reachable otherwise: the sensor's callback
is installed at `ipcam.c:603` and the queue created at `ipcam.c:636`, and a second
GOT_IP is enough for the second `log_start`. The property is about events and the
log alone: restarts for other reasons are in `Ota` (`WildHandle`, a completed
update) and `ConfigStore` (`UseAfterFree`, `PowerLoss`).

**Violated runs** check what a text of the repository says and the code does not
do. PROJECT.json quotes each text under "findings".

| Run | Property | Text |
| --- | --- | --- |
| `ota_stream` | `FailedUpgradeRestartsStream` | `ipcam.c:114` |
| `ota_overlap` | `EntirePartitionWritten` | `config.c:601` |
| `mqtt_queueing` | `NotConnectedQueues` | `mqtt.c:221` |
| `mqtt_order` | `NewestReadingLast` | README lines 20-21 |
| `uptime_queued` | `UptimeNotQueued`: `heartbeat_publish` and `mqtt_publish` read the flag one after the other | `ipcam.c:62` |

Two more places where the code does not do what README.md offers show in the
models without a property, as one would only restate an assignment or a guard.
`Header` of `RtpSender` has a width of 0 for a picture of 2048 pixels (README lines
174-178): the field is one byte of 8-pixel blocks. `AppNetwork` of `Startup` goes
on to `startAP` for a configuration with an `eth` section and no SSID of its own
(README lines 69 and 125), where Wi-Fi was never initialised: the call fails and
the device restarts.

## 5. Fairness

FreeRTOS runs every ready task: weak fairness of the steps of each task.
Operations with a timeout end: flash, `esp_camera_fb_get`, the HTTP client's
requests, `camera_stop`. Not fair, because nothing in the code makes it happen:
the next chunk or the end of a web upload (`ota_handler` retries a receive that
timed out for ever), audio packets, requests for pictures, starting and stopping
the camera, and everything that happens to the network. In `AudioPath` the capture
task, the encoder's task and a pending `microphone_stop` are weakly fair: a read
and a stop end after a second at the latest; starting and stopping are not fair.
`RtpSender` and `Startup` state safety only. In `Ota` the hang of `ipcam_task` is an
action (`OtherHangs`), after which no step of that task is enabled: its fairness
promises nothing then, and the liveness properties say so. Posting to a full queue
is weakly fair only: a poster needs room that stays.

## 6. Proofs

Every invariant that a run checks is also a theorem, and so are both refinements
and the action properties `CommitIsWhole` and `StaysUp`. Theorems hold
for every value of the constants that satisfies the named assumptions, which TLC
evaluates on every run:

- `ConfigAssumption`, `StreamingAssumption`, `OtaAssumption`: sets disjoint from
  each other and from the marker values, positive lengths, good images exactly as
  long as a partition.
- `BuffersFit` (`Streaming`): the driver has at most as many frame buffers as the
  video queue has places. `camera.c` configures two, `rtp.c` ten.
- `RtpSenderAssumption`: the headers and the tables leave room in a packet, and a
  scan fits the offset's field. `camera.c` takes sizes that are multiples of 8.
- `AudioPathAssumption`, `EventLoopAssumption`, `MotionSensorAssumption`,
  `RemoteLogAssumption`, `StartupAssumption`: bounds are numbers, a queue and a
  packet hold at least one, the topics are a sequence of topics.

*ConfigStoreProofs* proves `TypeCorrect`, `TargetIsSafe`, `CommitsAreWhole` and
`UpdateIsAtomic`. None of these is inductive alone. The invariant adds: without
power nothing is mounted or open (`Unpowered`); the phase of a session, its handle
and its target fit together (`SessionShape`); as long as no chunk was lost, chunks
sent and chunks written agree (`GapCounts`); what the target holds follows from
the count of chunks written (`TargetContents`, the heart of it); only an image
label that is good loads (`FlashShape`). Lemma `FullTarget` says what a partition
filled to its end contains. The refinement maps each action to a step of
`AtomicConfig` or a stutter, by cases on `Mode`.

*OtaProofs* proves `TypeCorrect`, `FlagAlwaysOwned`, `AloneIsWhole`,
`CaptureReturns` and `SuccessIsPending`. What makes the unlocked `ota_ctx` provable is `Meetings`: two
sessions that are under way or have succeeded have met. So of a session that met
nobody everything in `ota_ctx` is its own, and `Alone` says what that is at each
place: `ops`, `in_progress`, the handle, and (`Filling`) that the partition of its
handle holds nothing but its own chunks, each in its place as long as no write
failed. `Outcomes` ties results to places, `QueuedOnce` says that a request is
taken from `event_queue` once. `FlagInv` is `FlagHasOwner` with what it needs of
`owner`: the assignment of the flag makes its session the owner, and only the
session's own close ends it, which clears the flag. `StreamsInv` is `StreamsReturn`
before all is quiet: with the capture stopped, the download it was stopped for, or
the one that was refused beside, still owes a completion or has posted it
(`Owes`, `Posted`, `Returning`), or one of the exceptions is the case. It speaks of
the download that `ipcam_task` is just starting, too: a completion it posts before
the capture is stopped is still in `event_queue` then, as only `ipcam_task`, which
is busy, takes it out. `SuccessPending` is inductive with the others: only a report
makes a success of a session (`NotYetWon`), and no step loses a completion
(`CompletionKept`).

*StreamingProofs* proves `TypeCorrect`, `TokensCountFrames`, `NoIdleWakeup`,
`NoFailedSignal`, `GateIsBalanced`, `FramesHaveOneHolder` and `PicturesAreQueued`.
The invariant joins `TokenPerFrame` with
`WokenForFrame` (the count shows that a woken task finds a frame in one of the
queues, but not that the queue it looks into last still has it), the frames in the
tasks' hands (`Hands`), and the shape of a pending stop (`StopsStarted`).
`SignalSucceeds` follows: a producer about to signal accounts for a queued frame
that has no token yet, so the semaphore is below its limit. For the buffers the
invariant adds `HolderInv`: the eight holders (the driver, three tasks, `/still`,
two queues, and what was lost) are a partition of the frames, a task that is
between two frames has none, and as long as none strayed each queue has frames of
its own kind. A step moves one frame from one holder to another (`Move`), so the
partition stays. `PicturesAreQueued` is then a pigeonhole argument (`VideoHasRoom`):
a full queue would hold more pictures than there are buffers.

*RtpSenderProofs* proves `TypeCorrect`, `VideoNumbersContinue`,
`AudioNumbersCount` and `PicturesAreFragments`. Numbers are
remainders, so the first lemmas are about those: a number below the modulus is its
own remainder (`Below`), and the remainder of a successor (`ModNext`). `LastPacket`
says of the last packet how the one after it must begin, within a picture
(`Follows`) and after its end (`Ended`); `Underway` that the offset and what is
left make the whole scan, which is why the offset never wraps; `AudioCount` that
the number is a count of jobs. For the fragments, `Loop` says that with n packets
of a picture sent the loop stands at the n-th cut of the formula. `Ceiling` (a
rounded-up quotient is the least number of parts that is enough) shows that the
loop's test for the last packet and the formula's count agree, and `NextFragment`
that one turn of the loop cuts off the next fragment.

*AudioPathProofs* proves `TypeCorrect`, `GateIsBalanced`, `CountersStayInStep`,
`BuffersAreHeld`, `StreamIsOrdered` (the refinement) and `FramesInOnePlace`. One
idea carries the refinement and the ownership of the buffers: along the way of the sound the numbers of the frames only grow. `Before(f)`
says that `f` was read before everything in the queue and at the microphone;
`QueueOrdered` orders the queue, `Taken` the slots in use and the encoder's frame
after them, `SentOK` puts all of them after the last packet. So the buffer the
encoder frees is nobody else's, and the packet made from the slots continues the
stream (`PacketFacts`). That the slots of a packet are those below
`current_frame` is `CountersAgree`, which the invariant therefore includes. An
error of Opus leaves all of it as it was, because a slot is overwritten before
`current_frame` counts it (`DroppedInv`). `FramesInOnePlace` needs `PlaceInv`, the
five places pairwise apart, and from the order only that no two of those who hand
a frame on have the same one (`WaitingApart`).

*EventLoopProofs* proves `TypeCorrect`, `SettledIsSubscribed` and `NoReadingTwice`,
with one part of the invariant for each. `Tracked`: a reading
is in one of five places (with the sensor, in `event_queue`, in a call, in
`publications_list` or the list being walked, with the broker) and once in it;
from the moment a list is walked it is only freed, so what is still linked there
does not count.
`SubscribeInv` has three cases for a device with a connection: `ipcam_task` is
about to give it up; or the event that reports it is still queued with nothing
after it that would undo it; or `ipcam_task` knows, and each topic is subscribed or
among the calls to come. `FlagInv` relates `is_connected` to the connection.
That removing a topic from a list leaves a list rests on its first occurrence
(lemma `Least`, from the well-foundedness of the naturals).

*StartupProofs* proves `TypeCorrect`, `LevelIsReported`, `HookIsRestored` and
`StartedStaysUp`. The invariant has a part for each composed module.
`Debounced` follows the pin through a run of `motion_sensor_task`: before its
reading an edge leaves its mark in the queue, after it the edge counts as missed.
`Exchanged` gives socket and hook at each place inside `log_start` and `log_stop`,
`LinesReturn` says that a task inside `log_vprintf` finds the original function
saved unless `log_start` is just saving it, and `Saved` that `log_stop` has
something to restore even after a second `log_start`. `QueueFirst` gives the order
of initialisation: from the call that starts the task on, `event_queue` exists.

Only model-checked: the liveness properties `DownloadSettles`,
`VideoDrains`, `StartIsEffective`, `StuckOnlyWhenJammed` and `QueuedIsFreed`. They
rest on fairness, and fairness on ENABLED, which the provers do not reason about.
The violated runs are counterexamples and need no proof. `SentAsFragments` says
the place of a packet by counting (`Place`) and not by selecting a subsequence,
because what a recursive operator such as `SelectSeq` computes cannot be proved
here.

## 7. Not modelled

- `publications_list` and `subscription_list` at pointer level under concurrent
  access: each list operation is one step. What happens to nodes two tasks work
  on at once is undefined behaviour of the heap; a model could only say that
  anything may follow.
- The shared buffer of `log_vprintf` and its second use of the `va_list`: they show
  in the text of a line only.
- That Opus frames of different kinds cannot share a packet: `CatFails` may happen
  to any frame but says nothing of the reason.
- The `config_*_get` functions, the resolver, read-only HTTP routes, the web page
  and the host tools: no state, or pure I/O. Note: README.md calls `ConfigVersion` an MD5 of
  the file, `config_load` computes a SHA-256 of the partition. `eth_phy_atophy` runs
  past the end of its table for a name it does not know.
- A picture that ends right after the header of its scan, for which the length
  computed at `rtp.c:178` wraps: `RtpSenderAssumption` excludes it, as the camera's
  encoder does not produce one.
- The Capture and Restart topics beside an update: in `Ota` only updates stop and
  start the capture.
- Association, EAP, DHCP, TLS, SPIFFS, the I2S and flash drivers: ESP-IDF.
- Exhaustion of the heap outside `AudioPath`, except that `ota_task` may not be
  created; what `app_main` does before the
  motion sensor, except that the configuration may fail to load.

## 8. Plan

Done, in this order: the store and its abstract promise; OTA; streaming; the
event loop; proofs of the store and of streaming; the audio path and its abstract
promise; the RTP sender; the motion sensor, the remote log and the start of the
device; proofs of the audio path and of the start; proofs of OTA, of the RTP
sender, of the event loop, of who holds a frame buffer and of where an audio frame
is. Next, the safety halves of the liveness properties, with the guards written
out in place of ENABLED:

1. `EventLoop`: in every state in which `ipcam_task` is in a call, it, the client's
   task or a poster can go on, or the state is `Jammed`.
2. `Streaming`: whenever a picture is queued, `stream_task` is not waiting for good.
3. `Ota`: as long as a download is under way, one of its steps is possible.
