----------------------------- MODULE Streaming ------------------------------
(***************************************************************************)
(* The way of a picture from the sensor to the socket: the capture task of *)
(* camera.c behind its binary semaphore (camera_start and camera_stop, run *)
(* by ipcam_task), the two queues and the counting semaphore of rtp.c, and *)
(* stream_task. The audio encoder task is the second producer of rtp.c;    *)
(* what it does before it has a packet is left out here. still_handler of  *)
(* httpd.c borrows frame buffers too.                                      *)
(***************************************************************************)
EXTENDS Integers, Sequences, FiniteSets

CONSTANTS Fbs,       \* the frame buffers of the camera driver
          Packets,   \* the audio packets the heap has room for
          VideoLen,  \* video_queue_size
          AudioLen,  \* audio_queue_size
          None

Frames == Fbs \cup Packets

ASSUME StreamingAssumption ==
    /\ Fbs \cap Packets = {}
    /\ None \notin Frames
    /\ VideoLen \in Nat \ {0}
    /\ AudioLen \in Nat \ {0}

(* camera_initialize sets fb_count = 2, and video_queue_size is 10.        *)
ASSUME BuffersFit == IsFiniteSet(Fbs) /\ Cardinality(Fbs) <= VideoLen

VARIABLES
    gate,       \* capture_semaphore, binary
    capturing,  \* is_capturing
    stopping,   \* ipcam_task waits in camera_stop
    surplus,    \* ghost: a stop timed out and its token is still about
    cam, fb,    \* where camera_capture_task is, its frame buffer
    enc, pkt,   \* where add_frame_to_queue is for the encoder, its packet
    still,      \* the frame buffer still_handler serves
    route,      \* the static variable "queue" of add_frame_to_queue
    strayed,    \* ghost: a frame went to the queue of the other kind
    video, audio, sem,
    stream, sending,  \* where stream_task is, the frame it received
    free,       \* frame buffers the driver has, packets not allocated
    lost        \* ghost: frames refused by a queue and never released

gateVars == <<gate, capturing, stopping, surplus>>
camVars == <<cam, fb>>
encVars == <<enc, pkt>>
queueVars == <<route, strayed, video, audio, sem>>
streamVars == <<stream, sending>>
vars == <<gateVars, camVars, encVars, still, queueVars, streamVars, free, lost>>

(* The task holds the token of the gate between taking and giving it.      *)
Holding == {"get", "route", "send", "signal", "give"}

TypeOK ==
    /\ gate \in 0..1
    /\ {capturing, stopping, surplus, strayed} \subseteq BOOLEAN
    /\ cam \in Holding \cup {"gate", "delay"}
    /\ fb \in Fbs \cup {None}
    /\ enc \in {"idle", "route", "send", "signal"}
    /\ pkt \in Packets \cup {None}
    /\ still \in Fbs \cup {None}
    /\ route \in {"none", "video", "audio"}
    /\ video \in Seq(Frames) /\ Len(video) <= VideoLen
    /\ audio \in Seq(Frames) /\ Len(audio) <= AudioLen
    /\ sem \in 0..VideoLen + AudioLen
    /\ stream \in {"take", "receive", "receiveVideo", "send"}
    /\ sending \in Frames \cup {None}
    /\ free \subseteq Frames
    /\ lost \subseteq Frames

Init ==
    /\ gate = 0 /\ capturing = FALSE /\ stopping = FALSE /\ surplus = FALSE
    /\ cam = "gate" /\ fb = None
    /\ enc = "idle" /\ pkt = None
    /\ still = None
    /\ route = "none" /\ strayed = FALSE
    /\ video = <<>> /\ audio = <<>> /\ sem = 0
    /\ stream = "take" /\ sending = None
    /\ free = Frames
    /\ lost = {}

-----------------------------------------------------------------------------
(* camera_start and camera_stop *)

(* Giving a binary semaphore that is already given fails, and the result   *)
(* is only logged, or ignored.                                             *)
GiveGate == /\ gate' = 1
            /\ surplus' = (surplus /\ gate = 0)

CameraStart == /\ ~stopping
               /\ ~capturing
               /\ GiveGate
               /\ capturing' = TRUE
               /\ UNCHANGED <<stopping, camVars, encVars, still, queueVars,
                              streamVars, free, lost>>

CameraStop == /\ ~stopping
              /\ capturing
              /\ stopping' = TRUE
              /\ UNCHANGED <<gate, capturing, surplus, camVars, encVars, still,
                             queueVars, streamVars, free, lost>>

StopTakes == /\ stopping
             /\ gate = 1
             /\ gate' = 0
             /\ stopping' = FALSE
             /\ capturing' = FALSE
             /\ UNCHANGED <<surplus, camVars, encVars, still, queueVars,
                            streamVars, free, lost>>

(* Mistake: when the stop times out, is_capturing stays set. *)
TimeoutKeepsCapturing ==
    /\ stopping
    /\ gate = 0
    /\ stopping' = FALSE
    /\ surplus' = TRUE
    /\ UNCHANGED <<gate, capturing, camVars, encVars, still, queueVars,
                   streamVars, free, lost>>

(* The capture task kept the token for a second: the stop is logged as     *)
(* failed, and is_capturing is cleared all the same.                       *)
StopTimesOut == /\ stopping
                /\ gate = 0
                /\ stopping' = FALSE
                /\ capturing' = FALSE
                /\ surplus' = TRUE
                /\ UNCHANGED <<gate, camVars, encVars, still, queueVars,
                               streamVars, free, lost>>

-----------------------------------------------------------------------------
(* camera_capture_task *)

CamTake == /\ cam = "gate"
           /\ gate = 1
           /\ gate' = 0
           /\ cam' = "get"
           /\ UNCHANGED <<capturing, stopping, surplus, fb, encVars, still,
                          queueVars, streamVars, free, lost>>

CamGet == /\ cam = "get"
          /\ \E f \in free \cap Fbs : fb' = f /\ free' = free \ {f}
          /\ cam' = "route"
          /\ UNCHANGED <<gateVars, encVars, still, queueVars, streamVars, lost>>

(* Mistake: the error path does not give the semaphore back. *)
GetFailsKeepsGate ==
    /\ cam = "get"
    /\ cam' = "gate"
    /\ UNCHANGED <<gateVars, fb, encVars, still, queueVars, streamVars, free, lost>>

(* The sensor has no frame, or the driver no buffer, for too long.         *)
CamGetFails == /\ cam = "get"
               /\ GiveGate
               /\ cam' = "gate"
               /\ UNCHANGED <<capturing, stopping, fb, encVars, still,
                              queueVars, streamVars, free, lost>>

CamRoute == /\ cam = "route"
            /\ route' = "video"
            /\ cam' = "send"
            /\ UNCHANGED <<gateVars, fb, encVars, still, strayed, video, audio,
                           sem, streamVars, free, lost>>

(* Mistake: a queue is full one frame too late. *)
FullTooLate(q) ==
    IF q = "video" THEN Len(video) > VideoLen ELSE Len(audio) > AudioLen

Full(q) == IF q = "video" THEN Len(video) >= VideoLen ELSE Len(audio) >= AudioLen

(* xQueueSend without waiting. *)
Enqueue(q, own, f) ==
    /\ ~Full(q)
    /\ video' = IF q = "video" THEN Append(video, f) ELSE video
    /\ audio' = IF q = "audio" THEN Append(audio, f) ELSE audio
    /\ strayed' = (strayed \/ q # own)
    /\ UNCHANGED <<route, sem, lost>>

Refused(q, own, f) ==
    /\ Full(q)
    /\ lost' = lost \cup {f}
    /\ strayed' = (strayed \/ q # own)
    /\ UNCHANGED <<route, video, audio, sem>>

(* Mistake: the semaphore is given for a refused frame too. *)
CamSendAlwaysSignals ==
    /\ cam = "send"
    /\ \E q \in {"video", route} :
          Enqueue(q, "video", fb) \/ Refused(q, "video", fb)
    /\ cam' = "signal"
    /\ fb' = None
    /\ UNCHANGED <<gateVars, encVars, still, streamVars, free>>

(* Mistake: the capture task returns the buffer it has handed over. *)
CamSendAndReturn ==
    /\ cam = "send"
    /\ \E q \in {"video", route} :
          \/ Enqueue(q, "video", fb) /\ cam' = "signal"
          \/ Refused(q, "video", fb) /\ cam' = "give"
    /\ fb' = None
    /\ free' = free \cup {fb}
    /\ UNCHANGED <<gateVars, encVars, still, streamVars>>

(* Whether the compiled code keeps the queue in a register or reads the    *)
(* static variable again is not defined: both tasks write it unlocked.     *)
CamSend == /\ cam = "send"
           /\ \E q \in {"video", route} :
                 \/ Enqueue(q, "video", fb) /\ cam' = "signal"
                 \/ Refused(q, "video", fb) /\ cam' = "give"
           /\ fb' = None
           /\ UNCHANGED <<gateVars, encVars, still, streamVars, free>>

Signal == sem' = IF sem < VideoLen + AudioLen THEN sem + 1 ELSE sem

CamSignal == /\ cam = "signal"
             /\ Signal
             /\ cam' = "give"
             /\ UNCHANGED <<gateVars, fb, encVars, still, route, strayed, video,
                            audio, streamVars, free, lost>>

(* rtp_send_jpeg has returned, whatever it returned. *)
CamGive == /\ cam = "give"
           /\ GiveGate
           /\ cam' = "delay"
           /\ UNCHANGED <<capturing, stopping, fb, encVars, still, queueVars,
                          streamVars, free, lost>>

CamDelay == /\ cam = "delay"
            /\ cam' = "gate"
            /\ UNCHANGED <<gateVars, fb, encVars, still, queueVars, streamVars,
                           free, lost>>

CamTask == \/ CamTake \/ CamGet \/ CamGetFails \/ CamRoute \/ CamSend
           \/ CamSignal \/ CamGive \/ CamDelay

-----------------------------------------------------------------------------
(* The encoder task, in push_audio_packet *)

EncPacket == /\ enc = "idle"
             /\ \E p \in free \cap Packets : pkt' = p /\ free' = free \ {p}
             /\ enc' = "route"
             /\ UNCHANGED <<gateVars, camVars, still, queueVars, streamVars, lost>>

EncRoute == /\ enc = "route"
            /\ route' = "audio"
            /\ enc' = "send"
            /\ UNCHANGED <<gateVars, camVars, pkt, still, strayed, video, audio,
                           sem, streamVars, free, lost>>

(* Mistake: the semaphore is given for a refused packet too. *)
EncSendAlwaysSignals ==
    /\ enc = "send"
    /\ \E q \in {"audio", route} :
          Enqueue(q, "audio", pkt) \/ Refused(q, "audio", pkt)
    /\ enc' = "signal"
    /\ pkt' = None
    /\ UNCHANGED <<gateVars, camVars, still, streamVars, free>>

EncSend == /\ enc = "send"
           /\ \E q \in {"audio", route} :
                 \/ Enqueue(q, "audio", pkt) /\ enc' = "signal"
                 \/ Refused(q, "audio", pkt) /\ enc' = "idle"
           /\ pkt' = None
           /\ UNCHANGED <<gateVars, camVars, still, streamVars, free>>

EncSignal == /\ enc = "signal"
             /\ Signal
             /\ enc' = "idle"
             /\ UNCHANGED <<gateVars, camVars, pkt, still, route, strayed, video,
                            audio, streamVars, free, lost>>

EncPush == EncRoute \/ EncSend \/ EncSignal

-----------------------------------------------------------------------------
(* still_handler *)

StillGet == /\ still = None
            /\ \E f \in free \cap Fbs : still' = f /\ free' = free \ {f}
            /\ UNCHANGED <<gateVars, camVars, encVars, queueVars, streamVars, lost>>

(* Mistake: still_handler's error path returns the buffer a second time. *)
ReturnsTwice ==
    /\ still # None
    /\ free' = free \cup {still}
    /\ still' \in {still, None}
    /\ UNCHANGED <<gateVars, camVars, encVars, queueVars, streamVars, lost>>

StillReturn == /\ still # None
               /\ free' = free \cup {still}
               /\ still' = None
               /\ UNCHANGED <<gateVars, camVars, encVars, queueVars, streamVars,
                              lost>>

-----------------------------------------------------------------------------
(* stream_task: one token, then the audio queue before the video queue *)

StreamTake == /\ stream = "take"
              /\ sem > 0
              /\ sem' = sem - 1
              /\ stream' = "receive"
              /\ UNCHANGED <<gateVars, camVars, encVars, still, route, strayed,
                             video, audio, sending, free, lost>>

ReceiveAudio == /\ stream = "receive"
                /\ IF audio # <<>>
                      THEN /\ sending' = Head(audio)
                           /\ audio' = Tail(audio)
                           /\ stream' = "send"
                      ELSE /\ stream' = "receiveVideo"
                           /\ UNCHANGED <<audio, sending>>
                /\ UNCHANGED <<gateVars, camVars, encVars, still, route, strayed,
                               video, sem, free, lost>>

ReceiveVideo == /\ stream = "receiveVideo"
                /\ IF video # <<>>
                      THEN /\ sending' = Head(video)
                           /\ video' = Tail(video)
                           /\ stream' = "send"
                      ELSE /\ stream' = "take"
                           /\ UNCHANGED <<video, sending>>
                /\ UNCHANGED <<gateVars, camVars, encVars, still, route, strayed,
                               audio, sem, free, lost>>

(* Mistake: a frame that could not be parsed or sent is not released. *)
SendMayKeepFrame ==
    /\ stream = "send"
    /\ free' \in {free, free \cup {sending}}
    /\ sending' = None
    /\ stream' = "take"
    /\ UNCHANGED <<gateVars, camVars, encVars, still, queueVars, lost>>

(* Mistake: stream_task goes on to the next frame without a token. *)
SendWithoutToken ==
    /\ stream = "send"
    /\ free' = free \cup {sending}
    /\ sending' = None
    /\ stream' = "receive"
    /\ UNCHANGED <<gateVars, camVars, encVars, still, queueVars, lost>>

(* The frame is sent, or could not be, and is released. *)
SendAndFree == /\ stream = "send"
               /\ free' = free \cup {sending}
               /\ sending' = None
               /\ stream' = "take"
               /\ UNCHANGED <<gateVars, camVars, encVars, still, queueVars, lost>>

StreamTask == StreamTake \/ ReceiveAudio \/ ReceiveVideo \/ SendAndFree

-----------------------------------------------------------------------------
Next == \/ CameraStart \/ CameraStop \/ StopTakes \/ StopTimesOut
        \/ CamTask
        \/ EncPacket \/ EncPush
        \/ StillGet \/ StillReturn
        \/ StreamTask

(* FreeRTOS runs every ready task, and the calls the tasks block in have   *)
(* timeouts. Nothing makes the microphone produce a packet, the user ask   *)
(* for a picture or ipcam_task start or stop the camera.                   *)
Fairness == /\ WF_vars(CamTask)
            /\ WF_vars(EncPush)
            /\ WF_vars(StreamTask)
            /\ WF_vars(StillReturn)
            /\ WF_vars(StopTakes \/ StopTimesOut)

Spec == Init /\ [][Next]_vars /\ Fairness

-----------------------------------------------------------------------------
One(b) == IF b THEN 1 ELSE 0

(* The semaphore of rtp.c counts exactly the queued frames: those whose    *)
(* producer has not signalled yet and the one stream_task was woken for    *)
(* make up the difference (add_frame_to_queue, stream_task).               *)
TokenPerFrame ==
    Len(video) + Len(audio) =
        sem + One(cam = "signal") + One(enc = "signal")
            + One(stream \in {"receive", "receiveVideo"})

(* stream_task never wakes up for nothing, although it looks into two      *)
(* queues one after the other: its "continue" is dead code.                *)
WokenForFrame == stream = "receiveVideo" => video # <<>>

(* A queued frame always gets its token: giving queue_semaphore does not   *)
(* fail, so the error path of add_frame_to_queue that would strand a       *)
(* queued frame is dead code too.                                          *)
SignalSucceeds ==
    cam = "signal" \/ enc = "signal" => sem < VideoLen + AudioLen

(* The tokens of the capture gate are accounted for: one while the camera  *)
(* is started, none while it is stopped, and one too many from the time a  *)
(* camera_stop timed out until a give is refused. With one too many, a     *)
(* later camera_stop may take the spare token, succeed, and leave the      *)
(* capture going on: only without one does a stopped camera capture        *)
(* nothing. There is never more than one too many, however many stops time *)
(* out, so that a refused give puts the gate right again.                  *)
GateBalance == gate + One(cam \in Holding) = One(capturing) + One(surplus)

(* Every frame buffer and every packet has exactly one holder: no frame is *)
(* released twice, or sent after it was given back to the driver.          *)
Elements(q) == {q[i] : i \in DOMAIN q}
NoRepeat(q) == \A i, j \in DOMAIN q : q[i] = q[j] => i = j
Places == {"free", "lost", "cam", "enc", "still", "stream", "video", "audio"}
Holders == [h \in Places |->
               CASE h = "free" -> free
                 [] h = "lost" -> lost
                 [] h = "cam" -> {fb} \ {None}
                 [] h = "enc" -> {pkt} \ {None}
                 [] h = "still" -> {still} \ {None}
                 [] h = "stream" -> {sending} \ {None}
                 [] h = "video" -> Elements(video)
                 [] h = "audio" -> Elements(audio)]
Partition(held) ==
    \A f \in Frames : \E h \in Places :
        f \in held[h] /\ \A k \in Places \ {h} : f \notin held[k]
OneHolder == Partition(Holders) /\ NoRepeat(video) /\ NoRepeat(audio)

(* A picture is never refused by the queue, and so its buffer never lost,  *)
(* unless the unlocked static variable sent some frame to the wrong queue: *)
(* the driver has fewer buffers than the queue has places.                 *)
VideoNeverRefused == lost \cap Fbs # {} => strayed

(* Once the microphone is silent, every queued picture is sent and its     *)
(* buffer given back, whatever the camera gate does.                       *)
VideoDrains ==
    <>[](enc = "idle") =>
        \A f \in Fbs : f \in Elements(video) ~> f \in free

(* A started camera does capture: after camera_start the task gets past    *)
(* the gate, whatever stops timed out before.                              *)
StartIsEffective == capturing ~> cam = "get" \/ ~capturing
=============================================================================
