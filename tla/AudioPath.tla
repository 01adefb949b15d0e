------------------------------ MODULE AudioPath -----------------------------
(***************************************************************************)
(* The way of the sound from the microphone to rtp.c: the capture task of  *)
(* microphone.c behind its binary semaphore (microphone_start and          *)
(* microphone_stop, run by ipcam_task), frames_queue, and                  *)
(* audio_encoder_task, which combines Opus frames into packets. The Opus   *)
(* library and the I2S driver are external. A frame is the number of the   *)
(* read that took it, which is also its time and names its buffer.         *)
(***************************************************************************)
EXTENDS Integers, Sequences, FiniteSets

CONSTANTS QueueLen,  \* length of frames_queue
          Combined,  \* opus_max_combined_frames
          Heap,      \* the buffers the heap has room for
          Reads      \* bound: reads of the microphone

ASSUME AudioPathAssumption ==
    /\ QueueLen \in Nat \ {0}
    /\ Combined \in Nat \ {0}
    /\ Heap \in Nat
    /\ Reads \in Nat

VARIABLES
    gate,       \* capture_semaphore, binary
    capturing,  \* is_capturing
    stopping,   \* ipcam_task waits in microphone_stop
    surplus,    \* ghost: a stop timed out and its token is still about
    mic,        \* where microphone_capture_task is, "none" without a microphone
    reads,      \* reads so far, the last one being that of the task
    heap,       \* buffers that are allocated
    frames,     \* frames_queue
    enc, cur,   \* where audio_encoder_task is, the frame it received
    current_frame, first,  \* and first_frame_timestamp
    pending,    \* pending_frames, what is in each slot
    repack,     \* the slots the repacketizer points to
    sent,       \* ghost: the packets rtp_send_opus accepted
    refused,    \* ghost: frames whose read failed or that found the queue full
    unsent      \* ghost: frames that failed later

gateVars == <<gate, capturing, stopping, surplus>>
micVars == <<mic, reads>>
opusVars == <<current_frame, first, pending, repack>>
encVars == <<enc, cur, opusVars, sent, unsent>>
vars == <<gateVars, micVars, heap, frames, encVars, refused>>

Frames == 1..Reads
Slots == 0..Combined - 1
Holding == {"read", "encode", "give"}

TypeOK ==
    /\ gate \in 0..1
    /\ {capturing, stopping, surplus} \subseteq BOOLEAN
    /\ mic \in Holding \cup {"gate", "none"}
    /\ reads \in 0..Reads
    /\ heap \subseteq Frames
    /\ frames \in Seq(Frames) /\ Len(frames) <= QueueLen
    /\ enc \in {"receive", "encode", "free"}
    /\ cur \in Frames \cup {0}
    /\ current_frame \in Slots
    /\ first \in Frames \cup {0}
    /\ pending \in [Slots -> Frames \cup {0}]
    /\ repack \in Seq(Slots)
    /\ refused \subseteq Frames
    /\ unsent \subseteq Frames

(* Without configured pins microphone_initialize creates no task; started  *)
(* and stopped is the microphone all the same.                             *)
Init ==
    /\ gate = 0 /\ capturing = FALSE /\ stopping = FALSE /\ surplus = FALSE
    /\ mic \in {"gate", "none"} /\ reads = 0
    /\ heap = {} /\ frames = <<>>
    /\ enc = "receive" /\ cur = 0
    /\ current_frame = 0 /\ first = 0
    /\ pending = [s \in Slots |-> 0] /\ repack = <<>>
    /\ sent = <<>> /\ refused = {} /\ unsent = {}

-----------------------------------------------------------------------------
(* microphone_start and microphone_stop *)

GiveGate == /\ gate' = 1
            /\ surplus' = (surplus /\ gate = 0)

MicrophoneStart == /\ ~stopping
                   /\ ~capturing
                   /\ GiveGate
                   /\ capturing' = TRUE
                   /\ UNCHANGED <<stopping, micVars, heap, frames, encVars, refused>>

MicrophoneStop == /\ ~stopping
                  /\ capturing
                  /\ stopping' = TRUE
                  /\ UNCHANGED <<gate, capturing, surplus, micVars, heap,
                                 frames, encVars, refused>>

StopTakes == /\ stopping
             /\ gate = 1
             /\ gate' = 0
             /\ stopping' = FALSE
             /\ capturing' = FALSE
             /\ UNCHANGED <<surplus, micVars, heap, frames, encVars, refused>>

(* A read of the microphone may take as long as microphone_stop waits.     *)
StopTimesOut == /\ stopping
                /\ gate = 0
                /\ stopping' = FALSE
                /\ capturing' = FALSE
                /\ surplus' = TRUE
                /\ UNCHANGED <<gate, micVars, heap, frames, encVars, refused>>

-----------------------------------------------------------------------------
(* microphone_capture_task *)

(* The token and the buffer. malloc may find no room: its result is not    *)
(* looked at.                                                              *)
MicTake == /\ mic = "gate"
           /\ gate = 1
           /\ reads < Reads
           /\ gate' = 0
           /\ reads' = reads + 1
           /\ heap' = IF Cardinality(heap) < Heap THEN heap \cup {reads'} ELSE heap
           /\ mic' = "read"
           /\ UNCHANGED <<capturing, stopping, surplus, frames, encVars, refused>>

(* The driver fills a buffer, if there is one.                             *)
MicRead == /\ mic = "read"
           /\ reads \in heap
           /\ mic' = "encode"
           /\ UNCHANGED <<gateVars, reads, heap, frames, encVars, refused>>

(* Mistake: the error path does not give the semaphore back. *)
ReadFailsKeepsGate ==
    /\ mic = "read"
    /\ refused' = refused \cup {reads}
    /\ mic' = "gate"
    /\ UNCHANGED <<gateVars, reads, heap, frames, encVars>>

(* The buffer is not freed.                                                *)
MicReadFails == /\ mic = "read"
                /\ refused' = refused \cup {reads}
                /\ GiveGate
                /\ mic' = "gate"
                /\ UNCHANGED <<capturing, stopping, reads, heap, frames, encVars>>

(* Mistake: the queue is full one frame too late. *)
RoomTooLong == Len(frames) <= QueueLen

Room == Len(frames) < QueueLen

(* Mistake: the capture task frees the buffer, as if it had been copied. *)
QueueAndFree ==
    /\ mic = "encode"
    /\ IF Room
          THEN frames' = Append(frames, reads) /\ UNCHANGED refused
          ELSE refused' = refused \cup {reads} /\ UNCHANGED frames
    /\ heap' = heap \ {reads}
    /\ mic' = "give"
    /\ UNCHANGED <<gateVars, reads, encVars>>

(* audio_encoder_encode does not wait for room; its result is ignored, and *)
(* the buffer of a refused frame is not freed either.                      *)
MicEncode == /\ mic = "encode"
             /\ IF Room
                   THEN frames' = Append(frames, reads) /\ UNCHANGED refused
                   ELSE refused' = refused \cup {reads} /\ UNCHANGED frames
             /\ mic' = "give"
             /\ UNCHANGED <<gateVars, reads, heap, encVars>>

MicGive == /\ mic = "give"
           /\ GiveGate
           /\ mic' = "gate"
           /\ UNCHANGED <<capturing, stopping, reads, heap, frames, encVars, refused>>

MicTask == MicTake \/ MicRead \/ MicReadFails \/ MicEncode \/ MicGive

-----------------------------------------------------------------------------
(* audio_encoder_task *)

EncReceive == /\ enc = "receive"
              /\ frames # <<>>
              /\ cur' = Head(frames)
              /\ frames' = Tail(frames)
              /\ enc' = "encode"
              /\ UNCHANGED <<gateVars, micVars, heap, opusVars, sent, unsent, refused>>

(* The time of a packet is that of the frame offered as its first.         *)
Stamp == first' = IF current_frame = 0 THEN cur ELSE first

(* What a failed encoding leaves in the slot, nothing points to.           *)
EncodeFails == /\ Stamp
               /\ unsent' = unsent \cup {cur}
               /\ UNCHANGED <<current_frame, pending, repack, sent>>

(* Mistake: every frame is encoded into the first slot. *)
WrittenFirst == pending' = [pending EXCEPT ![0] = cur]

Written == pending' = [pending EXCEPT ![current_frame] = cur]

(* opus_repacketizer_cat refuses frames that do not go together, and more  *)
(* than 120 ms of them.                                                    *)
CatFails == /\ Stamp
            /\ Written
            /\ unsent' = unsent \cup {cur}
            /\ UNCHANGED <<current_frame, repack, sent>>

Cat == /\ Stamp
       /\ Written
       /\ Len(repack) < Combined
       /\ current_frame + 1 # Combined
       /\ repack' = Append(repack, current_frame)
       /\ current_frame' = current_frame + 1
       /\ UNCHANGED <<sent, unsent>>

(* opus_repacketizer_out copies what the repacketizer points to.           *)
Out(pend, slots) == [i \in DOMAIN slots |-> pend[slots[i]]]

(* The packet may fail to be made, or be refused by the queue of rtp.c.    *)
Push(out, time) ==
    \/ sent' = Append(sent, [frames |-> out, time |-> time]) /\ UNCHANGED unsent
    \/ unsent' = unsent \cup {out[i] : i \in DOMAIN out} /\ UNCHANGED sent

(* Mistake: the repacketizer is not initialised for the next packet. *)
CombineWithoutInit ==
    /\ Stamp
    /\ Written
    /\ Len(repack) < Combined
    /\ current_frame + 1 = Combined
    /\ repack' = Append(repack, current_frame)
    /\ current_frame' = 0
    /\ Push(Out(pending', repack'), first')

(* Mistake: the time is that of the last frame. *)
CombineWithLastTime ==
    /\ Stamp
    /\ Written
    /\ Len(repack) < Combined
    /\ current_frame + 1 = Combined
    /\ current_frame' = 0
    /\ repack' = <<>>
    /\ Push(Out(pending', Append(repack, current_frame)), cur)

(* The last frame of a packet, and opus_combine_packets.                   *)
CatAndCombine ==
    /\ Stamp
    /\ Written
    /\ Len(repack) < Combined
    /\ current_frame + 1 = Combined
    /\ current_frame' = 0
    /\ repack' = <<>>
    /\ Push(Out(pending', Append(repack, current_frame)), first')

(* opus_encode_frame. Its result is ignored.                               *)
EncEncode == /\ enc = "encode"
             /\ EncodeFails \/ CatFails \/ Cat \/ CatAndCombine
             /\ enc' = "free"
             /\ UNCHANGED <<gateVars, micVars, heap, frames, cur, refused>>

(* Mistake: after an error the task goes on with the next frame. *)
SkipFree == /\ enc = "free"
            /\ heap' = IF cur \in unsent THEN heap ELSE heap \ {cur}
            /\ cur' = 0
            /\ enc' = "receive"
            /\ UNCHANGED <<gateVars, micVars, frames, opusVars, sent, unsent, refused>>

EncFree == /\ enc = "free"
           /\ heap' = heap \ {cur}
           /\ cur' = 0
           /\ enc' = "receive"
           /\ UNCHANGED <<gateVars, micVars, frames, opusVars, sent, unsent, refused>>

EncTask == EncReceive \/ EncEncode \/ EncFree

-----------------------------------------------------------------------------
Next == \/ MicrophoneStart \/ MicrophoneStop \/ StopTakes \/ StopTimesOut
        \/ MicTask
        \/ EncTask

(* FreeRTOS runs every ready task, and a read of the microphone returns    *)
(* within a second. Nothing makes ipcam_task start or stop the microphone. *)
Fairness == /\ WF_vars(MicTask)
            /\ WF_vars(EncTask)
            /\ WF_vars(StopTakes \/ StopTimesOut)

Spec == Init /\ [][Next]_vars /\ Fairness

-----------------------------------------------------------------------------
One(b) == IF b THEN 1 ELSE 0

(* The tokens of the microphone's gate are accounted for, whatever failed  *)
(* reads and stops that timed out do to each other: one while it is        *)
(* started, none while it is stopped, and at most one too many, left by a  *)
(* stop that timed out. As long as that one is about, a microphone_stop    *)
(* that took a token need not end the capture; without it, a stopped       *)
(* microphone is not read.                                                 *)
GateBalance == gate + One(mic \in Holding) = One(capturing) + One(surplus)

Queued == {frames[i] : i \in DOMAIN frames}
AtMic == IF mic \in {"read", "encode"} THEN {reads} ELSE {}

(* A buffer is allocated exactly while the capture task, the queue or the  *)
(* encoder has it, and for ever if the capture task could not hand it      *)
(* over: no frame is encoded from freed memory, and no error of Opus or of *)
(* the queue of rtp.c costs a buffer.                                      *)
BufferHeld ==
    LET held == (AtMic \cap heap) \cup Queued \cup ({cur} \ {0})
    IN  held \subseteq heap /\ heap \subseteq held \cup refused

InPacket(p) == {p.frames[i] : i \in DOMAIN p.frames}
Sent == UNION {InPacket(sent[i]) : i \in DOMAIN sent}
Combining == {pending[repack[i]] : i \in DOMAIN repack}
Waiting == AtMic \cup Queued \cup (IF enc = "encode" THEN {cur} ELSE {})

(* Every frame is in one place: waiting, in the packet in the making, in   *)
(* one packet sent, or known to be dropped. None is overwritten in its     *)
(* slot before its packet is made, although a slot is used again after an  *)
(* error (pending_frames).                                                 *)
FrameInOnePlace ==
    LET places == <<Waiting, Combining, Sent, refused, unsent>>
    IN  /\ UNION {places[i] : i \in DOMAIN places} = 1..reads
        /\ \A i, j \in DOMAIN places : i # j => places[i] \cap places[j] = {}

(* current_frame, counted here, and the repacketizer, which counts for     *)
(* itself, stay in step whatever fails: the slots in use are those below   *)
(* current_frame.                                                          *)
CountersAgree == repack = [i \in 1..current_frame |-> i - 1]

(* What is sent is an ordered stream of packets.                           *)
Stream == INSTANCE AudioStream
OrderedStream == Stream!Spec

(* The buffer of every queued frame is freed, whatever Opus says of the    *)
(* frame and whether or not the microphone is running.                     *)
QueuedIsFreed == \A f \in Frames : f \in Queued ~> f \notin heap
=============================================================================
