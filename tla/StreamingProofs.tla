-------------------------- MODULE StreamingProofs ---------------------------
(***************************************************************************)
(* Theorems about Streaming, for every number of frame buffers and packets *)
(* and every queue length. The inductive invariant Inv joins the two token *)
(* counts (the queue semaphore and the capture gate) to the types.         *)
(***************************************************************************)
EXTENDS Streaming, SequenceTheorems, FiniteSetTheorems, TLAPS

(* Who is about to hand a frame over has one, and has chosen a queue.      *)
Hands == /\ cam \in {"route", "send"} => fb # None
         /\ enc \in {"route", "send"} => pkt # None
         /\ stream = "send" => sending # None
         /\ cam = "send" \/ enc = "send" => route # "none"

(* camera_stop is only entered while the camera is started.                *)
StopsStarted == stopping => capturing

Inv == TypeOK /\ Hands /\ StopsStarted /\ TokenPerFrame /\ WokenForFrame
       /\ GateBalance

-----------------------------------------------------------------------------
(* What the queue operations do to a queue and its length.                 *)
LEMMA AppendFacts ==
    ASSUME NEW s \in Seq(Frames), NEW f \in Frames
    PROVE  /\ Append(s, f) \in Seq(Frames)
           /\ Len(Append(s, f)) = Len(s) + 1
BY AppendProperties

LEMMA TailFacts ==
    ASSUME NEW s \in Seq(Frames), s # <<>>
    PROVE  /\ Head(s) \in Frames
           /\ Tail(s) \in Seq(Frames)
           /\ Len(Tail(s)) = Len(s) - 1
BY HeadTailProperties

LEMMA LenFacts ==
    /\ <<>> \in Seq(Frames)
    /\ \A s \in Seq(Frames) : Len(s) \in Nat /\ (s = <<>> <=> Len(s) = 0)
BY EmptySeq, LenProperties

LEMMA InitInv == Init => Inv
<1> SUFFICES ASSUME Init PROVE Inv
    OBVIOUS
<1>1. TypeOK
    <2>1. /\ video \in Seq(Frames) /\ Len(video) = 0
          /\ audio \in Seq(Frames) /\ Len(audio) = 0
        BY LenFacts DEF Init
    <2>2. /\ 0 <= VideoLen /\ 0 <= AudioLen
          /\ 0 \in 0..VideoLen + AudioLen
        BY StreamingAssumption
    <2>3. /\ {capturing, stopping, surplus, strayed} \subseteq BOOLEAN
          /\ fb \in Fbs \cup {None} /\ pkt \in Packets \cup {None}
          /\ still \in Fbs \cup {None} /\ sending \in Frames \cup {None}
          /\ free \subseteq Frames /\ lost \subseteq Frames
        BY DEF Init
    <2>4. /\ gate \in 0..1 /\ cam \in Holding \cup {"gate", "delay"}
          /\ enc \in {"idle", "route", "send", "signal"}
          /\ route \in {"none", "video", "audio"}
          /\ stream \in {"take", "receive", "receiveVideo", "send"}
        BY DEF Init
    <2>5. Len(video) <= VideoLen /\ Len(audio) <= AudioLen
          /\ sem \in 0..VideoLen + AudioLen
        BY <2>1, <2>2 DEF Init
    <2> QED
        BY <2>1, <2>3, <2>4, <2>5 DEF TypeOK
<1>2. Hands /\ StopsStarted /\ WokenForFrame
    BY DEF Init, Hands, StopsStarted, WokenForFrame
<1>3. TokenPerFrame
    BY DEF Init, TokenPerFrame, One
<1>4. GateBalance
    BY DEF Init, GateBalance, One, Holding
<1> QED
    BY <1>1, <1>2, <1>3, <1>4 DEF Inv

(* A give that finds the gate given already spends the surplus token.      *)
LEMMA GiveGateBalance ==
    ASSUME TypeOK, GateBalance, GiveGate,
           \/ capturing' = capturing /\ cam \in Holding /\ cam' \notin Holding
           \/ ~capturing /\ capturing' /\ cam' = cam
    PROVE  GateBalance' /\ gate' \in 0..1 /\ surplus' \in BOOLEAN
<1>1. gate \in {0, 1} /\ capturing \in BOOLEAN /\ surplus \in BOOLEAN
    BY DEF TypeOK
<1>2. gate' = 1 /\ surplus' = (surplus /\ gate = 0)
    BY DEF GiveGate
<1>3. CASE gate = 0
    <2>1. surplus' = surplus
        BY <1>1, <1>2, <1>3, Zenon
    <2> QED
        BY <1>1, <1>2, <1>3, <2>1 DEF GateBalance, One
<1>4. CASE gate = 1
    <2>1. surplus' = FALSE
        <3>1. ~(gate = 0)
            BY <1>4
        <3> QED
            BY <1>2, <3>1, Zenon
    <2> QED
        BY <1>1, <1>2, <1>4, <2>1 DEF GateBalance, One
<1> QED
    BY <1>1, <1>3, <1>4

LEMMA StartStopInv ==
    ASSUME Inv, CameraStart \/ CameraStop \/ StopTakes \/ StopTimesOut
    PROVE  Inv'
<1>1. GateBalance' /\ gate' \in 0..1 /\ surplus' \in BOOLEAN
    <2>1. CASE CameraStart
        BY <2>1, GiveGateBalance DEF Inv, CameraStart, camVars
    <2>2. CASE CameraStop
        BY <2>2 DEF Inv, TypeOK, GateBalance, CameraStop, One, camVars
    <2>3. CASE StopTakes
        BY <2>3
        DEF Inv, TypeOK, GateBalance, StopsStarted, StopTakes, One, camVars
    <2>4. CASE StopTimesOut
        BY <2>4
        DEF Inv, TypeOK, GateBalance, StopsStarted, StopTimesOut, One, camVars
    <2> QED
        BY <2>1, <2>2, <2>3, <2>4
<1>2. UNCHANGED <<camVars, encVars, still, queueVars, streamVars, free, lost>>
    BY DEF CameraStart, CameraStop, StopTakes, StopTimesOut
<1>3. {capturing', stopping'} \subseteq BOOLEAN /\ StopsStarted'
    BY DEF Inv, TypeOK, StopsStarted, CameraStart, CameraStop, StopTakes,
           StopTimesOut
<1> QED
    BY <1>1, <1>2, <1>3
    DEF Inv, TypeOK, Hands, TokenPerFrame, WokenForFrame, camVars, encVars,
        queueVars, streamVars

(* camera_capture_task, away from the queues.                              *)
LEMMA CamQuietInv ==
    ASSUME Inv, CamTake \/ CamGet \/ CamRoute \/ CamDelay PROVE Inv'
<1>1. /\ cam' \in Holding \cup {"gate", "delay"}
      /\ fb' \in Fbs \cup {None} /\ free' \subseteq Frames
      /\ route' \in {"none", "video", "audio"} /\ gate' \in 0..1
    BY DEF Inv, TypeOK, Holding, CamTake, CamGet, CamRoute, CamDelay, gateVars,
           queueVars
<1>2. GateBalance'
    BY DEF Inv, TypeOK, GateBalance, One, Holding, CamTake, CamGet, CamRoute,
           CamDelay, gateVars
<1>3. Hands'
    BY StreamingAssumption
    DEF Inv, Hands, CamTake, CamGet, CamRoute, CamDelay, encVars, streamVars,
        queueVars, Frames
<1>4. /\ UNCHANGED <<capturing, stopping, surplus, enc, pkt, still, strayed,
                     video, audio, sem, stream, sending, lost>>
      /\ cam # "signal" /\ cam' # "signal"
    BY DEF CamTake, CamGet, CamRoute, CamDelay, gateVars, encVars, queueVars,
           streamVars
<1> QED
    BY <1>1, <1>2, <1>3, <1>4
    DEF Inv, TypeOK, StopsStarted, TokenPerFrame, WokenForFrame

LEMMA CamGivesInv == ASSUME Inv, CamGetFails \/ CamGive PROVE Inv'
<1>1. GateBalance' /\ gate' \in 0..1 /\ surplus' \in BOOLEAN
    BY GiveGateBalance DEF Inv, CamGetFails, CamGive, Holding
<1>2. /\ UNCHANGED <<capturing, stopping, fb, enc, pkt, still, route, strayed,
                     video, audio, sem, stream, sending, free, lost>>
      /\ cam # "signal" /\ cam' \in {"gate", "delay"}
    BY DEF CamGetFails, CamGive, encVars, queueVars, streamVars
<1> QED
    BY <1>1, <1>2
    DEF Inv, TypeOK, Hands, StopsStarted, TokenPerFrame, WokenForFrame

-----------------------------------------------------------------------------
(* add_frame_to_queue                                                      *)

(* Exactly one of the queues gets one frame.                               *)
LEMMA EnqueueFacts ==
    ASSUME TypeOK, NEW q \in {"video", "audio"}, NEW own, NEW f \in Frames,
           Enqueue(q, own, f)
    PROVE  /\ video' \in Seq(Frames) /\ Len(video') <= VideoLen
           /\ audio' \in Seq(Frames) /\ Len(audio') <= AudioLen
           /\ Len(video') + Len(audio') = Len(video) + Len(audio) + 1
           /\ Len(video') >= Len(video)
<1>1. /\ video \in Seq(Frames) /\ Len(video) \in Nat /\ Len(video) <= VideoLen
      /\ audio \in Seq(Frames) /\ Len(audio) \in Nat /\ Len(audio) <= AudioLen
      /\ VideoLen \in Nat /\ AudioLen \in Nat
    BY LenFacts, StreamingAssumption DEF TypeOK
<1>2. CASE q = "video"
    <2>1. video' = Append(video, f) /\ audio' = audio /\ Len(video) < VideoLen
        BY <1>1, <1>2 DEF Enqueue, Full
    <2> QED
        BY <1>1, <2>1, AppendFacts
<1>3. CASE q = "audio"
    <2>1. audio' = Append(audio, f) /\ video' = video /\ Len(audio) < AudioLen
        BY <1>1, <1>3 DEF Enqueue, Full
    <2> QED
        BY <1>1, <2>1, AppendFacts
<1> QED
    BY <1>2, <1>3

(* The tokens a task may still give fit into the semaphore.                *)
LEMMA SignalFacts ==
    ASSUME Inv, cam = "signal" \/ enc = "signal"
    PROVE  sem < VideoLen + AudioLen
BY LenFacts, StreamingAssumption DEF Inv, TypeOK, TokenPerFrame, One

LEMMA CamSendInv == ASSUME Inv, CamSend PROVE Inv'
<1>1. fb \in Frames /\ route # "none" /\ cam = "send"
    BY DEF Inv, TypeOK, Hands, CamSend, Frames
<1>2. PICK q \in {"video", "audio"} :
          \/ Enqueue(q, "video", fb) /\ cam' = "signal"
          \/ Refused(q, "video", fb) /\ cam' = "give"
    BY <1>1 DEF Inv, TypeOK, CamSend
<1>3. /\ UNCHANGED <<gate, capturing, stopping, surplus, enc, pkt, still, route,
                     sem, stream, sending, free>>
      /\ fb' = None /\ cam' \in {"signal", "give"} /\ cam' \in Holding
      /\ strayed' \in BOOLEAN /\ lost' \subseteq Frames
    <2>1. strayed' = (strayed \/ q # "video")
        BY <1>2 DEF Enqueue, Refused
    <2>2. strayed' \in BOOLEAN
        BY <2>1, Zenon
    <2> QED
        BY <1>1, <1>2, <2>2
        DEF Inv, TypeOK, CamSend, Enqueue, Refused, gateVars, encVars,
            streamVars, Holding
<1>4. /\ video' \in Seq(Frames) /\ Len(video') <= VideoLen
      /\ audio' \in Seq(Frames) /\ Len(audio') <= AudioLen
      /\ Len(video') + Len(audio') = Len(video) + Len(audio) + One(cam' = "signal")
      /\ Len(video') >= Len(video)
    <2>1. CASE Enqueue(q, "video", fb) /\ cam' = "signal"
        BY <1>1, <2>1, EnqueueFacts DEF Inv, One
    <2>2. CASE Refused(q, "video", fb) /\ cam' = "give"
        BY <2>2, LenFacts DEF Inv, TypeOK, Refused, One
    <2> QED
        BY <1>2, <2>1, <2>2
<1>5. WokenForFrame'
    BY <1>3, <1>4, LenFacts DEF Inv, TypeOK, WokenForFrame
<1>6. TokenPerFrame'
    BY <1>1, <1>3, <1>4, LenFacts DEF Inv, TypeOK, TokenPerFrame, One
<1>7. GateBalance'
    BY <1>1, <1>3 DEF Inv, GateBalance, Holding
<1>8. TypeOK' /\ Hands' /\ StopsStarted'
    BY <1>1, <1>3, <1>4 DEF Inv, TypeOK, Hands, StopsStarted
<1> QED
    BY <1>5, <1>6, <1>7, <1>8 DEF Inv

LEMMA EncSendInv == ASSUME Inv, EncSend PROVE Inv'
<1>1. pkt \in Frames /\ route # "none" /\ enc = "send"
    BY DEF Inv, TypeOK, Hands, EncSend, Frames
<1>2. PICK q \in {"video", "audio"} :
          \/ Enqueue(q, "audio", pkt) /\ enc' = "signal"
          \/ Refused(q, "audio", pkt) /\ enc' = "idle"
    BY <1>1 DEF Inv, TypeOK, EncSend
<1>3. /\ UNCHANGED <<gate, capturing, stopping, surplus, cam, fb, still, route,
                     sem, stream, sending, free>>
      /\ pkt' = None /\ enc' \in {"signal", "idle"}
      /\ strayed' \in BOOLEAN /\ lost' \subseteq Frames
    <2>1. strayed' = (strayed \/ q # "audio")
        BY <1>2 DEF Enqueue, Refused
    <2>2. strayed' \in BOOLEAN
        BY <2>1, Zenon
    <2> QED
        BY <1>1, <1>2, <2>2
        DEF Inv, TypeOK, EncSend, Enqueue, Refused, gateVars, camVars,
            streamVars
<1>4. /\ video' \in Seq(Frames) /\ Len(video') <= VideoLen
      /\ audio' \in Seq(Frames) /\ Len(audio') <= AudioLen
      /\ Len(video') + Len(audio') = Len(video) + Len(audio) + One(enc' = "signal")
      /\ Len(video') >= Len(video)
    <2>1. CASE Enqueue(q, "audio", pkt) /\ enc' = "signal"
        BY <1>1, <2>1, EnqueueFacts DEF Inv, One
    <2>2. CASE Refused(q, "audio", pkt) /\ enc' = "idle"
        BY <2>2, LenFacts DEF Inv, TypeOK, Refused, One
    <2> QED
        BY <1>2, <2>1, <2>2
<1>5. WokenForFrame'
    BY <1>3, <1>4, LenFacts DEF Inv, TypeOK, WokenForFrame
<1>6. TokenPerFrame'
    BY <1>1, <1>3, <1>4, LenFacts DEF Inv, TypeOK, TokenPerFrame, One
<1>7. TypeOK' /\ Hands' /\ StopsStarted' /\ GateBalance'
    BY <1>1, <1>3, <1>4
    DEF Inv, TypeOK, Hands, StopsStarted, GateBalance
<1> QED
    BY <1>5, <1>6, <1>7 DEF Inv

(* The give of the semaphore, by either producer, always succeeds.         *)
LEMMA SignalInv == ASSUME Inv, CamSignal \/ EncSignal PROVE Inv'
<1>1. /\ sem < VideoLen + AudioLen /\ sem \in Nat /\ sem' = sem + 1
      /\ sem + 1 \in 0..VideoLen + AudioLen
    BY SignalFacts, StreamingAssumption
    DEF CamSignal, EncSignal, Signal, Inv, TypeOK
<1>2. UNCHANGED <<gate, capturing, stopping, surplus, fb, pkt, still, route,
                  strayed, video, audio, stream, sending, free, lost>>
    BY DEF CamSignal, EncSignal, gateVars, camVars, encVars, streamVars
<1>3. CASE CamSignal
    <2>1. cam = "signal" /\ cam' = "give" /\ enc' = enc
        BY <1>3 DEF CamSignal, encVars
    <2>2. TokenPerFrame'
        BY <1>1, <1>2, <2>1, LenFacts DEF Inv, TypeOK, TokenPerFrame, One
    <2> QED
        BY <1>1, <1>2, <2>1, <2>2
        DEF Inv, TypeOK, Hands, StopsStarted, WokenForFrame, GateBalance, Holding
<1>4. CASE EncSignal
    <2>1. enc = "signal" /\ enc' = "idle" /\ cam' = cam
        BY <1>4 DEF EncSignal, camVars
    <2>2. TokenPerFrame'
        BY <1>1, <1>2, <2>1, LenFacts DEF Inv, TypeOK, TokenPerFrame, One
    <2> QED
        BY <1>1, <1>2, <2>1, <2>2
        DEF Inv, TypeOK, Hands, StopsStarted, WokenForFrame, GateBalance
<1> QED
    BY <1>3, <1>4

-----------------------------------------------------------------------------
(* The encoder before it has a queue, and still_handler.                   *)
LEMMA ProducersInv ==
    ASSUME Inv, EncPacket \/ EncRoute \/ StillGet \/ StillReturn PROVE Inv'
<1>1. /\ enc' \in {"idle", "route", "send", "signal"}
      /\ enc # "signal" <=> enc' # "signal"
      /\ pkt' \in Packets \cup {None} /\ still' \in Fbs \cup {None}
      /\ free' \subseteq Frames /\ route' \in {"none", "video", "audio"}
    BY DEF Inv, TypeOK, EncPacket, EncRoute, StillGet, StillReturn, encVars,
           queueVars, Frames
<1>2. Hands'
    BY StreamingAssumption
    DEF Inv, Hands, EncPacket, EncRoute, StillGet, StillReturn, camVars,
        encVars, queueVars, streamVars, Frames
<1>3. UNCHANGED <<gate, capturing, stopping, surplus, cam, fb, strayed, video,
                  audio, sem, stream, sending, lost>>
    BY DEF EncPacket, EncRoute, StillGet, StillReturn, gateVars, camVars,
           queueVars, streamVars
<1> QED
    <2>1. TokenPerFrame' /\ WokenForFrame' /\ GateBalance' /\ StopsStarted'
        BY <1>1, <1>3
        DEF Inv, TokenPerFrame, WokenForFrame, GateBalance, StopsStarted, One
    <2>2. TypeOK'
        BY <1>1, <1>3 DEF Inv, TypeOK
    <2> QED
        BY <1>2, <2>1, <2>2 DEF Inv

-----------------------------------------------------------------------------
(* stream_task                                                             *)

LEMMA StreamTakeInv == ASSUME Inv, StreamTake PROVE Inv'
<1>1. UNCHANGED <<gate, capturing, stopping, surplus, cam, fb, enc, pkt, still,
                  route, strayed, video, audio, sending, free, lost>>
    BY DEF StreamTake, gateVars, camVars, encVars
<1>2. /\ sem \in Nat /\ sem > 0 /\ sem' = sem - 1
      /\ sem' \in 0..VideoLen + AudioLen
      /\ stream = "take" /\ stream' = "receive"
    BY StreamingAssumption DEF StreamTake, Inv, TypeOK
<1>3. TokenPerFrame'
    BY <1>1, <1>2, LenFacts DEF Inv, TypeOK, TokenPerFrame, One
<1> QED
    BY <1>1, <1>2, <1>3
    DEF Inv, TypeOK, Hands, StopsStarted, WokenForFrame, GateBalance

(* A token without a frame in the audio queue stands for one in the video  *)
(* queue.                                                                  *)
LEMMA ReceiveAudioInv == ASSUME Inv, ReceiveAudio PROVE Inv'
<1>1. UNCHANGED <<gate, capturing, stopping, surplus, cam, fb, enc, pkt, still,
                  route, strayed, video, sem, free, lost>>
    BY DEF ReceiveAudio, gateVars, camVars, encVars
<1>2. CASE audio # <<>>
    <2>1. /\ sending' = Head(audio) /\ audio' = Tail(audio)
          /\ stream = "receive" /\ stream' = "send"
        BY <1>2 DEF ReceiveAudio
    <2>2. /\ sending' \in Frames /\ audio' \in Seq(Frames)
          /\ Len(audio') = Len(audio) - 1
        BY <1>2, <2>1, TailFacts DEF Inv, TypeOK
    <2>3. TokenPerFrame'
        BY <1>1, <2>1, <2>2, LenFacts DEF Inv, TypeOK, TokenPerFrame, One
    <2>4. Len(audio') <= AudioLen
        BY <2>2, LenFacts, StreamingAssumption DEF Inv, TypeOK
    <2> QED
        BY <1>1, <2>1, <2>2, <2>3, <2>4, StreamingAssumption
        DEF Inv, TypeOK, Hands, StopsStarted, WokenForFrame, GateBalance
<1>3. CASE audio = <<>>
    <2>1. /\ stream = "receive" /\ stream' = "receiveVideo"
          /\ UNCHANGED <<audio, sending>>
        BY <1>3 DEF ReceiveAudio
    <2>2. video # <<>>
        BY <1>3, <2>1, LenFacts DEF Inv, TypeOK, TokenPerFrame, One
    <2>3. TokenPerFrame'
        BY <1>1, <2>1 DEF Inv, TokenPerFrame
    <2> QED
        BY <1>1, <2>1, <2>2, <2>3
        DEF Inv, TypeOK, Hands, StopsStarted, WokenForFrame, GateBalance
<1> QED
    BY <1>2, <1>3

LEMMA ReceiveVideoInv == ASSUME Inv, ReceiveVideo PROVE Inv'
<1>1. UNCHANGED <<gate, capturing, stopping, surplus, cam, fb, enc, pkt, still,
                  route, strayed, audio, sem, free, lost>>
    BY DEF ReceiveVideo, gateVars, camVars, encVars
<1>2. video # <<>>
    BY DEF Inv, WokenForFrame, ReceiveVideo
<1>3. /\ sending' = Head(video) /\ video' = Tail(video)
      /\ stream = "receiveVideo" /\ stream' = "send"
    BY <1>2 DEF ReceiveVideo
<1>4. /\ sending' \in Frames /\ video' \in Seq(Frames)
      /\ Len(video') = Len(video) - 1
    BY <1>2, <1>3, TailFacts DEF Inv, TypeOK
<1>5. TokenPerFrame'
    <2>1. Len(video) \in Nat /\ Len(audio) \in Nat /\ sem \in Nat
        BY LenFacts, StreamingAssumption DEF Inv, TypeOK
    <2>2. Len(video) + Len(audio) =
              sem + One(cam = "signal") + One(enc = "signal") + 1
        BY <1>3 DEF Inv, TokenPerFrame, One
    <2>3. One(cam = "signal") \in Nat /\ One(enc = "signal") \in Nat
        BY DEF One
    <2>4. Len(video') + Len(audio) =
              sem + One(cam = "signal") + One(enc = "signal") + 0
        BY <1>4, <2>1, <2>2, <2>3, SMTT(60)
    <2> QED
        BY <1>1, <1>3, <2>4 DEF TokenPerFrame, One
<1>6. Len(video') <= VideoLen
    BY <1>4, LenFacts, StreamingAssumption DEF Inv, TypeOK
<1> QED
    BY <1>1, <1>3, <1>4, <1>5, <1>6, StreamingAssumption
    DEF Inv, TypeOK, Hands, StopsStarted, WokenForFrame, GateBalance

LEMMA SendAndFreeInv == ASSUME Inv, SendAndFree PROVE Inv'
<1>1. /\ free' \subseteq Frames /\ sending' = None
      /\ stream = "send" /\ stream' = "take"
    BY DEF Inv, TypeOK, Hands, SendAndFree
<1>2. UNCHANGED <<gate, capturing, stopping, surplus, cam, fb, enc, pkt, still,
                  route, strayed, video, audio, sem, lost>>
    BY DEF SendAndFree, gateVars, camVars, encVars, queueVars
<1>3. TokenPerFrame'
    BY <1>1, <1>2 DEF Inv, TokenPerFrame, One
<1> QED
    BY <1>1, <1>2, <1>3
    DEF Inv, TypeOK, Hands, StopsStarted, WokenForFrame, GateBalance

-----------------------------------------------------------------------------
LEMMA NextInv == ASSUME Inv, [Next]_vars PROVE Inv'
<1>1. CASE UNCHANGED vars
    BY <1>1
    DEF vars, gateVars, camVars, encVars, queueVars, streamVars, Inv, TypeOK,
        Hands, StopsStarted, TokenPerFrame, WokenForFrame, GateBalance
<1>2. CASE CameraStart \/ CameraStop \/ StopTakes \/ StopTimesOut
    BY <1>2, StartStopInv
<1>3. CASE CamTask
    BY <1>3, CamQuietInv, CamGivesInv, CamSendInv, SignalInv DEF CamTask
<1>4. CASE EncPacket \/ EncPush \/ StillGet \/ StillReturn
    BY <1>4, ProducersInv, EncSendInv, SignalInv DEF EncPush
<1>5. CASE StreamTask
    BY <1>5, StreamTakeInv, ReceiveAudioInv, ReceiveVideoInv, SendAndFreeInv
    DEF StreamTask
<1> QED
    BY <1>1, <1>2, <1>3, <1>4, <1>5 DEF Next

(* The variables keep their types; in particular neither queue grows       *)
(* beyond its length and the gate stays binary (rtp_init, camera_init).    *)
THEOREM TypeCorrect == Spec => []TypeOK
<1>1. Init => Inv
    BY InitInv
<1>2. Inv /\ [Next]_vars => Inv'
    BY NextInv
<1>3. Inv => TypeOK
    BY DEF Inv
<1> QED
    BY <1>1, <1>2, <1>3, PTL DEF Spec

(* queue_semaphore counts the queued frames of both queues, up to what the *)
(* three tasks are in the middle of (add_frame_to_queue, stream_task).     *)
THEOREM TokensCountFrames == Spec => []TokenPerFrame
<1>1. Init => Inv
    BY InitInv
<1>2. Inv /\ [Next]_vars => Inv'
    BY NextInv
<1>3. Inv => TokenPerFrame
    BY DEF Inv
<1> QED
    BY <1>1, <1>2, <1>3, PTL DEF Spec

(* stream_task always finds a frame in one of the queues when it wakes up, *)
(* so that its "continue" is never taken.                                  *)
THEOREM NoIdleWakeup == Spec => []WokenForFrame
<1>1. Init => Inv
    BY InitInv
<1>2. Inv /\ [Next]_vars => Inv'
    BY NextInv
<1>3. Inv => WokenForFrame
    BY DEF Inv
<1> QED
    BY <1>1, <1>2, <1>3, PTL DEF Spec

(* Giving queue_semaphore for a queued frame never fails, so that the      *)
(* error path of add_frame_to_queue cannot release a queued frame.         *)
THEOREM NoFailedSignal == Spec => []SignalSucceeds
<1>1. Init => Inv
    BY InitInv
<1>2. Inv /\ [Next]_vars => Inv'
    BY NextInv
<1>3. Inv => SignalSucceeds
    BY SignalFacts DEF SignalSucceeds
<1> QED
    BY <1>1, <1>2, <1>3, PTL DEF Spec

(* The capture gate has one token while the camera is started and none     *)
(* while it is stopped, but for the surplus a timed-out stop leaves.       *)
THEOREM GateIsBalanced == Spec => []GateBalance
<1>1. Init => Inv
    BY InitInv
<1>2. Inv /\ [Next]_vars => Inv'
    BY NextInv
<1>3. Inv => GateBalance
    BY DEF Inv
<1> QED
    BY <1>1, <1>2, <1>3, PTL DEF Spec

-----------------------------------------------------------------------------
(* Who holds a frame                                                       *)

(* Between two frames a task has none; as long as no frame strayed, each   *)
(* queue has frames of its own kind and only packets were lost.            *)
HandsEmpty == /\ cam \notin {"route", "send"} => fb = None
              /\ enc \notin {"route", "send"} => pkt = None
              /\ stream # "send" => sending = None

Sorted == ~strayed => /\ Elements(video) \subseteq Fbs
                      /\ Elements(audio) \subseteq Packets
                      /\ lost \subseteq Packets

HolderInv == HandsEmpty /\ OneHolder /\ Sorted

(* A frame that changes hands.                                             *)
LEMMA Move ==
    ASSUME NEW a, NEW b, NEW from \in Places, NEW to \in Places, from # to,
           NEW f, f \in a[from], Partition(a),
           \A h \in Places : b[h] = IF h = from THEN a[h] \ {f}
                                    ELSE IF h = to THEN a[h] \cup {f} ELSE a[h]
    PROVE  Partition(b)
<1> SUFFICES ASSUME NEW g \in Frames
             PROVE  \E h \in Places :
                        g \in b[h] /\ \A k \in Places \ {h} : g \notin b[k]
    BY DEF Partition
<1>1. PICK h \in Places : g \in a[h] /\ \A k \in Places \ {h} : g \notin a[k]
    BY DEF Partition
<1>2. CASE g = f
    <2>1. h = from
        BY <1>1, <1>2
    <2>2. g \in b[to] /\ \A k \in Places \ {to} : g \notin b[k]
        BY <1>1, <1>2, <2>1
    <2> QED
        BY <2>2
<1>3. CASE g # f
    BY <1>1, <1>3
<1> QED
    BY <1>2, <1>3

LEMMA HoldersAre ==
    /\ Holders["free"] = free /\ Holders["lost"] = lost
    /\ Holders["cam"] = {fb} \ {None} /\ Holders["enc"] = {pkt} \ {None}
    /\ Holders["still"] = {still} \ {None} /\ Holders["stream"] = {sending} \ {None}
    /\ Holders["video"] = Elements(video) /\ Holders["audio"] = Elements(audio)
BY DEF Holders, Places

(* A frame that has a holder is with no other one.                         *)
LEMMA HeldOnce ==
    ASSUME OneHolder, NEW f \in Frames, NEW h \in Places, NEW k \in Places,
           f \in Holders[h], h # k
    PROVE  f \notin Holders[k]
BY DEF OneHolder, Partition

LEMMA AppendElements ==
    ASSUME NEW q \in Seq(Frames), NEW f \in Frames, NoRepeat(q), f \notin Elements(q)
    PROVE  /\ Elements(Append(q, f)) = Elements(q) \cup {f}
           /\ NoRepeat(Append(q, f))
<1> DEFINE r == Append(q, f)
<1>1. /\ Len(q) \in Nat /\ DOMAIN q = 1..Len(q) /\ DOMAIN r = 1..Len(q) + 1
      /\ \A i \in 1..Len(q) : r[i] = q[i]
      /\ r[Len(q) + 1] = f
    BY AppendProperties, LenProperties
<1> HIDE DEF r
<1>2. ASSUME NEW i \in DOMAIN r
      PROVE  \/ i \in DOMAIN q /\ r[i] = q[i]
             \/ i = Len(q) + 1 /\ r[i] = f
    <2>1. i \in 1..Len(q) \/ i = Len(q) + 1
        BY <1>1
    <2> QED
        BY <1>1, <2>1
<1>3. Elements(r) = Elements(q) \cup {f}
    <2>1. Elements(q) \subseteq Elements(r) /\ f \in Elements(r)
        BY <1>1 DEF Elements
    <2>2. Elements(r) \subseteq Elements(q) \cup {f}
        BY <1>2 DEF Elements
    <2> QED
        BY <2>1, <2>2
<1>4. NoRepeat(r)
    BY <1>1, <1>2 DEF NoRepeat, Elements
<1> QED
    BY <1>3, <1>4 DEF r

LEMMA TailElements ==
    ASSUME NEW q \in Seq(Frames), q # <<>>, NoRepeat(q)
    PROVE  /\ Head(q) \in Elements(q)
           /\ Elements(Tail(q)) = Elements(q) \ {Head(q)}
           /\ NoRepeat(Tail(q))
<1> DEFINE r == Tail(q)
<1>1. /\ Len(q) \in Nat \ {0} /\ DOMAIN q = 1..Len(q)
      /\ DOMAIN r = 1..Len(q) - 1
      /\ Head(q) = q[1]
      /\ \A i \in 1..Len(q) - 1 : r[i] = q[i + 1]
    BY HeadTailProperties, LenProperties, EmptySeq
<1> HIDE DEF r
<1>2. NoRepeat(r)
    BY <1>1 DEF NoRepeat
<1>3. Elements(r) = Elements(q) \ {q[1]}
    <2>1. \A i \in DOMAIN r : r[i] \in Elements(q) /\ r[i] # q[1]
        BY <1>1 DEF Elements, NoRepeat
    <2>2. ASSUME NEW i \in DOMAIN q, q[i] # q[1] PROVE q[i] \in Elements(r)
        <3>1. i - 1 \in DOMAIN r /\ r[i - 1] = q[i]
            BY <1>1, <2>2
        <3> QED
            BY <3>1 DEF Elements
    <2> QED
        BY <2>1, <2>2 DEF Elements
<1>4. q[1] \in Elements(q)
    BY <1>1 DEF Elements
<1> QED
    BY <1>1, <1>2, <1>3, <1>4 DEF r

(* The queue of the pictures has room for all buffers there are.           *)
LEMMA VideoHasRoom ==
    ASSUME NEW q \in Seq(Frames), NoRepeat(q), Elements(q) \subseteq Fbs,
           NEW f \in Fbs, f \notin Elements(q)
    PROVE  Len(q) < VideoLen
<1>1. Len(q) \in Nat /\ DOMAIN q = 1..Len(q)
    BY LenProperties
<1>2. IsFiniteSet(Fbs) /\ Cardinality(Fbs) \in Nat /\ Cardinality(Fbs) <= VideoLen
    BY BuffersFit, FS_CardinalityType
<1> DEFINE g == [i \in 1..Len(q) + 1 |-> IF i = Len(q) + 1 THEN f ELSE q[i]]
<1>3. g \in [1..Len(q) + 1 -> Fbs]
    BY <1>1 DEF Elements
<1>4. \A i, j \in 1..Len(q) + 1 : i # j => g[i] # g[j]
    BY <1>1 DEF Elements, NoRepeat
<1>5. IsFiniteSet(1..Len(q) + 1) /\ Cardinality(1..Len(q) + 1) = Len(q) + 1
    BY <1>1, FS_Interval
<1> HIDE DEF g
<1>6. ~(Cardinality(Fbs) < Cardinality(1..Len(q) + 1))
    BY <1>2, <1>3, <1>4, <1>5, FS_PigeonHole
<1> QED
    BY <1>1, <1>2, <1>5, <1>6, StreamingAssumption

-----------------------------------------------------------------------------
(* Steps in which no frame changes hands.                                  *)
LEMMA NobodyMoves ==
    ASSUME HolderInv, HandsEmpty',
           UNCHANGED <<fb, pkt, still, strayed, video, audio, sending, free, lost>>
    PROVE  HolderInv'
<1>1. Holders' = Holders
    BY DEF Holders
<1> QED
    BY <1>1 DEF HolderInv, OneHolder, Sorted

LEMMA GateHolders ==
    ASSUME HolderInv,
           CameraStart \/ CameraStop \/ StopTakes \/ StopTimesOut \/ CamTake
             \/ CamGetFails \/ CamSignal \/ CamGive \/ CamDelay
    PROVE  HolderInv'
<1>1. UNCHANGED <<fb, pkt, still, strayed, video, audio, sending, free, lost, enc, stream>>
    BY DEF CameraStart, CameraStop, StopTakes, StopTimesOut, CamTake, CamGetFails, CamSignal,
           CamGive, CamDelay, camVars, encVars, queueVars, streamVars
<1>2. cam' = cam \/ (cam \notin {"route", "send"} /\ cam' \notin {"route", "send"})
    BY DEF CameraStart, CameraStop, StopTakes, StopTimesOut, CamTake, CamGetFails, CamSignal,
           CamGive, CamDelay, camVars
<1>3. HandsEmpty'
    BY <1>1, <1>2 DEF HolderInv, HandsEmpty
<1> QED
    BY <1>1, <1>3, NobodyMoves

LEMMA RouteHolders ==
    ASSUME HolderInv, CamRoute \/ EncRoute \/ EncSignal \/ StreamTake
    PROVE  HolderInv'
<1>1. UNCHANGED <<fb, pkt, still, strayed, video, audio, sending, free, lost>>
    BY DEF CamRoute, EncRoute, EncSignal, StreamTake, camVars, encVars, streamVars
<1>2. HandsEmpty'
    BY DEF HolderInv, HandsEmpty, CamRoute, EncRoute, EncSignal, StreamTake, camVars, encVars,
           streamVars
<1> QED
    BY <1>1, <1>2, NobodyMoves

(* Buffers and packets that leave the free ones, or come back.             *)
LEMMA TakeHolders ==
    ASSUME Inv, HolderInv, CamGet \/ EncPacket \/ StillGet
    PROVE  HolderInv'
<1> USE StreamingAssumption DEF Places
<1>1. UNCHANGED <<strayed, video, audio, sending, stream, lost>>
    BY DEF CamGet, EncPacket, StillGet, queueVars, streamVars
<1>2. CASE CamGet
    <2>1. PICK f \in free \cap Fbs : fb' = f /\ free' = free \ {f}
        BY <1>2 DEF CamGet
    <2>2. /\ fb = None /\ f # None /\ cam' = "route"
          /\ UNCHANGED <<enc, pkt, still>>
        BY <1>2 DEF CamGet, encVars, HolderInv, HandsEmpty, Frames
    <2>3. \A h \in Places : Holders'[h] = IF h = "free" THEN Holders[h] \ {f}
                                        ELSE IF h = "cam" THEN Holders[h] \cup {f}
                                        ELSE Holders[h]
        BY <1>1, <2>1, <2>2 DEF Holders
    <2>4. f \in Holders["free"]
        BY HoldersAre
    <2>5. Partition(Holders')
        BY <2>3, <2>4, Move DEF HolderInv, OneHolder
    <2> QED
        BY <1>1, <2>2, <2>5 DEF HolderInv, HandsEmpty, OneHolder, Sorted
<1>3. CASE EncPacket
    <2>1. PICK f \in free \cap Packets : pkt' = f /\ free' = free \ {f}
        BY <1>3 DEF EncPacket
    <2>2. /\ pkt = None /\ f # None /\ enc' = "route"
          /\ UNCHANGED <<cam, fb, still>>
        BY <1>3 DEF EncPacket, camVars, HolderInv, HandsEmpty, Frames
    <2>3. \A h \in Places : Holders'[h] = IF h = "free" THEN Holders[h] \ {f}
                                        ELSE IF h = "enc" THEN Holders[h] \cup {f}
                                        ELSE Holders[h]
        BY <1>1, <2>1, <2>2 DEF Holders
    <2>4. f \in Holders["free"]
        BY HoldersAre
    <2>5. Partition(Holders')
        BY <2>3, <2>4, Move DEF HolderInv, OneHolder
    <2> QED
        BY <1>1, <2>2, <2>5 DEF HolderInv, HandsEmpty, OneHolder, Sorted
<1>4. CASE StillGet
    <2>1. PICK f \in free \cap Fbs : still' = f /\ free' = free \ {f}
        BY <1>4 DEF StillGet
    <2>2. /\ still = None /\ f # None
          /\ UNCHANGED <<cam, fb, enc, pkt>>
        BY <1>4 DEF StillGet, camVars, encVars, Frames
    <2>3. \A h \in Places : Holders'[h] = IF h = "free" THEN Holders[h] \ {f}
                                        ELSE IF h = "still" THEN Holders[h] \cup {f}
                                        ELSE Holders[h]
        BY <1>1, <2>1, <2>2 DEF Holders
    <2>4. f \in Holders["free"]
        BY HoldersAre
    <2>5. Partition(Holders')
        BY <2>3, <2>4, Move DEF HolderInv, OneHolder
    <2> QED
        BY <1>1, <2>2, <2>5 DEF HolderInv, HandsEmpty, OneHolder, Sorted
<1> QED
    BY <1>2, <1>3, <1>4

LEMMA ReleaseHolders ==
    ASSUME Inv, HolderInv, StillReturn \/ SendAndFree
    PROVE  HolderInv'
<1> USE StreamingAssumption DEF Places
<1>1. UNCHANGED <<strayed, video, audio, cam, fb, enc, pkt, lost>>
    BY DEF StillReturn, SendAndFree, queueVars, camVars, encVars
<1>2. CASE StillReturn
    <2>1. /\ still # None /\ still' = None /\ free' = free \cup {still}
          /\ UNCHANGED <<stream, sending>>
        BY <1>2 DEF StillReturn, streamVars
    <2>2. still \in Holders["still"]
        BY <2>1, HoldersAre
    <2>3. \A h \in Places : Holders'[h] = IF h = "still" THEN Holders[h] \ {still}
                                        ELSE IF h = "free" THEN Holders[h] \cup {still}
                                        ELSE Holders[h]
        BY <1>1, <2>1 DEF Holders
    <2>4. Partition(Holders')
        BY <2>2, <2>3, Move DEF HolderInv, OneHolder
    <2> QED
        BY <1>1, <2>1, <2>4 DEF HolderInv, HandsEmpty, OneHolder, Sorted
<1>3. CASE SendAndFree
    <2>1. /\ sending # None /\ sending' = None /\ free' = free \cup {sending}
          /\ still' = still
        BY <1>3 DEF SendAndFree, Inv, Hands
    <2>2. sending \in Holders["stream"]
        BY <2>1, HoldersAre
    <2>3. \A h \in Places : Holders'[h] = IF h = "stream" THEN Holders[h] \ {sending}
                                        ELSE IF h = "free" THEN Holders[h] \cup {sending}
                                        ELSE Holders[h]
        BY <1>1, <2>1 DEF Holders
    <2>4. Partition(Holders')
        BY <2>2, <2>3, Move DEF HolderInv, OneHolder
    <2> QED
        BY <1>1, <2>1, <2>4 DEF HolderInv, HandsEmpty, OneHolder, Sorted
<1> QED
    BY <1>2, <1>3

(* A picture that is offered to a queue is queued, or refused and lost.    *)
LEMMA CamSendHolders == ASSUME Inv, HolderInv, CamSend PROVE HolderInv'
<1> USE StreamingAssumption DEF Places
<1>1. /\ fb \in Fbs /\ fb \in Frames /\ fb # None /\ fb' = None
      /\ cam = "send" /\ route # "none"
      /\ UNCHANGED <<enc, pkt, still, stream, sending, free>>
    BY DEF CamSend, Inv, TypeOK, Hands, Frames, encVars, streamVars
<1>2. PICK q \in {"video", "audio"} :
          \/ Enqueue(q, "video", fb) /\ cam' = "signal"
          \/ Refused(q, "video", fb) /\ cam' = "give"
    BY <1>1 DEF Inv, TypeOK, CamSend
<1>3. /\ video \in Seq(Frames) /\ NoRepeat(video) /\ fb \notin Elements(video)
      /\ audio \in Seq(Frames) /\ NoRepeat(audio) /\ fb \notin Elements(audio)
      /\ fb \in Holders["cam"]
    BY <1>1, HoldersAre, HeldOnce DEF Inv, TypeOK, HolderInv, OneHolder
<1>4. HandsEmpty' /\ (~strayed' => ~strayed /\ q = "video")
    BY <1>1, <1>2 DEF HolderInv, HandsEmpty, Enqueue, Refused
<1>5. CASE Enqueue(q, "video", fb)
    <2>1. CASE q = "video"
        <3>1. video' = Append(video, fb) /\ UNCHANGED <<audio, lost>>
            BY <1>5, <2>1 DEF Enqueue
        <3>2. Elements(video)' = Elements(video) \cup {fb} /\ NoRepeat(video)'
            BY <1>1, <1>3, <3>1, AppendElements
        <3>3. \A h \in Places : Holders'[h] = IF h = "cam" THEN Holders[h] \ {fb}
                                            ELSE IF h = "video" THEN Holders[h] \cup {fb}
                                            ELSE Holders[h]
            BY <1>1, <3>1, <3>2 DEF Holders
        <3>4. Partition(Holders')
            BY <1>3, <3>3, Move DEF HolderInv, OneHolder
        <3> QED
            BY <1>1, <1>3, <1>4, <3>1, <3>2, <3>4 DEF HolderInv, OneHolder, Sorted
    <2>2. CASE q = "audio"
        <3>1. audio' = Append(audio, fb) /\ UNCHANGED <<video, lost>>
            BY <1>5, <2>2 DEF Enqueue
        <3>2. Elements(audio)' = Elements(audio) \cup {fb} /\ NoRepeat(audio)'
            BY <1>1, <1>3, <3>1, AppendElements
        <3>3. \A h \in Places : Holders'[h] = IF h = "cam" THEN Holders[h] \ {fb}
                                            ELSE IF h = "audio" THEN Holders[h] \cup {fb}
                                            ELSE Holders[h]
            BY <1>1, <3>1, <3>2 DEF Holders
        <3>4. Partition(Holders')
            BY <1>3, <3>3, Move DEF HolderInv, OneHolder
        <3> QED
            BY <1>3, <1>4, <2>2, <3>1, <3>2, <3>4 DEF OneHolder, HolderInv, Sorted
    <2> QED
        BY <2>1, <2>2
<1>6. CASE Refused(q, "video", fb)
    <2>1. Full(q) /\ lost' = lost \cup {fb} /\ UNCHANGED <<video, audio>>
        BY <1>6 DEF Refused
    <2>2. \A h \in Places : Holders'[h] = IF h = "cam" THEN Holders[h] \ {fb}
                                        ELSE IF h = "lost" THEN Holders[h] \cup {fb}
                                        ELSE Holders[h]
        BY <1>1, <2>1 DEF Holders
    <2>3. Partition(Holders')
        BY <1>3, <2>2, Move DEF HolderInv, OneHolder
    <2>4. strayed'
        <3>1. SUFFICES ASSUME ~strayed' PROVE FALSE
            OBVIOUS
        <3>2. Len(video) < VideoLen
            BY <1>1, <1>3, <1>4, <3>1, VideoHasRoom DEF HolderInv, Sorted
        <3>3. q = "video"
            BY <1>4, <3>1
        <3>4. Len(video) >= VideoLen
            BY <2>1, <3>3 DEF Full
        <3> QED
            BY <1>3, <3>2, <3>4, LenFacts
    <2> QED
        BY <1>3, <1>4, <2>1, <2>3, <2>4 DEF HolderInv, OneHolder, Sorted
<1> QED
    BY <1>2, <1>5, <1>6

LEMMA EncSendHolders == ASSUME Inv, HolderInv, EncSend PROVE HolderInv'
<1> USE StreamingAssumption DEF Places
<1>1. /\ pkt \in Packets /\ pkt \in Frames /\ pkt # None /\ pkt' = None
      /\ enc = "send" /\ route # "none"
      /\ UNCHANGED <<cam, fb, still, stream, sending, free>>
    BY DEF EncSend, Inv, TypeOK, Hands, Frames, camVars, streamVars
<1>2. PICK q \in {"video", "audio"} :
          \/ Enqueue(q, "audio", pkt) /\ enc' = "signal"
          \/ Refused(q, "audio", pkt) /\ enc' = "idle"
    BY <1>1 DEF Inv, TypeOK, EncSend
<1>3. /\ video \in Seq(Frames) /\ NoRepeat(video) /\ pkt \notin Elements(video)
      /\ audio \in Seq(Frames) /\ NoRepeat(audio) /\ pkt \notin Elements(audio)
      /\ pkt \in Holders["enc"]
    BY <1>1, HoldersAre, HeldOnce DEF Inv, TypeOK, HolderInv, OneHolder
<1>4. HandsEmpty' /\ (~strayed' => ~strayed /\ q = "audio")
    BY <1>1, <1>2 DEF HolderInv, HandsEmpty, Enqueue, Refused
<1>5. CASE Enqueue(q, "audio", pkt)
    <2>1. CASE q = "video"
        <3>1. video' = Append(video, pkt) /\ UNCHANGED <<audio, lost>>
            BY <1>5, <2>1 DEF Enqueue
        <3>2. Elements(video)' = Elements(video) \cup {pkt} /\ NoRepeat(video)'
            BY <1>1, <1>3, <3>1, AppendElements
        <3>3. \A h \in Places : Holders'[h] = IF h = "enc" THEN Holders[h] \ {pkt}
                                            ELSE IF h = "video" THEN Holders[h] \cup {pkt}
                                            ELSE Holders[h]
            BY <1>1, <3>1, <3>2 DEF Holders
        <3>4. Partition(Holders')
            BY <1>3, <3>3, Move DEF HolderInv, OneHolder
        <3> QED
            BY <1>3, <1>4, <2>1, <3>1, <3>2, <3>4 DEF HolderInv, OneHolder, Sorted
    <2>2. CASE q = "audio"
        <3>1. audio' = Append(audio, pkt) /\ UNCHANGED <<video, lost>>
            BY <1>5, <2>2 DEF Enqueue
        <3>2. Elements(audio)' = Elements(audio) \cup {pkt} /\ NoRepeat(audio)'
            BY <1>1, <1>3, <3>1, AppendElements
        <3>3. \A h \in Places : Holders'[h] = IF h = "enc" THEN Holders[h] \ {pkt}
                                            ELSE IF h = "audio" THEN Holders[h] \cup {pkt}
                                            ELSE Holders[h]
            BY <1>1, <3>1, <3>2 DEF Holders
        <3>4. Partition(Holders')
            BY <1>3, <3>3, Move DEF HolderInv, OneHolder
        <3> QED
            BY <1>1, <1>3, <1>4, <3>1, <3>2, <3>4 DEF HolderInv, OneHolder, Sorted
    <2> QED
        BY <2>1, <2>2
<1>6. CASE Refused(q, "audio", pkt)
    <2>1. lost' = lost \cup {pkt} /\ UNCHANGED <<video, audio>>
        BY <1>6 DEF Refused
    <2>2. \A h \in Places : Holders'[h] = IF h = "enc" THEN Holders[h] \ {pkt}
                                        ELSE IF h = "lost" THEN Holders[h] \cup {pkt}
                                        ELSE Holders[h]
        BY <1>1, <2>1 DEF Holders
    <2>3. Partition(Holders')
        BY <1>3, <2>2, Move DEF HolderInv, OneHolder
    <2> QED
        BY <1>1, <1>3, <1>4, <2>1, <2>3 DEF HolderInv, OneHolder, Sorted
<1> QED
    BY <1>2, <1>5, <1>6

LEMMA ReceiveHolders ==
    ASSUME Inv, HolderInv, ReceiveAudio \/ ReceiveVideo
    PROVE  HolderInv'
<1> USE StreamingAssumption DEF Places
<1>1. UNCHANGED <<strayed, cam, fb, enc, pkt, still, free, lost>>
    BY DEF ReceiveAudio, ReceiveVideo, camVars, encVars
<1>2. stream # "send" /\ sending = None
    BY DEF ReceiveAudio, ReceiveVideo, HolderInv, HandsEmpty
<1>3. /\ video \in Seq(Frames) /\ NoRepeat(video) /\ audio \in Seq(Frames) /\ NoRepeat(audio)
    BY DEF Inv, TypeOK, HolderInv, OneHolder
<1>4. CASE ReceiveAudio /\ audio # <<>>
    <2>1. sending' = Head(audio) /\ audio' = Tail(audio) /\ stream' = "send" /\ video' = video
        BY <1>4 DEF ReceiveAudio
    <2>2. /\ Head(audio) \in Elements(audio) /\ Head(audio) \in Frames /\ Head(audio) # None
          /\ Elements(audio)' = Elements(audio) \ {Head(audio)} /\ NoRepeat(audio)'
        BY <1>3, <1>4, <2>1, TailElements, TailFacts
    <2>3. \A h \in Places : Holders'[h] = IF h = "audio" THEN Holders[h] \ {Head(audio)}
                                        ELSE IF h = "stream" THEN Holders[h] \cup {Head(audio)}
                                        ELSE Holders[h]
        BY <1>1, <1>2, <2>1, <2>2 DEF Holders
    <2>4. Partition(Holders')
        BY <2>2, <2>3, HoldersAre, Move DEF HolderInv, OneHolder
    <2> QED
        BY <1>1, <1>3, <2>1, <2>2, <2>4 DEF HolderInv, HandsEmpty, OneHolder, Sorted
<1>5. CASE ReceiveVideo /\ video # <<>>
    <2>1. sending' = Head(video) /\ video' = Tail(video) /\ stream' = "send" /\ audio' = audio
        BY <1>5 DEF ReceiveVideo
    <2>2. /\ Head(video) \in Elements(video) /\ Head(video) \in Frames /\ Head(video) # None
          /\ Elements(video)' = Elements(video) \ {Head(video)} /\ NoRepeat(video)'
        BY <1>3, <1>5, <2>1, TailElements, TailFacts
    <2>3. \A h \in Places : Holders'[h] = IF h = "video" THEN Holders[h] \ {Head(video)}
                                        ELSE IF h = "stream" THEN Holders[h] \cup {Head(video)}
                                        ELSE Holders[h]
        BY <1>1, <1>2, <2>1, <2>2 DEF Holders
    <2>4. Partition(Holders')
        BY <2>2, <2>3, HoldersAre, Move DEF HolderInv, OneHolder
    <2> QED
        BY <1>1, <1>3, <2>1, <2>2, <2>4 DEF HolderInv, HandsEmpty, OneHolder, Sorted
<1>6. CASE (ReceiveAudio /\ audio = <<>>) \/ (ReceiveVideo /\ video = <<>>)
    <2>1. UNCHANGED <<video, audio, sending>>
        BY <1>6 DEF ReceiveAudio, ReceiveVideo
    <2>2. HandsEmpty'
        BY <1>1, <1>2, <2>1 DEF HolderInv, HandsEmpty
    <2> QED
        BY <1>1, <2>1, <2>2, NobodyMoves
<1> QED
    BY <1>4, <1>5, <1>6

-----------------------------------------------------------------------------
LEMMA InitHolders == Init => HolderInv
<1> SUFFICES ASSUME Init PROVE HolderInv
    OBVIOUS
<1>1. /\ fb = None /\ pkt = None /\ still = None /\ sending = None /\ stream = "take"
      /\ video = <<>> /\ audio = <<>> /\ free = Frames /\ lost = {}
    BY DEF Init
<1>2. Elements(video) = {} /\ Elements(audio) = {} /\ NoRepeat(video) /\ NoRepeat(audio)
    BY <1>1 DEF Elements, NoRepeat
<1>3. \A h \in Places : Holders[h] = IF h = "free" THEN Frames ELSE {}
    BY <1>1, <1>2 DEF Holders, Places
<1>4. Partition(Holders)
    BY <1>3 DEF Partition, Places
<1> QED
    BY <1>1, <1>2, <1>4 DEF HolderInv, HandsEmpty, OneHolder, Sorted

LEMMA NextHolders == ASSUME Inv, HolderInv, [Next]_vars PROVE HolderInv'
<1>1. CASE UNCHANGED vars
    <2>1. HandsEmpty'
        BY <1>1 DEF vars, camVars, encVars, streamVars, HolderInv, HandsEmpty
    <2> QED
        BY <1>1, <2>1, NobodyMoves DEF vars, camVars, encVars, queueVars, streamVars
<1>2. CASE CameraStart \/ CameraStop \/ StopTakes \/ StopTimesOut
    BY <1>2, GateHolders
<1>3. CASE CamTask
    BY <1>3, GateHolders, RouteHolders, TakeHolders, CamSendHolders DEF CamTask
<1>4. CASE EncPacket \/ EncPush
    BY <1>4, TakeHolders, RouteHolders, EncSendHolders DEF EncPush
<1>5. CASE StillGet \/ StillReturn
    BY <1>5, TakeHolders, ReleaseHolders
<1>6. CASE StreamTask
    BY <1>6, RouteHolders, ReceiveHolders, ReleaseHolders DEF StreamTask
<1> QED
    BY <1>1, <1>2, <1>3, <1>4, <1>5, <1>6 DEF Next

(* No frame is released twice, sent after its buffer went back to the      *)
(* driver, or lost sight of, although three tasks and the HTTP server pass *)
(* frames on and the queue is chosen through an unlocked variable.         *)
THEOREM FramesHaveOneHolder == Spec => []OneHolder
<1>1. Init => Inv /\ HolderInv
    BY InitInv, InitHolders
<1>2. Inv /\ HolderInv /\ [Next]_vars => Inv' /\ HolderInv'
    BY NextInv, NextHolders
<1>3. HolderInv => OneHolder
    BY DEF HolderInv
<1> QED
    BY <1>1, <1>2, <1>3, PTL DEF Spec

(* A picture is never refused by the queue unless some frame strayed       *)
(* through that variable: all buffers of the driver fit into the queue,    *)
(* none of them twice (BuffersFit).                                        *)
THEOREM PicturesAreQueued == Spec => []VideoNeverRefused
<1>1. Init => Inv /\ HolderInv
    BY InitInv, InitHolders
<1>2. Inv /\ HolderInv /\ [Next]_vars => Inv' /\ HolderInv'
    BY NextInv, NextHolders
<1>3. HolderInv => VideoNeverRefused
    BY StreamingAssumption DEF HolderInv, Sorted, VideoNeverRefused
<1> QED
    BY <1>1, <1>2, <1>3, PTL DEF Spec
=============================================================================
