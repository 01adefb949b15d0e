--------------------------- MODULE AudioPathProofs --------------------------
(***************************************************************************)
(* Theorems about AudioPath, for every length of frames_queue, number of   *)
(* frames in a packet, size of the heap and number of reads. The invariant *)
(* says that the frames on their way are in the order in which they were   *)
(* read: sent, in the packet in the making, at the encoder, in the queue,  *)
(* at the microphone. Ownership of the buffers and the refinement rest on  *)
(* that order. PlaceInv adds that every frame read is in one place.        *)
(***************************************************************************)
EXTENDS AudioPath, SequenceTheorems, TLAPS

Reading == mic \in {"read", "encode"}

(* A frame that was read before what is in the queue and at the microphone *)
Before(f) == /\ f <= reads
             /\ Reading => f < reads
             /\ \A i \in 1..Len(frames) : f < frames[i]

QueueOrdered ==
    /\ Reading => reads \in Frames
    /\ \A i \in 1..Len(frames) : frames[i] <= reads /\ (Reading => frames[i] < reads)
    /\ \A i, j \in 1..Len(frames) : i < j => frames[i] < frames[j]

(* The encoder's frame, and those in the slots in use.                     *)
Taken == /\ Before(cur)
         /\ cur = 0 <=> enc = "receive"
         /\ \A s \in 0..current_frame - 1 :
               /\ pending[s] \in Frames
               /\ Before(pending[s])
               /\ enc = "encode" => pending[s] < cur
         /\ \A s \in 1..current_frame - 1 : pending[s - 1] < pending[s]
         /\ current_frame > 0 => first = pending[0]

AllPackets == [frames : [1..Combined -> Int], time : Int]

SentOK == /\ sent \in Seq(AllPackets)
          /\ Before(Stream!LastFrame)
          /\ enc = "encode" => Stream!LastFrame < cur
          /\ \A s \in 0..current_frame - 1 : Stream!LastFrame < pending[s]

StopsStarted == stopping => capturing

Owned == BufferHeld /\ (mic = "encode" => reads \in heap)

Inv == /\ TypeOK /\ StopsStarted /\ GateBalance /\ CountersAgree
       /\ QueueOrdered /\ Taken /\ SentOK /\ Owned

-----------------------------------------------------------------------------
LEMMA Constants ==
    /\ Combined \in Nat /\ Combined >= 1
    /\ Reads \in Nat /\ QueueLen \in Nat /\ QueueLen >= 1
    /\ Frames \subseteq Nat /\ \A f \in Frames : f >= 1 /\ f <= Reads
    /\ Slots = 0..Combined - 1
BY AudioPathAssumption DEF Frames, Slots

LEMMA QueueFacts ==
    ASSUME NEW q \in Seq(Frames)
    PROVE  /\ Len(q) \in Nat
           /\ DOMAIN q = 1..Len(q)
           /\ \A i \in 1..Len(q) : q[i] \in Frames /\ q[i] \in Int
           /\ q # <<>> => /\ Len(q) >= 1
                          /\ Head(q) = q[1]
                          /\ Tail(q) \in Seq(Frames)
                          /\ Len(Tail(q)) = Len(q) - 1
                          /\ \A i \in 1..Len(q) - 1 : Tail(q)[i] = q[i + 1]
<1>0. Len(q) \in Nat /\ DOMAIN q = 1..Len(q) /\ q \in [1..Len(q) -> Frames]
    BY LenProperties
<1>1. Len(q) \in Nat /\ DOMAIN q = 1..Len(q) /\ \A i \in 1..Len(q) : q[i] \in Frames
    BY <1>0
<1>2. \A i \in 1..Len(q) : q[i] \in Int
    BY <1>1 DEF Frames
<1>3. q # <<>> => /\ Len(q) >= 1
                  /\ Head(q) = q[1]
                  /\ Tail(q) \in Seq(Frames)
                  /\ Len(Tail(q)) = Len(q) - 1
                  /\ \A i \in 1..Len(q) - 1 : Tail(q)[i] = q[i + 1]
    BY <1>1, HeadTailProperties, EmptySeq
<1> QED
    BY <1>1, <1>2, <1>3

(* One more frame at the end of the queue.                                 *)
LEMMA AppendFacts ==
    ASSUME NEW q \in Seq(Frames), NEW f \in Frames
    PROVE  /\ Append(q, f) \in Seq(Frames)
           /\ Len(Append(q, f)) = Len(q) + 1
           /\ \A i \in 1..Len(q) : Append(q, f)[i] = q[i]
           /\ Append(q, f)[Len(q) + 1] = f
BY AppendProperties

LEMMA InitInv == Init => Inv
<1> SUFFICES ASSUME Init PROVE Inv
    OBVIOUS
<1>1. /\ gate = 0 /\ mic \in {"gate", "none"} /\ reads = 0
      /\ heap = {} /\ enc = "receive" /\ cur = 0 /\ current_frame = 0 /\ first = 0
      /\ pending = [s \in Slots |-> 0] /\ refused = {} /\ unsent = {}
    BY DEF Init
<1>2. ~capturing /\ ~stopping /\ ~surplus
    BY DEF Init
<1>3. {capturing, stopping, surplus} \subseteq BOOLEAN
    BY Zenon DEF Init
<1>4. /\ frames = <<>> /\ frames \in Seq(Frames) /\ Len(frames) = 0
      /\ sent = <<>> /\ sent \in Seq(AllPackets)
      /\ repack = <<>> /\ repack \in Seq(Slots)
    BY EmptySeq DEF Init
<1>5. TypeOK
    BY <1>1, <1>3, <1>4, Constants DEF TypeOK, Holding
<1>6. GateBalance /\ StopsStarted
    BY <1>1, <1>2 DEF GateBalance, StopsStarted, One, Holding
<1>7. CountersAgree
    BY <1>1, <1>4 DEF CountersAgree
<1>8. QueueOrdered /\ Taken
    BY <1>1, <1>4 DEF QueueOrdered, Taken, Before, Reading
<1>9. SentOK
    BY <1>1, <1>4 DEF SentOK, Before, Reading, Stream!LastFrame
<1>10. Owned
    BY <1>1, <1>4 DEF Owned, BufferHeld, AtMic, Queued
<1> QED
    BY <1>5, <1>6, <1>7, <1>8, <1>9, <1>10 DEF Inv

-----------------------------------------------------------------------------
(* A give that finds the gate given already spends the surplus token.      *)
LEMMA GiveGateBalance ==
    ASSUME TypeOK, GateBalance, GiveGate,
           \/ capturing' = capturing /\ mic \in Holding /\ mic' \notin Holding
           \/ ~capturing /\ capturing' = TRUE /\ mic' = mic
    PROVE  GateBalance' /\ gate' \in 0..1 /\ surplus' \in BOOLEAN
<1>1. gate \in {0, 1} /\ capturing \in BOOLEAN /\ surplus \in BOOLEAN
    BY DEF TypeOK
<1>2. gate' = 1 /\ surplus' = (surplus /\ gate = 0)
    BY DEF GiveGate
<1>3. CASE gate = 0
    <2>1. surplus' = surplus
        BY <1>1, <1>2, <1>3, Zenon
    <2> QED
        BY <1>1, <1>2, <1>3, <2>1 DEF GateBalance, One
<1>4. CASE gate = 1
    <2>1. surplus' = FALSE
        <3>1. ~(gate = 0)
            BY <1>4
        <3> QED
            BY <1>2, <3>1, Zenon
    <2> QED
        BY <1>1, <1>2, <1>4, <2>1 DEF GateBalance, One
<1> QED
    BY <1>1, <1>3, <1>4

(* What the gate alone does not disturb.                                   *)
LEMMA PathStutter ==
    ASSUME Inv, UNCHANGED <<micVars, heap, frames, encVars, refused>>
    PROVE  /\ CountersAgree' /\ QueueOrdered' /\ Taken' /\ SentOK' /\ Owned'
BY DEF Inv, CountersAgree, QueueOrdered, Taken, SentOK, Owned, BufferHeld, AtMic,
       Queued, Before, Reading, Stream!LastFrame, micVars, encVars, opusVars

LEMMA StartStopInv ==
    ASSUME Inv, MicrophoneStart \/ MicrophoneStop \/ StopTakes \/ StopTimesOut
    PROVE  Inv'
<1>1. UNCHANGED <<micVars, heap, frames, encVars, refused>>
    BY DEF MicrophoneStart, MicrophoneStop, StopTakes, StopTimesOut
<1>2. {stopping', capturing'} \subseteq BOOLEAN /\ StopsStarted'
    <2>1. {stopping, capturing} \subseteq BOOLEAN
        BY DEF Inv, TypeOK
    <2> QED
        BY <2>1, Zenon DEF Inv, StopsStarted, MicrophoneStart, MicrophoneStop, StopTakes,
           StopTimesOut
<1>3. GateBalance' /\ gate' \in 0..1 /\ surplus' \in BOOLEAN
    <2>1. CASE MicrophoneStart
        BY <2>1, GiveGateBalance DEF Inv, MicrophoneStart, micVars
    <2>2. CASE MicrophoneStop
        BY <2>2 DEF Inv, TypeOK, GateBalance, MicrophoneStop, One, micVars
    <2>3. CASE StopTakes
        BY <2>3 DEF Inv, TypeOK, StopsStarted, GateBalance, StopTakes, One, micVars
    <2>4. CASE StopTimesOut
        <3>1. surplus' = TRUE /\ capturing' = FALSE /\ gate' = gate /\ mic' = mic
              /\ gate = 0 /\ capturing = TRUE /\ surplus \in BOOLEAN
            BY <2>4 DEF Inv, TypeOK, StopsStarted, StopTimesOut, micVars
        <3> QED
            BY <3>1 DEF Inv, GateBalance, One
    <2> QED
        BY <2>1, <2>2, <2>3, <2>4
<1>4. TypeOK'
    BY <1>1, <1>2, <1>3 DEF Inv, TypeOK, micVars, encVars, opusVars
<1> QED
    BY <1>1, <1>2, <1>3, <1>4, PathStutter DEF Inv

-----------------------------------------------------------------------------
(* The numbers the order is about.                                         *)
LEMMA Numbers ==
    ASSUME Inv
    PROVE  /\ reads \in Nat /\ cur \in Nat /\ current_frame \in Nat
           /\ current_frame <= Combined - 1
           /\ \A s \in 0..current_frame - 1 : pending[s] \in Nat /\ pending[s] >= 1
           /\ \A i \in 1..Len(frames) : frames[i] \in Nat /\ frames[i] >= 1
           /\ Len(frames) \in Nat
           /\ Stream!LastFrame \in Int
<1>1. reads \in Nat /\ cur \in Nat /\ current_frame \in Nat /\ current_frame <= Combined - 1
    BY Constants DEF Inv, TypeOK
<1>2. \A s \in 0..current_frame - 1 : pending[s] \in Nat /\ pending[s] >= 1
    BY Constants DEF Inv, Taken
<1>3. frames \in Seq(Frames)
    BY DEF Inv, TypeOK
<1>4. Len(frames) \in Nat /\ \A i \in 1..Len(frames) : frames[i] \in Nat /\ frames[i] >= 1
    BY <1>3, QueueFacts, Constants
<1>5. Stream!LastFrame \in Int
    <2>1. CASE sent = <<>>
        BY <2>1 DEF Stream!LastFrame
    <2>2. CASE sent # <<>>
        <3>1. sent \in Seq(AllPackets)
            BY DEF Inv, SentOK
        <3>2. Len(sent) \in Nat \ {0}
            BY <2>2, <3>1, EmptySeq
        <3>3. sent[Len(sent)] \in AllPackets
            BY <3>1, <3>2, ElementOfSeq
        <3>4. sent[Len(sent)].frames[Combined] \in Int
            BY <3>3, Constants DEF AllPackets
        <3> QED
            BY <2>2, <3>4 DEF Stream!LastFrame
    <2> QED
        BY <2>1, <2>2
<1> QED
    BY <1>1, <1>2, <1>4, <1>5

(* What is before everything at the microphone and in the queue stays so.  *)
LEMMA OrderKept ==
    ASSUME Inv, UNCHANGED encVars,
           \A f \in Int : Before(f) =>
               /\ f <= reads'
               /\ Reading' => f < reads'
               /\ \A i \in 1..Len(frames') : f < frames'[i]
    PROVE  Taken' /\ SentOK'
<1>1. UNCHANGED <<enc, cur, current_frame, first, pending, sent>>
    BY DEF encVars, opusVars
<1>2. /\ Before(cur)'
      /\ \A s \in 0..current_frame - 1 : Before(pending[s])'
      /\ Before(Stream!LastFrame)'
    <2>1. Stream!LastFrame' = Stream!LastFrame
        BY <1>1 DEF Stream!LastFrame
    <2>2. \A f \in Int : Before(f) =>
             f <= reads' /\ (Reading' => f < reads') /\ \A i \in 1..Len(frames') : f < frames'[i]
        OBVIOUS
    <2>3. Before(cur)'
        <3>1. cur \in Int /\ Before(cur)
            BY Numbers DEF Inv, Taken
        <3> QED
            BY <1>1, <2>2, <3>1 DEF Before
    <2>4. ASSUME NEW s \in 0..current_frame - 1 PROVE Before(pending[s])'
        <3>1. pending[s] \in Int /\ Before(pending[s])
            BY Numbers DEF Inv, Taken
        <3> QED
            BY <1>1, <2>2, <3>1 DEF Before
    <2>5. Before(Stream!LastFrame)'
        <3>1. Stream!LastFrame \in Int /\ Before(Stream!LastFrame)
            BY Numbers DEF Inv, SentOK
        <3>2. /\ Stream!LastFrame <= reads'
              /\ Reading' => Stream!LastFrame < reads'
              /\ \A i \in 1..Len(frames') : Stream!LastFrame < frames'[i]
            BY <2>2, <3>1
        <3> QED
            BY <2>1, <3>2 DEF Before
    <2> QED
        BY <2>3, <2>4, <2>5
<1>3. Taken'
    BY <1>1, <1>2 DEF Inv, Taken
<1>4. SentOK'
    BY <1>1, <1>2 DEF Inv, SentOK, Stream!LastFrame
<1> QED
    BY <1>3, <1>4

LEMMA MicTakeInv == ASSUME Inv, MicTake PROVE Inv'
<1> USE DEF MicTake
<1>1. mic = "gate" /\ mic' = "read" /\ reads' = reads + 1 /\ reads' \in Frames /\ frames' = frames
      /\ UNCHANGED encVars
    BY Numbers, Constants DEF Frames
<1>2. heap' = heap \/ heap' = heap \cup {reads'}
    OBVIOUS
<1>3. TypeOK'
    BY <1>1, <1>2, Constants DEF Inv, TypeOK, Holding, encVars, opusVars
<1>4. StopsStarted' /\ GateBalance' /\ CountersAgree'
    BY <1>1 DEF Inv, TypeOK, StopsStarted, GateBalance, One, Holding, CountersAgree, encVars, opusVars
<1>5. QueueOrdered'
    BY <1>1, Numbers DEF Inv, QueueOrdered, Reading
<1>6. Taken' /\ SentOK'
    BY <1>1, Numbers, OrderKept DEF Before, Reading
<1>7. Owned'
    BY <1>1, <1>2 DEF Inv, Owned, BufferHeld, AtMic, Queued, encVars
<1> QED
    BY <1>3, <1>4, <1>5, <1>6, <1>7 DEF Inv

LEMMA MicReadInv == ASSUME Inv, MicRead PROVE Inv'
<1> USE DEF MicRead
<1>1. mic = "read" /\ mic' = "encode" /\ reads \in heap
      /\ UNCHANGED <<gateVars, reads, heap, frames, encVars, refused>>
    OBVIOUS
<1>2. TypeOK' /\ StopsStarted' /\ GateBalance' /\ CountersAgree'
    BY <1>1 DEF Inv, TypeOK, StopsStarted, GateBalance, One, Holding, CountersAgree,
                gateVars, encVars, opusVars
<1>3. QueueOrdered'
    BY <1>1 DEF Inv, QueueOrdered, Reading
<1>4. Taken' /\ SentOK'
    BY <1>1, OrderKept DEF Before, Reading
<1>5. Owned'
    BY <1>1 DEF Inv, Owned, BufferHeld, AtMic, Queued, encVars
<1> QED
    BY <1>2, <1>3, <1>4, <1>5 DEF Inv

LEMMA MicEndsInv == ASSUME Inv, MicReadFails \/ MicGive PROVE Inv'
<1>1. /\ mic \in {"read", "give"} /\ mic' = "gate" /\ GiveGate
      /\ UNCHANGED <<capturing, stopping, reads, heap, frames, encVars>>
    BY DEF MicReadFails, MicGive
<1>2. refused' \subseteq Frames /\ refused \subseteq refused' /\ (mic = "read" => reads \in refused')
    BY DEF MicReadFails, MicGive, Inv, TypeOK, QueueOrdered, Reading
<1>3. GateBalance' /\ gate' \in 0..1 /\ surplus' \in BOOLEAN
    BY <1>1, GiveGateBalance DEF Inv, Holding
<1>4. TypeOK' /\ StopsStarted' /\ CountersAgree'
    BY <1>1, <1>2, <1>3 DEF Inv, TypeOK, StopsStarted, CountersAgree, encVars, opusVars
<1>5. QueueOrdered'
    BY <1>1 DEF Inv, QueueOrdered, Reading
<1>6. Taken' /\ SentOK'
    BY <1>1, OrderKept DEF Before, Reading
<1>7. Owned'
    BY <1>1, <1>2 DEF Inv, Owned, BufferHeld, AtMic, Queued, encVars
<1> QED
    BY <1>3, <1>4, <1>5, <1>6, <1>7 DEF Inv

LEMMA MicEncodeInv == ASSUME Inv, MicEncode PROVE Inv'
<1>1. /\ mic = "encode" /\ mic' = "give" /\ reads \in Frames /\ reads \in heap
      /\ UNCHANGED <<gateVars, reads, heap, encVars>>
    BY DEF MicEncode, Inv, QueueOrdered, Reading, Owned
<1>2. frames \in Seq(Frames) /\ Len(frames) \in Nat /\ DOMAIN frames = 1..Len(frames)
    BY QueueFacts DEF Inv, TypeOK
<1>3. StopsStarted' /\ GateBalance' /\ CountersAgree'
    BY <1>1 DEF Inv, TypeOK, StopsStarted, GateBalance, One, Holding, CountersAgree, gateVars,
                encVars, opusVars
<1>4. CASE Room
    <2>1. frames' = Append(frames, reads) /\ refused' = refused
        BY <1>4 DEF MicEncode
    <2>2. /\ frames' \in Seq(Frames) /\ Len(frames') = Len(frames) + 1
          /\ \A i \in 1..Len(frames) : frames'[i] = frames[i]
          /\ frames'[Len(frames) + 1] = reads
        BY <1>1, <1>2, <2>1, AppendFacts
    <2>3. DOMAIN frames' = 1..Len(frames) + 1
        BY <2>2, QueueFacts
    <2>4. TypeOK'
        BY <1>1, <1>2, <1>4, <2>1, <2>2, Constants
           DEF Inv, TypeOK, Room, Holding, gateVars, encVars, opusVars
    <2>5. QueueOrdered'
        <3>1. reads \in Nat /\ ~Reading'
            BY <1>1, Numbers DEF Reading
        <3>2. ASSUME NEW i \in 1..Len(frames')
              PROVE  \/ i \in 1..Len(frames) /\ frames'[i] = frames[i]
                     \/ i = Len(frames) + 1 /\ frames'[i] = reads
            BY <1>2, <2>2
        <3>3. \A i \in 1..Len(frames) : frames[i] < reads /\ frames[i] \in Nat
            BY <1>1, Numbers DEF Inv, QueueOrdered, Reading
        <3>4. \A i \in 1..Len(frames') : frames'[i] <= reads'
            BY <1>1, <3>1, <3>2, <3>3
        <3>5. ASSUME NEW i \in 1..Len(frames'), NEW j \in 1..Len(frames'), i < j
              PROVE  frames'[i] < frames'[j]
            <4>1. i \in 1..Len(frames) /\ frames'[i] = frames[i]
                BY <1>2, <2>2, <3>2, <3>5
            <4> QED
                BY <3>2, <3>3, <3>5, <4>1 DEF Inv, QueueOrdered
        <3> QED
            BY <3>1, <3>4, <3>5 DEF QueueOrdered
    <2>6. Taken' /\ SentOK'
        BY <1>1, <1>2, <2>2, OrderKept DEF Before, Reading
    <2>7. Queued' = Queued \cup {reads}
        BY <1>2, <2>2, <2>3 DEF Queued
    <2>8. Owned'
        BY <1>1, <2>1, <2>7 DEF Inv, Owned, BufferHeld, AtMic, encVars
    <2> QED
        BY <1>3, <2>4, <2>5, <2>6, <2>8 DEF Inv
<1>5. CASE ~Room
    <2>1. frames' = frames /\ refused' = refused \cup {reads}
        BY <1>5 DEF MicEncode
    <2>2. TypeOK' /\ QueueOrdered'
        BY <1>1, <2>1 DEF Inv, TypeOK, QueueOrdered, Reading, Holding, gateVars, encVars, opusVars
    <2>3. Taken' /\ SentOK'
        BY <1>1, <2>1, OrderKept DEF Before, Reading
    <2>4. Owned'
        BY <1>1, <2>1 DEF Inv, Owned, BufferHeld, AtMic, Queued, encVars
    <2> QED
        BY <1>3, <2>2, <2>3, <2>4 DEF Inv
<1> QED
    BY <1>4, <1>5

-----------------------------------------------------------------------------
LEMMA EncReceiveInv == ASSUME Inv, EncReceive PROVE Inv'
<1>1. /\ enc = "receive" /\ enc' = "encode" /\ frames # <<>> /\ cur = 0
      /\ cur' = Head(frames) /\ frames' = Tail(frames)
      /\ UNCHANGED <<gateVars, micVars, heap, opusVars, sent, unsent, refused>>
    BY DEF EncReceive, Inv, Taken
<1>2. frames \in Seq(Frames)
    BY DEF Inv, TypeOK
<1>3. /\ Len(frames) \in Nat /\ Len(frames) >= 1 /\ DOMAIN frames = 1..Len(frames)
      /\ cur' = frames[1] /\ cur' \in Frames /\ cur' \in Nat /\ cur' # 0
      /\ frames' \in Seq(Frames) /\ Len(frames') = Len(frames) - 1
      /\ DOMAIN frames' = 1..Len(frames')
      /\ \A i \in 1..Len(frames) - 1 : frames'[i] = frames[i + 1]
    BY <1>1, <1>2, QueueFacts, Numbers, Constants
<1>4. TypeOK'
    <2>1. Len(frames') <= QueueLen
        BY <1>3, Constants DEF Inv, TypeOK
    <2> QED
        BY <1>1, <1>3, <2>1 DEF Inv, TypeOK, gateVars, micVars, opusVars
<1>5. StopsStarted' /\ GateBalance' /\ CountersAgree'
    BY <1>1 DEF Inv, StopsStarted, GateBalance, CountersAgree, gateVars, micVars, opusVars
<1>6. QueueOrdered'
    BY <1>1, <1>3 DEF Inv, QueueOrdered, Reading, micVars
<1>7. \A f \in Int : Before(f) => Before(f)' /\ f < cur'
    BY <1>1, <1>3 DEF Before, Reading, micVars
<1>8. Before(cur)'
    BY <1>1, <1>3 DEF Inv, QueueOrdered, Before, Reading, micVars
<1>9. Taken'
    <2>1. \A s \in 0..current_frame - 1 : Before(pending[s])' /\ pending[s] < cur'
        <3>1. SUFFICES ASSUME NEW s \in 0..current_frame - 1
                       PROVE  Before(pending[s])' /\ pending[s] < cur'
            OBVIOUS
        <3>2. pending[s] \in Int /\ Before(pending[s]) /\ pending' = pending
            BY <1>1, Numbers DEF Inv, Taken, opusVars
        <3> QED
            BY <1>7, <3>2 DEF Before
    <2> QED
        BY <1>1, <1>3, <1>8, <2>1 DEF Inv, Taken, opusVars
<1>10. SentOK'
    <2>1. Stream!LastFrame' = Stream!LastFrame
        BY <1>1 DEF Stream!LastFrame
    <2>2. Before(Stream!LastFrame)' /\ Stream!LastFrame < cur'
        <3>1. Stream!LastFrame \in Int /\ Before(Stream!LastFrame)
            BY Numbers DEF Inv, SentOK
        <3> QED
            BY <1>7, <2>1, <3>1 DEF Before
    <2> QED
        BY <1>1, <2>1, <2>2 DEF Inv, SentOK, opusVars
<1>11. Owned'
    <2>1. Queued = {frames[i] : i \in 1..Len(frames)}
        BY <1>3 DEF Queued
    <2>2. Queued' = {frames'[i] : i \in 1..Len(frames')}
        BY <1>3 DEF Queued
    <2>3. \A f \in Queued : f = cur' \/ f \in Queued'
        <3>1. SUFFICES ASSUME NEW i \in 1..Len(frames)
                       PROVE  frames[i] = cur' \/ frames[i] \in Queued'
            BY <2>1
        <3>2. CASE i = 1
            BY <1>3, <3>2
        <3>3. CASE i # 1
            <4>1. i - 1 \in 1..Len(frames) - 1 /\ frames'[i - 1] = frames[i]
                BY <1>3, <3>3
            <4> QED
                BY <1>3, <2>2, <4>1
        <3> QED
            BY <3>2, <3>3
    <2>4. Queued' \subseteq Queued /\ cur' \in Queued
        BY <1>3, <2>1, <2>2
    <2>5. Queued' \cup ({cur} \ {0})' = Queued \cup ({cur} \ {0})
        BY <1>1, <1>3, <2>3, <2>4
    <2> QED
        BY <1>1, <2>5 DEF Inv, Owned, BufferHeld, AtMic, micVars
<1> QED
    BY <1>4, <1>5, <1>6, <1>9, <1>10, <1>11 DEF Inv

LEMMA EncFreeInv == ASSUME Inv, EncFree PROVE Inv'
<1>1. /\ enc = "free" /\ enc' = "receive" /\ cur' = 0 /\ heap' = heap \ {cur}
      /\ UNCHANGED <<gateVars, micVars, frames, opusVars, sent, unsent, refused>>
    BY DEF EncFree
<1>2. TypeOK' /\ StopsStarted' /\ GateBalance' /\ CountersAgree'
    BY <1>1 DEF Inv, TypeOK, StopsStarted, GateBalance, CountersAgree, gateVars, micVars, opusVars
<1>3. QueueOrdered'
    BY <1>1 DEF Inv, QueueOrdered, Reading, micVars
<1>4. Taken'
    <2>1. Before(cur)'
        <3>1. cur \in Nat /\ Before(cur) /\ Len(frames) \in Nat /\ reads \in Nat
              /\ \A i \in 1..Len(frames) : frames[i] \in Nat /\ frames[i] >= 1
            BY Numbers DEF Inv, Taken
        <3>2. Reading => reads >= 1
            BY Constants DEF Inv, QueueOrdered
        <3> QED
            BY <1>1, <3>1, <3>2 DEF Before, Reading, micVars
    <2>2. \A s \in 0..current_frame - 1 : Before(pending[s])'
        BY <1>1 DEF Inv, Taken, Before, Reading, micVars, opusVars
    <2> QED
        BY <1>1, <2>1, <2>2 DEF Inv, Taken, opusVars
<1>5. SentOK'
    BY <1>1 DEF Inv, SentOK, Before, Reading, Stream!LastFrame, micVars, opusVars
<1>6. Owned'
    <2>1. DOMAIN frames = 1..Len(frames)
        BY QueueFacts DEF Inv, TypeOK
    <2>2. cur \notin Queued /\ (Reading => cur # reads)
        BY <2>1, Numbers DEF Inv, Taken, Before, Queued
    <2> QED
        BY <1>1, <2>2 DEF Inv, Owned, BufferHeld, AtMic, Queued, Reading, micVars
<1> QED
    BY <1>2, <1>3, <1>4, <1>5, <1>6 DEF Inv

-----------------------------------------------------------------------------
(* What the four ends of opus_encode_frame have in common. The frame they  *)
(* are about is later than everything before it.                           *)
LEMMA EncodeFacts ==
    ASSUME Inv, EncEncode
    PROVE  /\ enc = "encode" /\ enc' = "free"
           /\ UNCHANGED <<gateVars, micVars, heap, frames, cur, refused>>
           /\ cur \in Frames /\ cur \in Nat /\ cur >= 1
           /\ Stream!LastFrame < cur
           /\ \A s \in 0..current_frame - 1 : pending[s] < cur
           /\ pending \in [Slots -> Frames \cup {0}] /\ current_frame \in Slots
           /\ StopsStarted' /\ GateBalance' /\ QueueOrdered' /\ Owned'
           /\ \A f \in Int : Before(f)' <=> Before(f)
<1>1. /\ enc = "encode" /\ enc' = "free"
      /\ UNCHANGED <<gateVars, micVars, heap, frames, cur, refused>>
    BY DEF EncEncode
<1>2. cur \in Frames /\ cur \in Nat /\ cur >= 1
    BY <1>1, Constants DEF Inv, TypeOK, Taken
<1>3. /\ Stream!LastFrame < cur
      /\ \A s \in 0..current_frame - 1 : pending[s] < cur
    BY <1>1 DEF Inv, Taken, SentOK
<1>4. pending \in [Slots -> Frames \cup {0}] /\ current_frame \in Slots
    BY DEF Inv, TypeOK
<1>5. StopsStarted' /\ GateBalance' /\ QueueOrdered'
    BY <1>1 DEF Inv, StopsStarted, GateBalance, QueueOrdered, Reading, gateVars, micVars
<1>6. Owned'
    BY <1>1 DEF Inv, Owned, BufferHeld, AtMic, Queued, micVars
<1>7. \A f \in Int : Before(f)' <=> Before(f)
    BY <1>1 DEF Before, Reading, micVars
<1> QED
    BY <1>1, <1>2, <1>3, <1>4, <1>5, <1>6, <1>7

(* A frame that is not added to the packet leaves the packet as it was.    *)
LEMMA DroppedInv ==
    ASSUME Inv, EncEncode, EncodeFails \/ CatFails
    PROVE  Inv'
<1>1. /\ first' = IF current_frame = 0 THEN cur ELSE first
      /\ unsent' = unsent \cup {cur}
      /\ UNCHANGED <<current_frame, repack, sent>>
    BY DEF EncodeFails, CatFails, Stamp
<1>2. /\ pending' \in [Slots -> Frames \cup {0}]
      /\ \A s \in 0..current_frame - 1 : pending'[s] = pending[s]
    <2>1. CASE EncodeFails
        BY <2>1, EncodeFacts DEF EncodeFails
    <2>2. CASE CatFails
        BY <2>2, EncodeFacts, Constants DEF CatFails, Written
    <2> QED
        BY <2>1, <2>2
<1>3. TypeOK' /\ CountersAgree'
    BY <1>1, <1>2, EncodeFacts DEF Inv, TypeOK, CountersAgree, gateVars, micVars
<1>4. Taken'
    <2>1. Before(cur)'
        BY EncodeFacts DEF Inv, Taken
    <2>2. \A s \in 0..current_frame' - 1 : Before(pending[s])' /\ pending'[s] \in Frames
        <3>1. SUFFICES ASSUME NEW s \in 0..current_frame - 1
                       PROVE  Before(pending[s])' /\ pending'[s] \in Frames
            BY <1>1
        <3>2. pending[s] \in Int /\ Before(pending[s]) /\ pending[s] \in Frames
            BY Numbers DEF Inv, Taken
        <3>3. pending'[s] = pending[s]
            BY <1>2
        <3> QED
            BY <3>2, <3>3, EncodeFacts DEF Before, Reading
    <2>3. \A s \in 1..current_frame' - 1 : pending'[s - 1] < pending'[s]
        BY <1>1, <1>2, Numbers DEF Inv, Taken
    <2>4. current_frame' > 0 => first' = pending'[0]
        BY <1>1, <1>2, Numbers DEF Inv, Taken
    <2> QED
        BY <2>1, <2>2, <2>3, <2>4, EncodeFacts DEF Taken
<1>5. SentOK'
    <2>1. Stream!LastFrame' = Stream!LastFrame
        BY <1>1 DEF Stream!LastFrame
    <2>2. Before(Stream!LastFrame)'
        BY <2>1, EncodeFacts, Numbers DEF Inv, SentOK, Before, Reading
    <2> QED
        BY <1>1, <1>2, <2>1, <2>2, EncodeFacts DEF Inv, SentOK
<1> QED
    BY <1>3, <1>4, <1>5, EncodeFacts DEF Inv

(* One more slot of the packet is in use, and holds the latest frame.      *)
LEMMA CatInv ==
    ASSUME Inv, EncEncode, Cat
    PROVE  Inv'
<1>1. /\ first' = IF current_frame = 0 THEN cur ELSE first
      /\ pending' = [pending EXCEPT ![current_frame] = cur]
      /\ current_frame + 1 # Combined
      /\ repack' = Append(repack, current_frame)
      /\ current_frame' = current_frame + 1
      /\ UNCHANGED <<sent, unsent>>
    BY DEF Cat, Stamp, Written
<1>2. /\ pending' \in [Slots -> Frames \cup {0}]
      /\ pending'[current_frame] = cur
      /\ \A s \in 0..current_frame - 1 : pending'[s] = pending[s]
    BY <1>1, EncodeFacts, Constants
<1>3. current_frame \in Nat /\ current_frame' \in Slots
    BY <1>1, EncodeFacts, Constants
<1>4. CountersAgree'
    <2>1. /\ repack \in Seq(Slots) /\ repack = [i \in 1..current_frame |-> i - 1]
        BY DEF Inv, TypeOK, CountersAgree
    <2>2. Len(repack) = current_frame
        BY <1>3, <2>1
    <2> QED
        BY <1>1, <1>3, <2>1, <2>2 DEF CountersAgree
<1>5. repack' \in Seq(Slots)
    BY <1>1, EncodeFacts, AppendProperties DEF Inv, TypeOK
<1>6. TypeOK'
    BY <1>1, <1>2, <1>3, <1>5, EncodeFacts DEF Inv, TypeOK, gateVars, micVars
<1>7. \A s \in 0..current_frame' - 1 :
         s \in 0..current_frame - 1 \/ s = current_frame
    BY <1>1, <1>3
<1>8. Taken'
    <2>1. Before(cur)'
        BY EncodeFacts DEF Inv, Taken
    <2>2. \A s \in 0..current_frame' - 1 : Before(pending[s])' /\ pending'[s] \in Frames
        <3>1. SUFFICES ASSUME NEW s \in 0..current_frame' - 1
                       PROVE  Before(pending[s])' /\ pending'[s] \in Frames
            OBVIOUS
        <3>2. CASE s \in 0..current_frame - 1
            <4>1. pending[s] \in Int /\ Before(pending[s]) /\ pending[s] \in Frames
                BY <3>2, Numbers DEF Inv, Taken
            <4>2. pending'[s] = pending[s]
                BY <1>2, <3>2
            <4> QED
                BY <4>1, <4>2, EncodeFacts DEF Before, Reading
        <3>3. CASE s = current_frame
            BY <1>2, <2>1, <3>3, EncodeFacts DEF Before, Reading
        <3> QED
            BY <1>7, <3>2, <3>3
    <2>3. \A s \in 1..current_frame' - 1 : pending'[s - 1] < pending'[s]
        <3>1. SUFFICES ASSUME NEW s \in 1..current_frame
                       PROVE  pending'[s - 1] < pending'[s]
            BY <1>1, <1>3
        <3>2. s - 1 \in 0..current_frame - 1 /\ pending'[s - 1] = pending[s - 1]
            BY <1>2, <1>3
        <3>3. CASE s = current_frame
            BY <1>2, <3>2, <3>3, EncodeFacts
        <3>4. CASE s \in 1..current_frame - 1
            BY <1>2, <3>2, <3>4 DEF Inv, Taken
        <3> QED
            BY <1>3, <3>3, <3>4
    <2>4. first' = pending'[0]
        <3>1. CASE current_frame = 0
            BY <1>1, <1>2, <3>1
        <3>2. CASE current_frame # 0
            BY <1>1, <1>2, <1>3, <3>2 DEF Inv, Taken
        <3> QED
            BY <3>1, <3>2
    <2> QED
        BY <2>1, <2>2, <2>3, <2>4, EncodeFacts DEF Taken
<1>9. SentOK'
    <2>1. Stream!LastFrame' = Stream!LastFrame
        BY <1>1 DEF Stream!LastFrame
    <2>2. Before(Stream!LastFrame)'
        BY <2>1, EncodeFacts, Numbers DEF Inv, SentOK, Before, Reading
    <2>3. \A s \in 0..current_frame' - 1 : Stream!LastFrame < pending'[s]
        BY <1>2, <1>7, EncodeFacts DEF Inv, SentOK
    <2> QED
        BY <1>1, <2>1, <2>2, <2>3, EncodeFacts DEF Inv, SentOK
<1> QED
    BY <1>4, <1>6, <1>8, <1>9, EncodeFacts DEF Inv

(* The frames of a packet: those of the slots in their order, the last of  *)
(* them the one at hand.                                                   *)
LEMMA PacketFacts ==
    ASSUME Inv, EncEncode, CatAndCombine,
           NEW out, out = Out(pending', Append(repack, current_frame))
    PROVE  /\ DOMAIN out = 1..Combined /\ out \in [1..Combined -> Frames]
           /\ first' = out[1]
           /\ Stream!LastFrame < out[1]
           /\ \A i \in 1..Combined - 1 : out[i] < out[i + 1]
           /\ out[Combined] = cur
<1>1. /\ first' = IF current_frame = 0 THEN cur ELSE first
      /\ pending' = [pending EXCEPT ![current_frame] = cur]
      /\ current_frame + 1 = Combined
    BY DEF CatAndCombine, Stamp, Written
<1>2. /\ pending'[current_frame] = cur
      /\ \A s \in 0..current_frame - 1 : pending'[s] = pending[s]
    BY <1>1, EncodeFacts, Constants
<1>3. current_frame \in Nat /\ Combined \in Nat /\ current_frame = Combined - 1
    BY <1>1, EncodeFacts, Constants
<1>4. Append(repack, current_frame) = [i \in 1..Combined |-> i - 1]
    <2>1. repack \in Seq(Slots) /\ repack = [i \in 1..current_frame |-> i - 1]
        BY DEF Inv, TypeOK, CountersAgree
    <2>2. Len(repack) = current_frame
        BY <1>3, <2>1
    <2> QED
        BY <1>3, <2>1, <2>2
<1>5. DOMAIN out = 1..Combined /\ \A i \in 1..Combined : out[i] = pending'[i - 1]
    BY <1>3, <1>4 DEF Out
<1>6. out = [i \in 1..Combined |-> pending'[i - 1]]
    BY <1>3, <1>4 DEF Out
<1>7. out[Combined] = cur
    BY <1>2, <1>3, <1>5
<1>8. \A i \in 1..Combined - 1 : i - 1 \in 0..current_frame - 1 /\ out[i] = pending[i - 1]
    BY <1>2, <1>3, <1>5
<1>9. \A i \in 1..Combined : out[i] \in Frames
    <2>1. \A i \in 1..Combined - 1 : out[i] \in Frames
        BY <1>8 DEF Inv, Taken
    <2> QED
        BY <1>3, <1>7, <2>1, EncodeFacts
<1>10. out \in [1..Combined -> Frames]
    BY <1>6, <1>9
<1>11. first' = out[1]
    <2>1. CASE current_frame = 0
        BY <1>1, <1>3, <1>7, <2>1
    <2>2. CASE current_frame # 0
        <3>1. 1 \in 1..Combined - 1 /\ 1 - 1 = 0
            BY <1>3, <2>2
        <3>2. out[1] = pending[0]
            BY <1>8, <3>1
        <3>3. first' = first /\ first = pending[0]
            BY <1>1, <1>3, <2>2 DEF Inv, Taken
        <3> QED
            BY <3>2, <3>3
    <2> QED
        BY <2>1, <2>2
<1>12. Stream!LastFrame < out[1]
    <2>1. CASE Combined = 1
        BY <1>7, <2>1, EncodeFacts
    <2>2. CASE Combined # 1
        BY <1>3, <1>8, <2>2, Constants DEF Inv, SentOK
    <2> QED
        BY <2>1, <2>2
<1>13. \A i \in 1..Combined - 1 : out[i] < out[i + 1]
    <2>1. SUFFICES ASSUME NEW i \in 1..Combined - 1 PROVE out[i] < out[i + 1]
        OBVIOUS
    <2>2. out[i] = pending[i - 1] /\ i - 1 \in 0..current_frame - 1
        BY <1>8
    <2>3. CASE i + 1 = Combined
        BY <1>7, <2>2, <2>3, EncodeFacts
    <2>4. CASE i + 1 # Combined
        <3>1. i \in 1..current_frame - 1 /\ i + 1 \in 1..Combined - 1
            BY <1>3, <2>4
        <3>2. out[i + 1] = pending[i]
            BY <1>8, <3>1
        <3> QED
            BY <2>2, <3>1, <3>2 DEF Inv, Taken
    <2> QED
        BY <2>3, <2>4
<1> QED
    BY <1>5, <1>7, <1>10, <1>11, <1>12, <1>13

(* The packet that is full is sent, or all of its frames are dropped, and  *)
(* the next one begins empty.                                              *)
LEMMA CombineInv ==
    ASSUME Inv, EncEncode, CatAndCombine
    PROVE  Inv' /\ [Stream!Next]_sent
<1> DEFINE out == Out(pending', Append(repack, current_frame))
           packet == [frames |-> out, time |-> first']
<1>1. /\ first' = IF current_frame = 0 THEN cur ELSE first
      /\ pending' = [pending EXCEPT ![current_frame] = cur]
      /\ current_frame' = 0 /\ repack' = <<>>
      /\ \/ sent' = Append(sent, packet) /\ UNCHANGED unsent
         \/ unsent' = unsent \cup {out[i] : i \in DOMAIN out} /\ UNCHANGED sent
    BY DEF CatAndCombine, Stamp, Written, Push
<1>2. /\ DOMAIN out = 1..Combined /\ out \in [1..Combined -> Frames]
      /\ first' = out[1]
      /\ Stream!LastFrame < out[1]
      /\ \A i \in 1..Combined - 1 : out[i] < out[i + 1]
      /\ out[Combined] = cur
    BY PacketFacts
<1> HIDE DEF out
<1>3. sent \in Seq(AllPackets) /\ packet \in AllPackets
    <2>1. \A f \in Frames : f \in Int
        BY Constants
    <2>2. \A i \in 1..Combined : out[i] \in Int
        BY <1>2, <2>1
    <2>3. out \in [1..Combined -> Int] /\ first' \in Int
        BY <1>2, <2>2, Constants
    <2>4. packet \in AllPackets
        BY <2>3 DEF AllPackets
    <2> QED
        BY <2>4 DEF Inv, SentOK
<1>4. TypeOK' /\ CountersAgree'
    <2>1. pending' \in [Slots -> Frames \cup {0}] /\ 0 \in Slots /\ first' \in Frames
        BY <1>1, <1>2, EncodeFacts, Constants
    <2>2. unsent' \subseteq Frames
        BY <1>1, <1>2 DEF Inv, TypeOK
    <2>3. repack' \in Seq(Slots) /\ repack' = [i \in 1..0 |-> i - 1]
        BY <1>1, EmptySeq
    <2> QED
        BY <1>1, <2>1, <2>2, <2>3, EncodeFacts DEF Inv, TypeOK, CountersAgree, gateVars, micVars
<1>5. Taken'
    <2>1. Before(cur)'
        BY EncodeFacts DEF Inv, Taken
    <2> QED
        BY <1>1, <2>1, EncodeFacts DEF Taken
<1>6. CASE UNCHANGED sent
    <2>1. Stream!LastFrame' = Stream!LastFrame
        BY <1>6 DEF Stream!LastFrame
    <2>2. Before(Stream!LastFrame)'
        BY <2>1, EncodeFacts, Numbers DEF Inv, SentOK, Before, Reading
    <2>3. SentOK'
        BY <1>1, <1>6, <2>1, <2>2, EncodeFacts DEF Inv, SentOK
    <2> QED
        BY <1>4, <1>5, <1>6, <2>3, EncodeFacts DEF Inv
<1>7. CASE sent' = Append(sent, packet)
    <2>1. /\ sent' \in Seq(AllPackets) /\ Len(sent) \in Nat /\ Len(sent') = Len(sent) + 1
          /\ sent'[Len(sent')] = packet /\ sent' # <<>>
        BY <1>3, <1>7, AppendProperties, LenProperties
    <2>2. packet.frames = out /\ packet.time = out[1]
        BY <1>2
    <2>3. Stream!LastFrame' = cur
        BY <1>2, <2>1, <2>2 DEF Stream!LastFrame
    <2>4. SentOK'
        <3>1. Before(cur)'
            BY EncodeFacts DEF Inv, Taken
        <3>2. Before(Stream!LastFrame)'
            BY <2>3, <3>1, EncodeFacts DEF Before, Reading
        <3> QED
            BY <1>1, <2>1, <3>2, EncodeFacts DEF SentOK
    <2>5. Stream!Packet(packet)
        <3>1. Len(packet.frames) = Combined
            BY <1>2, <2>2, Constants
        <3> QED
            BY <1>2, <1>7, <2>2, <3>1, Numbers, EncodeFacts DEF Stream!Packet, Frames
    <2>6. Stream!Next
        BY <2>1, <2>5 DEF Stream!Next
    <2> QED
        BY <1>4, <1>5, <2>4, <2>6, EncodeFacts DEF Inv
<1> QED
    BY <1>1, <1>6, <1>7

-----------------------------------------------------------------------------
(* Every step keeps the invariant, and is a step of the stream or none.    *)
LEMMA NextInv ==
    ASSUME Inv, [Next]_vars
    PROVE  Inv' /\ [Stream!Next]_sent
<1>1. CASE MicrophoneStart \/ MicrophoneStop \/ StopTakes \/ StopTimesOut
    BY <1>1, StartStopInv DEF MicrophoneStart, MicrophoneStop, StopTakes, StopTimesOut, encVars
<1>2. CASE MicTake
    BY <1>2, MicTakeInv DEF MicTake, encVars
<1>3. CASE MicRead
    BY <1>3, MicReadInv DEF MicRead, encVars
<1>4. CASE MicReadFails \/ MicGive
    BY <1>4, MicEndsInv DEF MicReadFails, MicGive, encVars
<1>5. CASE MicEncode
    BY <1>5, MicEncodeInv DEF MicEncode, encVars
<1>6. CASE EncReceive
    BY <1>6, EncReceiveInv DEF EncReceive
<1>7. CASE EncEncode
    <2>1. CASE EncodeFails \/ CatFails
        BY <1>7, <2>1, DroppedInv DEF EncodeFails, CatFails
    <2>2. CASE Cat
        BY <1>7, <2>2, CatInv DEF Cat
    <2>3. CASE CatAndCombine
        BY <1>7, <2>3, CombineInv
    <2> QED
        BY <1>7, <2>1, <2>2, <2>3 DEF EncEncode
<1>8. CASE EncFree
    BY <1>8, EncFreeInv DEF EncFree
<1>9. CASE UNCHANGED vars
    <2>1. UNCHANGED <<gateVars, micVars, heap, frames, encVars, refused>>
        BY <1>9 DEF vars
    <2>2. TypeOK' /\ StopsStarted' /\ GateBalance'
        BY <2>1 DEF Inv, TypeOK, StopsStarted, GateBalance, gateVars, micVars, encVars, opusVars
    <2> QED
        BY <2>1, <2>2, PathStutter DEF Inv, encVars
<1> QED
    BY <1>1, <1>2, <1>3, <1>4, <1>5, <1>6, <1>7, <1>8, <1>9 DEF Next, MicTask, EncTask

(* The inductive invariant holds in every state.                           *)
THEOREM Invariance == Spec => []Inv
BY InitInv, NextInv, PTL DEF Spec

(* Every variable keeps its type: frames_queue never holds more than it    *)
(* has room for, and current_frame never names a slot there is not.        *)
THEOREM TypeCorrect == Spec => []TypeOK
<1>1. Inv => TypeOK
    BY DEF Inv
<1> QED
    BY <1>1, Invariance, PTL

(* The tokens of capture_semaphore are accounted for, whatever a read and  *)
(* a timed-out microphone_stop do to each other.                           *)
THEOREM GateIsBalanced == Spec => []GateBalance
<1>1. Inv => GateBalance
    BY DEF Inv
<1> QED
    BY <1>1, Invariance, PTL

(* current_frame and the repacketizer's own count never fall out of step,  *)
(* whatever the encoder, the repacketizer or the queue of rtp.c refuses.   *)
THEOREM CountersStayInStep == Spec => []CountersAgree
<1>1. Inv => CountersAgree
    BY DEF Inv
<1> QED
    BY <1>1, Invariance, PTL

(* A buffer that anybody is going to use is allocated, and only the frames *)
(* that the capture task could not hand over leave theirs behind.          *)
THEOREM BuffersAreHeld == Spec => []BufferHeld
<1>1. Inv => BufferHeld
    BY DEF Inv, Owned
<1> QED
    BY <1>1, Invariance, PTL

(* What audio_encoder_task hands to rtp.c is the ordered stream that       *)
(* AudioStream promises.                                                   *)
THEOREM StreamIsOrdered == Spec => OrderedStream
<1>1. Init => Stream!Init
    BY DEF Init, Stream!Init
<1>2. Inv /\ [Next]_vars => [Stream!Next]_sent
    BY NextInv
<1> QED
    BY <1>1, <1>2, Invariance, PTL DEF Spec, OrderedStream, Stream!Spec

-----------------------------------------------------------------------------
(* Where a frame is                                                        *)
Apart(w, c, s, r, u, n) ==
    /\ w \cup c \cup s \cup r \cup u = 1..n
    /\ w \cap c = {} /\ w \cap s = {} /\ w \cap r = {} /\ w \cap u = {}
    /\ c \cap s = {} /\ c \cap r = {} /\ c \cap u = {}
    /\ s \cap r = {} /\ s \cap u = {}
    /\ r \cap u = {}
PlaceInv == Apart(Waiting, Combining, Sent, refused, unsent, reads)

LEMMA FivePlaces ==
    ASSUME NEW a, NEW b, NEW c, NEW d, NEW e, NEW n,
           NEW places, places = <<a, b, c, d, e>>
    PROVE  /\ UNION {places[i] : i \in DOMAIN places} = a \cup b \cup c \cup d \cup e
           /\ (\A i, j \in DOMAIN places : i # j => places[i] \cap places[j] = {})
                 <=> /\ a \cap b = {} /\ a \cap c = {} /\ a \cap d = {} /\ a \cap e = {}
                     /\ b \cap c = {} /\ b \cap d = {} /\ b \cap e = {}
                     /\ c \cap d = {} /\ c \cap e = {}
                     /\ d \cap e = {}
<1>1. /\ DOMAIN places = {1, 2, 3, 4, 5}
      /\ places[1] = a /\ places[2] = b /\ places[3] = c /\ places[4] = d /\ places[5] = e
    OBVIOUS
<1>2. UNION {places[i] : i \in DOMAIN places} = a \cup b \cup c \cup d \cup e
    BY <1>1
<1> QED
    BY <1>1, <1>2

LEMMA PlaceInvMeans == PlaceInv => FrameInOnePlace
<1> SUFFICES ASSUME PlaceInv,
                    NEW places, places = <<Waiting, Combining, Sent, refused, unsent>>
             PROVE  /\ UNION {places[i] : i \in DOMAIN places} = 1..reads
                    /\ \A i, j \in DOMAIN places : i # j => places[i] \cap places[j] = {}
    BY DEF FrameInOnePlace
<1> QED
    BY FivePlaces DEF PlaceInv, Apart

(* The frames of the packet in the making: those of the slots in use, and  *)
(* so after a step.                                                        *)
LEMMA CombiningAre ==
    ASSUME Inv PROVE Combining = {pending[s] : s \in 0..current_frame - 1}
<1>1. DOMAIN repack = 1..current_frame /\ \A i \in 1..current_frame : repack[i] = i - 1
    BY DEF Inv, CountersAgree
<1>2. current_frame \in Nat
    BY Numbers
<1>3. \A s \in 0..current_frame - 1 : s + 1 \in DOMAIN repack /\ repack[s + 1] = s
    BY <1>1, <1>2
<1>4. \A i \in DOMAIN repack : repack[i] \in 0..current_frame - 1
    BY <1>1, <1>2
<1> QED
    BY <1>3, <1>4 DEF Combining

LEMMA CombiningAfter ==
    ASSUME CountersAgree', NEW c \in Nat, current_frame' = c
    PROVE  Combining' = {pending'[s] : s \in 0..c - 1}
<1>1. DOMAIN repack' = 1..c /\ \A i \in 1..c : repack'[i] = i - 1
    BY DEF CountersAgree
<1>2. \A s \in 0..c - 1 : s + 1 \in DOMAIN repack' /\ repack'[s + 1] = s
    BY <1>1
<1>3. \A i \in DOMAIN repack' : repack'[i] \in 0..c - 1
    BY <1>1
<1> QED
    BY <1>2, <1>3 DEF Combining

(* The frames of a queue.                                                  *)
LEMMA QueuedAppend ==
    ASSUME NEW q \in Seq(Frames), NEW f \in Frames
    PROVE  {Append(q, f)[i] : i \in DOMAIN Append(q, f)} = {q[i] : i \in DOMAIN q} \cup {f}
<1> DEFINE r == Append(q, f)
<1>1. /\ Len(q) \in Nat /\ DOMAIN q = 1..Len(q) /\ DOMAIN r = 1..Len(q) + 1
      /\ \A i \in 1..Len(q) : r[i] = q[i]
      /\ r[Len(q) + 1] = f
    BY AppendProperties, LenProperties
<1> HIDE DEF r
<1>2. \A i \in DOMAIN r : i \in DOMAIN q \/ i = Len(q) + 1
    BY <1>1
<1>3. \A i \in DOMAIN q : i \in DOMAIN r /\ r[i] = q[i]
    BY <1>1
<1>4. Len(q) + 1 \in DOMAIN r
    BY <1>1
<1>5. {r[i] : i \in DOMAIN r} = {q[i] : i \in DOMAIN q} \cup {f}
    BY <1>1, <1>2, <1>3, <1>4
<1> QED
    BY <1>5 DEF r

LEMMA QueuedTail ==
    ASSUME NEW q \in Seq(Frames), q # <<>>
    PROVE  {q[i] : i \in DOMAIN q} = {Tail(q)[i] : i \in DOMAIN Tail(q)} \cup {Head(q)}
<1> DEFINE r == Tail(q)
<1>1. /\ Len(q) \in Nat /\ DOMAIN q = 1..Len(q) /\ Len(q) >= 1
      /\ r \in Seq(Frames) /\ Len(r) = Len(q) - 1 /\ Head(q) = q[1]
      /\ \A i \in 1..Len(q) - 1 : r[i] = q[i + 1]
    BY QueueFacts
<1>2. DOMAIN r = 1..Len(q) - 1
    BY <1>1, QueueFacts
<1> HIDE DEF r
<1>3. \A i \in DOMAIN q : i = 1 \/ (i - 1 \in DOMAIN r /\ r[i - 1] = q[i])
    BY <1>1, <1>2
<1>4. \A i \in DOMAIN r : i + 1 \in DOMAIN q /\ q[i + 1] = r[i]
    BY <1>1, <1>2
<1>5. 1 \in DOMAIN q
    BY <1>1
<1>6. {q[i] : i \in DOMAIN q} \subseteq {r[i] : i \in DOMAIN r} \cup {Head(q)}
    BY <1>1, <1>3
<1>7. {r[i] : i \in DOMAIN r} \cup {Head(q)} \subseteq {q[i] : i \in DOMAIN q}
    <2>1. \A i \in DOMAIN r : r[i] \in {q[k] : k \in DOMAIN q}
        BY <1>4
    <2>2. Head(q) \in {q[k] : k \in DOMAIN q}
        BY <1>1, <1>5
    <2> QED
        BY <2>1, <2>2
<1>8. {q[i] : i \in DOMAIN q} = {r[i] : i \in DOMAIN r} \cup {Head(q)}
    BY <1>6, <1>7
<1> QED
    BY <1>8 DEF r

(* No two of those that have a frame to hand on have the same one.         *)
LEMMA WaitingApart ==
    ASSUME Inv
    PROVE  /\ cur \notin AtMic /\ cur \notin Queued
           /\ reads \in AtMic => reads \notin Queued
<1>1. /\ frames \in Seq(Frames) /\ DOMAIN frames = 1..Len(frames)
      /\ reads \in Nat /\ cur \in Nat
      /\ \A i \in 1..Len(frames) : frames[i] \in Nat
    BY Numbers, QueueFacts DEF Inv, TypeOK
<1>2. Before(cur) /\ QueueOrdered
    BY DEF Inv, Taken
<1>3. cur \notin AtMic
    BY <1>1, <1>2 DEF Before, Reading, AtMic
<1>4. cur \notin Queued
    BY <1>1, <1>2 DEF Before, Queued
<1>5. ASSUME reads \in AtMic PROVE reads \notin Queued
    <2>1. Reading
        BY <1>5 DEF AtMic, Reading
    <2> QED
        BY <1>1, <1>2, <2>1 DEF QueueOrdered, Queued
<1> QED
    BY <1>3, <1>4, <1>5

(* The microphone and its queue.                                           *)
LEMMA MicPlaces == ASSUME Inv, PlaceInv, MicTask PROVE PlaceInv'
<1>1. UNCHANGED <<enc, cur, repack, pending, sent, unsent>>
    BY DEF MicTask, MicTake, MicRead, MicReadFails, MicEncode, MicGive, encVars, opusVars
<1>2. Combining' = Combining /\ Sent' = Sent
    BY <1>1 DEF Combining, Sent
<1>3. reads \in Nat /\ frames \in Seq(Frames)
    BY Numbers DEF Inv, TypeOK
<1> DEFINE atEnc == IF enc = "encode" THEN {cur} ELSE {}
<1>4. Waiting = AtMic \cup Queued \cup atEnc /\ Waiting' = AtMic' \cup Queued' \cup atEnc
    BY <1>1 DEF Waiting
<1>5. AtMic \cap atEnc = {}
    BY WaitingApart
<1> HIDE DEF atEnc
<1>6. CASE MicTake
    <2>1. reads' = reads + 1 /\ AtMic = {} /\ AtMic' = {reads + 1} /\ UNCHANGED <<frames, refused>>
        BY <1>6 DEF MicTake, AtMic
    <2>2. Queued' = Queued
        BY <2>1 DEF Queued
    <2>3. Waiting' = Waiting \cup {reads + 1}
        BY <1>4, <2>1, <2>2
    <2>4. 1..reads + 1 = (1..reads) \cup {reads + 1} /\ reads + 1 \notin 1..reads
        BY <1>3
    <2> QED
        BY <1>1, <1>2, <2>1, <2>3, <2>4 DEF PlaceInv, Apart
<1>7. CASE MicRead \/ MicGive
    <2>1. AtMic' = AtMic /\ Queued' = Queued /\ UNCHANGED <<reads, refused>>
        BY <1>7 DEF MicRead, MicGive, AtMic, Queued
    <2>2. Waiting' = Waiting
        BY <1>4, <2>1
    <2> QED
        BY <1>1, <1>2, <2>1, <2>2 DEF PlaceInv, Apart
<1>8. CASE MicReadFails
    <2>1. /\ AtMic = {reads} /\ AtMic' = {} /\ refused' = refused \cup {reads}
          /\ UNCHANGED <<reads, frames>>
        BY <1>8 DEF MicReadFails, AtMic
    <2>2. Queued' = Queued /\ reads \notin Queued
        BY <2>1, WaitingApart DEF Queued
    <2>3. Waiting' = Waiting \ {reads} /\ reads \in Waiting
        BY <1>4, <1>5, <2>1, <2>2
    <2> QED
        BY <1>1, <1>2, <2>1, <2>3 DEF PlaceInv, Apart
<1>9. CASE MicEncode
    <2>1. AtMic = {reads} /\ AtMic' = {} /\ reads' = reads
        BY <1>9 DEF MicEncode, AtMic
    <2>2. reads \notin Queued /\ reads \in Frames
        BY <1>9, <2>1, WaitingApart DEF MicEncode, Inv, QueueOrdered, Reading
    <2>3. CASE frames' = Append(frames, reads) /\ UNCHANGED refused
        <3>1. Queued' = Queued \cup {reads}
            BY <1>3, <2>2, <2>3, QueuedAppend DEF Queued
        <3>2. Waiting' = Waiting
            BY <1>4, <2>1, <3>1
        <3> QED
            BY <1>1, <1>2, <2>1, <2>3, <3>2 DEF PlaceInv, Apart
    <2>4. CASE refused' = refused \cup {reads} /\ UNCHANGED frames
        <3>1. Queued' = Queued
            BY <2>4 DEF Queued
        <3>2. Waiting' = Waiting \ {reads} /\ reads \in Waiting
            BY <1>4, <1>5, <2>1, <2>2, <3>1
        <3> QED
            BY <1>1, <1>2, <2>1, <2>4, <3>2 DEF PlaceInv, Apart
    <2> QED
        BY <1>9, <2>3, <2>4 DEF MicEncode
<1> QED
    BY <1>6, <1>7, <1>8, <1>9 DEF MicTask

(* Taking a frame from the queue, and freeing its buffer.                  *)
LEMMA HandPlaces == ASSUME Inv, PlaceInv, EncReceive \/ EncFree PROVE PlaceInv'
<1>1. UNCHANGED <<mic, reads, repack, pending, sent, unsent, refused>>
    BY DEF EncReceive, EncFree, micVars, opusVars
<1>2. Combining' = Combining /\ Sent' = Sent /\ AtMic' = AtMic
    BY <1>1 DEF Combining, Sent, AtMic
<1>3. CASE EncReceive
    <2>1. /\ enc = "receive" /\ enc' = "encode" /\ frames # <<>>
          /\ cur' = Head(frames) /\ frames' = Tail(frames)
        BY <1>3 DEF EncReceive
    <2>2. frames \in Seq(Frames)
        BY DEF Inv, TypeOK
    <2>3. Queued = Queued' \cup {cur'}
        BY <2>1, <2>2, QueuedTail DEF Queued
    <2>4. Waiting' = Waiting
        BY <1>2, <2>1, <2>3 DEF Waiting
    <2> QED
        BY <1>1, <1>2, <2>4 DEF PlaceInv
<1>4. CASE EncFree
    <2>1. enc = "free" /\ enc' = "receive" /\ UNCHANGED frames
        BY <1>4 DEF EncFree
    <2>2. Waiting' = Waiting
        BY <1>2, <2>1 DEF Waiting, Queued
    <2> QED
        BY <1>1, <1>2, <2>2 DEF PlaceInv
<1> QED
    BY <1>3, <1>4

(* A packet more, and the frames of those sent.                            *)
LEMMA SentAppend ==
    ASSUME NEW p \in AllPackets, sent \in Seq(AllPackets), sent' = Append(sent, p)
    PROVE  Sent' = Sent \cup InPacket(p)
<1>1. /\ Len(sent) \in Nat /\ DOMAIN sent = 1..Len(sent) /\ DOMAIN sent' = 1..Len(sent) + 1
      /\ \A i \in 1..Len(sent) : sent'[i] = sent[i]
      /\ sent'[Len(sent) + 1] = p
    BY AppendProperties, LenProperties
<1>2. Sent' \subseteq Sent \cup InPacket(p)
    <2>1. SUFFICES ASSUME NEW i \in DOMAIN sent'
                   PROVE  InPacket(sent'[i]) \subseteq Sent \cup InPacket(p)
        BY DEF Sent, InPacket
    <2>2. CASE i = Len(sent) + 1
        BY <1>1, <2>2
    <2>3. CASE i # Len(sent) + 1
        <3>1. i \in DOMAIN sent /\ sent'[i] = sent[i]
            BY <1>1, <2>3
        <3> QED
            BY <3>1 DEF Sent
    <2> QED
        BY <2>2, <2>3
<1>3. Sent \subseteq Sent'
    <2>1. \A i \in DOMAIN sent : i \in DOMAIN sent' /\ sent'[i] = sent[i]
        BY <1>1
    <2> QED
        BY <2>1 DEF Sent, InPacket
<1>4. InPacket(p) \subseteq Sent'
    <2>1. Len(sent) + 1 \in DOMAIN sent' /\ sent'[Len(sent) + 1] = p
        BY <1>1
    <2> QED
        BY <2>1 DEF Sent, InPacket
<1> QED
    BY <1>2, <1>3, <1>4

(* The encoder's frame goes to the packet, to a packet sent, or is dropped. *)
LEMMA EncodePlaces == ASSUME Inv, PlaceInv, EncEncode PROVE PlaceInv'
<1>1. /\ enc = "encode" /\ enc' = "free"
      /\ UNCHANGED <<mic, reads, frames, cur, refused>>
    BY EncodeFacts DEF micVars
<1>2. AtMic' = AtMic /\ Queued' = Queued
    BY <1>1 DEF AtMic, Queued
<1>3. Waiting' = Waiting \ {cur} /\ cur \in Waiting
    BY <1>1, <1>2, WaitingApart DEF Waiting
<1>4. Combining = {pending[s] : s \in 0..current_frame - 1}
    BY CombiningAre
<1>5. current_frame \in Nat /\ current_frame \in Slots
    BY EncodeFacts, Numbers
<1>6. CASE EncodeFails \/ CatFails
    <2>1. unsent' = unsent \cup {cur} /\ UNCHANGED <<current_frame, sent>>
        BY <1>6 DEF EncodeFails, CatFails
    <2>2. \A s \in 0..current_frame - 1 : pending'[s] = pending[s]
        <3>1. CASE EncodeFails
            BY <3>1 DEF EncodeFails
        <3>2. CASE CatFails
            BY <3>2, EncodeFacts, Constants DEF CatFails, Written
        <3> QED
            BY <1>6, <3>1, <3>2
    <2>3. Combining' = {pending'[s] : s \in 0..current_frame - 1}
        <3>1. CountersAgree'
            BY <1>6, DroppedInv DEF Inv
        <3> QED
            BY <1>5, <2>1, <3>1, CombiningAfter
    <2>4. Combining' = Combining
        BY <1>4, <2>2, <2>3
    <2>5. Sent' = Sent
        BY <2>1 DEF Sent
    <2> QED
        BY <1>1, <1>3, <2>1, <2>4, <2>5 DEF PlaceInv, Apart
<1>7. CASE Cat
    <2>1. /\ current_frame' = current_frame + 1
          /\ pending' = [pending EXCEPT ![current_frame] = cur]
          /\ UNCHANGED <<sent, unsent>>
        BY <1>7 DEF Cat, Written
    <2>2. /\ pending'[current_frame] = cur
          /\ \A s \in 0..current_frame - 1 : pending'[s] = pending[s]
        BY <1>5, <2>1, EncodeFacts, Constants
    <2>3. Combining' = {pending'[s] : s \in 0..current_frame}
        <3>1. CountersAgree'
            BY <1>7, CatInv DEF Inv
        <3>2. current_frame + 1 \in Nat /\ (current_frame + 1) - 1 = current_frame
            BY <1>5
        <3>3. Combining' = {pending'[s] : s \in 0..(current_frame + 1) - 1}
            BY <2>1, <3>1, <3>2, CombiningAfter
        <3> QED
            BY <3>2, <3>3
    <2>4. 0..current_frame = (0..current_frame - 1) \cup {current_frame}
        BY <1>5
    <2>5. Combining' = Combining \cup {cur}
        BY <1>4, <2>2, <2>3, <2>4
    <2>6. Sent' = Sent
        BY <2>1 DEF Sent
    <2> QED
        BY <1>1, <1>3, <2>1, <2>5, <2>6 DEF PlaceInv, Apart
<1>8. CASE CatAndCombine
    <2> DEFINE out == Out(pending', Append(repack, current_frame))
               packet == [frames |-> out, time |-> first']
               elements == {out[i] : i \in DOMAIN out}
    <2>1. /\ repack' = <<>>
          /\ pending' = [pending EXCEPT ![current_frame] = cur]
          /\ current_frame + 1 = Combined
          /\ \/ sent' = Append(sent, packet) /\ UNCHANGED unsent
             \/ unsent' = unsent \cup elements /\ UNCHANGED sent
        BY <1>8 DEF CatAndCombine, Written, Push
    <2>2. Combining' = {}
        BY <2>1 DEF Combining
    <2>3. elements = Combining \cup {cur}
        <3>1. /\ pending'[current_frame] = cur
              /\ \A s \in 0..current_frame - 1 : pending'[s] = pending[s]
            BY <1>5, <2>1, EncodeFacts, Constants
        <3>2. repack \in Seq(Slots) /\ repack = [i \in 1..current_frame |-> i - 1]
            BY DEF Inv, TypeOK, CountersAgree
        <3>3. Append(repack, current_frame) = [i \in 1..Combined |-> i - 1]
            <4>1. Len(repack) = current_frame
                BY <1>5, <3>2
            <4> QED
                BY <1>5, <2>1, <3>2, <4>1
        <3>4. DOMAIN out = 1..Combined /\ \A i \in 1..Combined : out[i] = pending'[i - 1]
            BY <1>5, <2>1, <3>3 DEF Out
        <3>5. elements = {pending'[s] : s \in 0..current_frame}
            <4>1. \A i \in 1..Combined : i - 1 \in 0..current_frame
                BY <1>5, <2>1
            <4>2. \A s \in 0..current_frame : s + 1 \in 1..Combined /\ (s + 1) - 1 = s
                BY <1>5, <2>1
            <4> HIDE DEF out
            <4> QED
                BY <3>4, <4>1, <4>2
        <3>6. 0..current_frame = (0..current_frame - 1) \cup {current_frame}
            BY <1>5
        <3> HIDE DEF elements
        <3> QED
            BY <1>4, <3>1, <3>5, <3>6
    <2>4. packet \in AllPackets /\ sent \in Seq(AllPackets)
        <3>1. out \in [1..Combined -> Frames] /\ first' = out[1]
            BY <1>8, PacketFacts
        <3> HIDE DEF out
        <3>a. \A f \in Frames : f \in Int
            BY Constants
        <3>2. \A i \in 1..Combined : out[i] \in Int
            BY <3>1, <3>a
        <3>3. out \in [1..Combined -> Int] /\ first' \in Int
            BY <3>1, <3>2, Constants
        <3> QED
            BY <3>3 DEF AllPackets, Inv, SentOK
    <2>5. InPacket(packet) = elements
        BY DEF InPacket
    <2> HIDE DEF packet, elements
    <2>6. CASE sent' = Append(sent, packet) /\ UNCHANGED unsent
        <3>1. Sent' = Sent \cup elements
            BY <2>4, <2>5, <2>6, SentAppend
        <3> QED
            BY <1>1, <1>3, <2>2, <2>3, <2>6, <3>1 DEF PlaceInv, Apart
    <2>7. CASE unsent' = unsent \cup elements /\ UNCHANGED sent
        <3>1. Sent' = Sent
            BY <2>7 DEF Sent
        <3> QED
            BY <1>1, <1>3, <2>2, <2>3, <2>7, <3>1 DEF PlaceInv, Apart
    <2> QED
        BY <2>1, <2>6, <2>7
<1> QED
    BY <1>6, <1>7, <1>8 DEF EncEncode

LEMMA InitPlaces == Init => PlaceInv
<1> SUFFICES ASSUME Init PROVE PlaceInv
    OBVIOUS
<1>1. AtMic = {} /\ Queued = {} /\ Waiting = {}
    BY DEF Init, AtMic, Queued, Waiting
<1>2. Combining = {} /\ Sent = {}
    BY DEF Init, Combining, Sent
<1>3. 1..reads = {}
    BY DEF Init
<1> QED
    BY <1>1, <1>2, <1>3 DEF Init, PlaceInv, Apart

LEMMA NextPlaces == Inv /\ PlaceInv /\ [Next]_vars => PlaceInv'
<1> SUFFICES ASSUME Inv, PlaceInv, [Next]_vars PROVE PlaceInv'
    OBVIOUS
<1>1. CASE MicTask
    BY <1>1, MicPlaces
<1>2. CASE EncReceive \/ EncFree
    BY <1>2, HandPlaces
<1>3. CASE EncEncode
    BY <1>3, EncodePlaces
<1>4. CASE MicrophoneStart \/ MicrophoneStop \/ StopTakes \/ StopTimesOut \/ UNCHANGED vars
    <2>1. UNCHANGED <<micVars, frames, encVars, refused>>
        BY <1>4 DEF MicrophoneStart, MicrophoneStop, StopTakes, StopTimesOut, vars
    <2>2. UNCHANGED <<mic, reads, frames, enc, cur, pending, repack, sent, unsent, refused>>
        BY <2>1 DEF micVars, encVars, opusVars
    <2>3. Waiting' = Waiting /\ Combining' = Combining /\ Sent' = Sent
        BY <2>2 DEF Waiting, AtMic, Queued, Combining, Sent
    <2> QED
        BY <2>2, <2>3 DEF PlaceInv
<1> QED
    BY <1>1, <1>2, <1>3, <1>4 DEF Next, EncTask

(* Every frame read so far is in one place: on its way, in the packet in   *)
(* the making, sent, or counted as dropped. None is lost unnoticed and     *)
(* none is both sent and dropped, whatever fails in audio_encoder_task.    *)
THEOREM FramesInOnePlace == Spec => []FrameInOnePlace
<1>1. Inv /\ PlaceInv /\ [Next]_vars => PlaceInv'
    BY NextPlaces
<1>2. Spec => []PlaceInv
    BY <1>1, InitPlaces, Invariance, PTL DEF Spec
<1> QED
    BY <1>2, PlaceInvMeans, PTL

=============================================================================
