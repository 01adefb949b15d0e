------------------------------ MODULE RtpSender -----------------------------
(***************************************************************************)
(* What stream_task does with a frame (the step SendAndFree of Streaming): *)
(* parse_jpeg, the RTP payload format for JPEG (RFC 2435) in               *)
(* rtp_send_jpeg_data, and rtp_send_opus_frame. Sockets may refuse any     *)
(* packet. A picture is the sequence of its JPEG segments and the number   *)
(* of bytes of its scan; a packet stands for the part of the scan it has.  *)
(* Pictures are whole: of one cut off in the header of its scan parse_jpeg *)
(* would compute a length below zero, as an unsigned number.               *)
(***************************************************************************)
EXTENDS Integers, Sequences, FiniteSets

CONSTANTS PacketSize,  \* PACKET_SIZE
          HdrLen,      \* the RTP and the JPEG header
          TablesLen,   \* two quantization tables and their header
          OpusLimit,   \* the longest Opus packet that is sent
          SeqNumbers,  \* 2^16
          Offsets,     \* 2^24
          Blocks,      \* 2^8, width and height in blocks of 8 pixels
          Pictures,    \* the pictures the camera may take
          OpusPackets, \* the packets of the encoder, by their length
          Jobs         \* bound: frames

ASSUME RtpSenderAssumption ==
    /\ PacketSize \in Nat /\ HdrLen \in Nat /\ TablesLen \in Nat \ {0}
    /\ HdrLen + TablesLen < PacketSize
    /\ OpusLimit \in Nat
    /\ {SeqNumbers, Offsets, Blocks} \subseteq Nat \ {0}
    /\ \A p \in Pictures :
          /\ p.scan \in 0..Offsets - 1
          /\ p.width \in Nat /\ p.width % 8 = 0
          /\ p.height \in Nat /\ p.height % 8 = 0
          /\ p.segments \in Seq({"SOI", "APP0", "SOF", "DHT", "DQT0", "DQT1",
                                 "SOS", "other"})
    /\ \A o \in OpusPackets : o.length \in Nat
    /\ Pictures \cap OpusPackets = {}
    /\ Jobs \in Nat

VARIABLES
    jobs,       \* the frames stream_task received, pictures and lengths
    sending,    \* it is in the loop of rtp_send_jpeg_data
    hdr,        \* the packet headers: seq, off, q, width, height
    bytes_left,
    video_seq, audio_seq,  \* the two static sequence_number
    video, audio,          \* the packets the network got, in order
    broken      \* ghost: the pictures a refused packet broke off

vars == <<jobs, sending, hdr, bytes_left, video_seq, audio_seq, video, audio, broken>>

NoHeader == [seq |-> 0, off |-> 0, q |-> 0, width |-> 0, height |-> 0]
IsPicture(j) == j \in DOMAIN jobs /\ jobs[j] \in Pictures

TypeOK ==
    /\ jobs \in Seq(Pictures \cup OpusPackets) /\ Len(jobs) <= Jobs
    /\ sending \in BOOLEAN
    /\ hdr \in [seq : 0..SeqNumbers - 1, off : 0..Offsets - 1, q : {0, 128},
                width : 0..Blocks - 1, height : 0..Blocks - 1]
    /\ bytes_left \in 0..Offsets - 1
    /\ {video_seq, audio_seq} \subseteq 0..SeqNumbers - 1
    /\ broken \subseteq 1..Jobs

Init ==
    /\ jobs = <<>> /\ sending = FALSE /\ hdr = NoHeader /\ bytes_left = 0
    /\ video_seq = 0 /\ audio_seq = 0
    /\ video = <<>> /\ audio = <<>> /\ broken = {}

-----------------------------------------------------------------------------
(* parse_jpeg: the segments are visited up to the start of the scan. One   *)
(* that is not known, or a table segment of another length than the        *)
(* camera's, ends the visit; a picture that has no scan is no error.       *)
Known == {"SOI", "APP0", "SOF", "DHT", "DQT0", "DQT1", "SOS"}
Visited(p) == {i \in DOMAIN p.segments :
                  \A j \in 1..i - 1 : p.segments[j] \in Known \ {"SOS"}}
Visits(p, marker) == \E i \in Visited(p) : p.segments[i] = marker
Parses(p) == \A i \in Visited(p) : p.segments[i] \in Known
ScanLength(p) == IF Visits(p, "SOS") THEN p.scan ELSE 0

HasTables(p) == Visits(p, "DQT0") /\ Visits(p, "DQT1")

Header(p) ==
    [seq |-> video_seq, off |-> 0, q |-> IF HasTables(p) THEN 128 ELSE 0,
     width |-> (p.width \div 8) % Blocks, height |-> (p.height \div 8) % Blocks]

StartPicture(p) ==
    /\ ~sending
    /\ Len(jobs) < Jobs
    /\ jobs' = Append(jobs, p)
    /\ IF Parses(p)
          THEN /\ sending' = TRUE
               /\ hdr' = Header(p)
               /\ bytes_left' = ScanLength(p)
          ELSE UNCHANGED <<sending, hdr, bytes_left>>
    /\ UNCHANGED <<video_seq, audio_seq, video, audio, broken>>

-----------------------------------------------------------------------------
(* The loop of rtp_send_jpeg_data *)

WithTables == hdr.q >= 128 /\ hdr.off = 0

FullRoom == PacketSize - HdrLen
Room == FullRoom - IF WithTables THEN TablesLen ELSE 0

(* Mistake: a packet that is just filled is not the last one. *)
EndsWithRoom == Room > bytes_left

IsLast == Room >= bytes_left

(* Mistake: the last packet is filled like the others. *)
AlwaysFull == Room

DataLen == IF IsLast THEN bytes_left ELSE Room

Fragment == [frame |-> Len(jobs), seq |-> hdr.seq, off |-> hdr.off, len |-> DataLen,
             m |-> IsLast, tables |-> WithTables, q |-> hdr.q,
             width |-> hdr.width, height |-> hdr.height]

SendPacket ==
    /\ sending
    /\ bytes_left > 0
    /\ video' = Append(video, Fragment)
    /\ hdr' = [hdr EXCEPT !.off = (@ + DataLen) % Offsets, !.seq = (@ + 1) % SeqNumbers]
    /\ bytes_left' = bytes_left - DataLen
    /\ UNCHANGED <<jobs, sending, video_seq, audio_seq, audio, broken>>

(* Mistake: a broken off picture does not count the packets it had. *)
FailReturnsStart ==
    /\ sending
    /\ bytes_left > 0
    /\ sending' = FALSE
    /\ broken' = broken \cup {Len(jobs)}
    /\ UNCHANGED <<jobs, hdr, bytes_left, video_seq, audio_seq, video, audio>>

(* The rest of the picture is given up; the packet that was refused leaves *)
(* its number to the next one.                                             *)
SendFails ==
    /\ sending
    /\ bytes_left > 0
    /\ sending' = FALSE
    /\ video_seq' = hdr.seq
    /\ broken' = broken \cup {Len(jobs)}
    /\ UNCHANGED <<jobs, hdr, bytes_left, audio_seq, video, audio>>

FinishPicture ==
    /\ sending
    /\ bytes_left = 0
    /\ sending' = FALSE
    /\ video_seq' = hdr.seq
    /\ UNCHANGED <<jobs, hdr, bytes_left, audio_seq, video, audio, broken>>

-----------------------------------------------------------------------------
(* Mistake: a packet that is too long is not counted. *)
CountSentOnly(o) ==
    /\ ~sending
    /\ Len(jobs) < Jobs
    /\ jobs' = Append(jobs, o)
    /\ audio_seq' = IF o.length <= OpusLimit THEN (audio_seq + 1) % SeqNumbers ELSE audio_seq
    /\ \/ UNCHANGED audio
       \/ /\ o.length <= OpusLimit
          /\ audio' = Append(audio, [frame |-> Len(jobs'), seq |-> audio_seq])
    /\ UNCHANGED <<sending, hdr, bytes_left, video_seq, video, broken>>

(* rtp_send_opus_frame: the number is taken before the length is looked    *)
(* at; whether the socket took the packet is only logged.                  *)
SendOpus(o) ==
    /\ ~sending
    /\ Len(jobs) < Jobs
    /\ jobs' = Append(jobs, o)
    /\ audio_seq' = (audio_seq + 1) % SeqNumbers
    /\ \/ UNCHANGED audio
       \/ /\ o.length <= OpusLimit
          /\ audio' = Append(audio, [frame |-> Len(jobs'), seq |-> audio_seq])
    /\ UNCHANGED <<sending, hdr, bytes_left, video_seq, video, broken>>

Next == \/ \E p \in Pictures : StartPicture(p)
        \/ SendPacket \/ SendFails \/ FinishPicture
        \/ \E o \in OpusPackets : SendOpus(o)

Spec == Init /\ [][Next]_vars

-----------------------------------------------------------------------------
(* The fragments of a picture, by a formula instead of a loop: the tables  *)
(* with the first, every one filled but the last, the marker on the last.  *)
Before(p) == IF HasTables(p) THEN TablesLen ELSE 0
Cut(p, i) == IF i = 0 THEN 0 ELSE i * FullRoom - Before(p)
Count(p) == IF ScanLength(p) = 0 THEN 0
            ELSE (ScanLength(p) + Before(p) + FullRoom - 1) \div FullRoom
Fragments(p) ==
    [i \in 1..Count(p) |->
        [off |-> Cut(p, i - 1),
         len |-> (IF i = Count(p) THEN ScanLength(p) ELSE Cut(p, i)) - Cut(p, i - 1),
         m |-> i = Count(p),
         tables |-> HasTables(p) /\ i = 1]]

(* The packets sent of a frame, and which of them a packet is.             *)
PacketsOf(j) == {i \in DOMAIN video : video[i].frame = j}
Place(i) == Cardinality({k \in 1..i : video[k].frame = video[i].frame})
Part(f) == [off |-> f.off, len |-> f.len, m |-> f.m, tables |-> f.tables]

(* A picture is sent as the payload format has it, for every length of its *)
(* scan: its n-th packet is the n-th fragment, and every fragment is sent  *)
(* unless a packet was refused.                                            *)
SentAsFragments ==
    /\ \A i \in DOMAIN video :
          LET j == video[i].frame
          IN  /\ IsPicture(j) /\ Parses(jobs[j])
              /\ Place(i) <= Count(jobs[j])
              /\ Part(video[i]) = Fragments(jobs[j])[Place(i)]
    /\ \A j \in DOMAIN jobs : IsPicture(j) /\ Parses(jobs[j]) =>
          \/ j \in broken
          \/ sending /\ j = Len(jobs)
          \/ Cardinality(PacketsOf(j)) = Count(jobs[j])

(* The numbers of the video stream have no gap and no repetition, not even *)
(* where a picture was broken off, which shows in the marker its last      *)
(* packet does not have and in the offset zero after it.                   *)
VideoContinues ==
    \A i \in 1..Len(video) - 1 :
        LET p == video[i]
            q == video[i + 1]
        IN  /\ q.seq = (p.seq + 1) % SeqNumbers
            /\ IF q.frame = p.frame THEN ~p.m /\ q.off = p.off + p.len
               ELSE q.off = 0 /\ (p.m <=> p.frame \notin broken)

(* The gaps in the numbers of the audio stream count the packets that were *)
(* dropped, those too long included.                                       *)
OpusBefore(j) == Cardinality({i \in 1..j - 1 : ~IsPicture(i)})
AudioGapsAreDrops == \A i \in DOMAIN audio :
                         audio[i].seq = OpusBefore(audio[i].frame) % SeqNumbers
=============================================================================
