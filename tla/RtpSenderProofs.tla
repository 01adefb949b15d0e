--------------------------- MODULE RtpSenderProofs --------------------------
(***************************************************************************)
(* Theorems about RtpSender for every packet size, width of the counters   *)
(* and set of pictures: the types, the numbers of both streams, the size   *)
(* of the picture, and that the loop over the packets sends the fragments  *)
(* a formula gives.                                                        *)
(***************************************************************************)
EXTENDS RtpSender, SequenceTheorems, FiniteSetTheorems, TLAPS

Packet == [frame : Nat, seq : 0..SeqNumbers - 1, off : 0..Offsets - 1,
           len : Nat, m : BOOLEAN, tables : BOOLEAN, q : {0, 128},
           width : 0..Blocks - 1, height : 0..Blocks - 1]
OpusPacket == [frame : Nat, seq : 0..SeqNumbers - 1]

PacketHeader == [seq : 0..SeqNumbers - 1, off : 0..Offsets - 1, q : {0, 128},
                 width : 0..Blocks - 1, height : 0..Blocks - 1]

(* TypeOK, with the packets' types, in two parts.                          *)
Numbers == /\ sending \in BOOLEAN
           /\ hdr \in PacketHeader
           /\ bytes_left \in 0..Offsets - 1
           /\ video_seq \in 0..SeqNumbers - 1
           /\ audio_seq \in 0..SeqNumbers - 1
Lists == /\ jobs \in Seq(Pictures \cup OpusPackets)
         /\ Len(jobs) <= Jobs
         /\ video \in Seq(Packet)
         /\ audio \in Seq(OpusPacket)
         /\ broken \subseteq 1..Jobs
TypeInv == Numbers /\ Lists

(* The header describes the last job, and what is left of its scan starts  *)
(* where the header points.                                                *)
Underway ==
    sending =>
        /\ Len(jobs) \in DOMAIN jobs
        /\ jobs[Len(jobs)] \in Pictures
        /\ hdr.off + bytes_left = ScanLength(jobs[Len(jobs)])
        /\ Len(jobs) \notin broken

(* Every packet belongs to a picture that was received, in order.          *)
Belongs ==
    /\ \A i \in DOMAIN video :
          /\ video[i].frame \in DOMAIN jobs
          /\ jobs[video[i].frame] \in Pictures
    /\ \A i \in 1..Len(video) - 1 : video[i].frame <= video[i + 1].frame
    /\ broken \subseteq DOMAIN jobs

(* Where the next packet goes on from the last one.                        *)
Follows(p) ==
    /\ hdr.seq = (p.seq + 1) % SeqNumbers
    /\ hdr.off = p.off + p.len
    /\ p.m <=> bytes_left = 0
Ended(p) ==
    /\ video_seq = (p.seq + 1) % SeqNumbers
    /\ p.m <=> p.frame \notin broken
LastPacket ==
    video # <<>> =>
        LET p == video[Len(video)]
        IN  IF sending /\ p.frame = Len(jobs)
               THEN Follows(p)
               ELSE /\ Ended(p)
                    /\ sending => hdr.seq = video_seq /\ hdr.off = 0

(* audio_seq counts the Opus packets that stream_task received.            *)
AudioCount ==
    /\ audio_seq = OpusBefore(Len(jobs) + 1) % SeqNumbers
    /\ \A i \in DOMAIN audio :
          /\ audio[i].frame \in DOMAIN jobs
          /\ audio[i].seq = OpusBefore(audio[i].frame) % SeqNumbers

-----------------------------------------------------------------------------
(* Remainders                                                              *)
(* No multiple of n but 0 lies strictly between -n and n.                  *)
LEMMA Small ==
    ASSUME NEW n \in Nat \ {0}, NEW k \in Int, -n < n * k, n * k < n
    PROVE  k = 0
<1>1. k >= 1 => n * k >= n
  OBVIOUS
<1>2. k <= -1 => n * k <= -n
  OBVIOUS
<1> QED
  BY <1>1, <1>2

(* The remainder is the one number below n that leaves a multiple of n.    *)
LEMMA Remainder ==
    ASSUME NEW n \in Nat \ {0}, NEW a \in Int, NEW q \in Int, NEW r \in 0..n-1,
           a = n * q + r
    PROVE  a % n = r
<1>1. ASSUME NEW p, p = a \div n, NEW m, m = a % n
      PROVE  m = r
  <2>1. p \in Int /\ m \in Int /\ 0 <= m
    BY <1>1
  <2>2. m < n
    BY <1>1
  <2>3. m = a - n * p
    BY <1>1
  <2>4. n * (p - q) = n * p - n * q
    BY <2>1
  <2>5. n * (p - q) = r - m
    BY <2>1, <2>3, <2>4
  <2>6. p - q = 0
    BY <2>1, <2>2, <2>5, Small
  <2> QED
    BY <2>1, <2>5, <2>6
<1> QED
  BY <1>1

LEMMA Below ==
    ASSUME NEW n \in Nat \ {0}, NEW c \in 0..n-1
    PROVE  c % n = c
<1>1. PICK z \in Int : z = 0
  OBVIOUS
<1>2. c = n * z + c /\ c \in Int
  BY <1>1
<1> QED
  BY <1>2, Remainder

LEMMA Itself ==
    ASSUME NEW n \in Nat \ {0}
    PROVE  n % n = 0
<1>1. PICK o \in Int, z \in 0..n-1 : o = 1 /\ z = 0
  OBVIOUS
<1>2. n = n * o + z /\ n \in Int
  BY <1>1
<1>3. n % n = z
  BY <1>2, Remainder
<1> QED
  BY <1>1, <1>3

(* Counting modulo n: the successor of a remainder.                        *)
LEMMA ModNext ==
    ASSUME NEW n \in Nat \ {0}, NEW a \in Int
    PROVE  ((a % n) + 1) % n = (a + 1) % n
<1>1. ASSUME NEW q, q = a \div n, NEW r, r = a % n
      PROVE  (r + 1) % n = (a + 1) % n
  <2>1. q \in Int /\ r \in Int /\ 0 <= r
    BY <1>1
  <2>2. r < n /\ r = a - n * q
    BY <1>1
  <2>3. CASE r + 1 < n
    <3>1. PICK c \in 0..n-1 : c = r + 1
      BY <2>1, <2>3
    <3>2. a + 1 = n * q + c /\ a + 1 \in Int
      BY <2>1, <2>2, <3>1
    <3>3. (a + 1) % n = c /\ c % n = c
      BY <2>1, <3>2, Remainder, Below
    <3> QED
      BY <3>1, <3>3
  <2>4. CASE r + 1 = n
    <3>1. PICK p \in Int, z \in 0..n-1 : p = q + 1 /\ z = 0
      BY <2>1
    <3>2. a + 1 = n * p + z /\ a + 1 \in Int
      BY <2>1, <2>2, <2>4, <3>1
    <3>3. (a + 1) % n = z
      BY <3>2, Remainder
    <3> QED
      BY <2>4, <3>1, <3>3, Itself
  <2> QED
    BY <2>1, <2>2, <2>3, <2>4
<1> QED
  BY <1>1

LEMMA ModType ==
    ASSUME NEW n \in Nat \ {0}, NEW a \in Int
    PROVE  a % n \in 0..n - 1
<1>1. a % n \in Int /\ 0 <= a % n
  OBVIOUS
<1>2. a % n < n
  OBVIOUS
<1> QED
  BY <1>1, <1>2

-----------------------------------------------------------------------------
(* What Append does to a sequence.                                         *)
LEMMA Appended ==
    ASSUME NEW S, NEW q \in Seq(S), NEW e \in S
    PROVE  /\ Append(q, e) \in Seq(S)
           /\ Append(q, e) # <<>>
           /\ Len(q) \in Nat /\ Len(Append(q, e)) = Len(q) + 1
           /\ DOMAIN q = 1..Len(q) /\ DOMAIN Append(q, e) = 1..Len(q) + 1
           /\ Append(q, e)[Len(q) + 1] = e
           /\ \A i \in 1..Len(q) : Append(q, e)[i] = q[i]
BY AppendProperties, LenProperties

LEMMA ConstantTypes ==
    /\ SeqNumbers \in Nat \ {0} /\ Offsets \in Nat \ {0} /\ Blocks \in Nat \ {0}
    /\ Jobs \in Nat
BY RtpSenderAssumption

(* A packet takes a part of what is left of the scan; the marker is on the *)
(* packet that takes all of it.                                            *)
LEMMA Taken ==
    ASSUME TypeInv
    PROVE  /\ DataLen \in Nat /\ DataLen <= bytes_left
           /\ IsLast <=> bytes_left - DataLen = 0
           /\ IsLast \in BOOLEAN /\ WithTables \in BOOLEAN
<1>1. bytes_left \in Nat
  BY ConstantTypes DEF TypeInv, Numbers
<1>2. Room \in Nat
  BY RtpSenderAssumption DEF Room, FullRoom
<1> QED
  BY <1>1, <1>2 DEF DataLen, IsLast, WithTables

LEMMA Scans ==
    ASSUME NEW p \in Pictures
    PROVE  ScanLength(p) \in 0..Offsets - 1
BY RtpSenderAssumption DEF ScanLength

LEMMA HeaderType ==
    ASSUME NEW p \in Pictures, video_seq \in 0..SeqNumbers - 1
    PROVE  /\ Header(p) \in PacketHeader
           /\ Header(p).seq = video_seq /\ Header(p).off = 0
<1>1. p.width \in Nat /\ p.height \in Nat
  BY RtpSenderAssumption
<1>2. p.width \div 8 \in Int /\ p.height \div 8 \in Int
  BY <1>1
<1>3. /\ (p.width \div 8) % Blocks \in 0..Blocks - 1
      /\ (p.height \div 8) % Blocks \in 0..Blocks - 1
  BY <1>2, ConstantTypes, ModType
<1>4. 0 \in 0..Offsets - 1
  BY ConstantTypes
<1> QED
  BY <1>3, <1>4 DEF Header, PacketHeader

-----------------------------------------------------------------------------
(* Type correctness                                                        *)
LEMMA TypeInvTypeOK == ASSUME TypeInv PROVE TypeOK
BY DEF TypeInv, Numbers, Lists, PacketHeader, TypeOK

LEMMA InitType == ASSUME Init PROVE TypeInv
<1>1. /\ <<>> \in Seq(Pictures \cup OpusPackets) /\ <<>> \in Seq(Packet)
      /\ <<>> \in Seq(OpusPacket) /\ Len(<<>>) = 0
  BY EmptySeq
<1>2. Lists
  BY <1>1, ConstantTypes DEF Init, Lists
<1>3. NoHeader \in PacketHeader
  BY ConstantTypes DEF NoHeader, PacketHeader
<1>4. 0 \in 0..SeqNumbers - 1 /\ 0 \in 0..Offsets - 1
  BY ConstantTypes
<1>5. Numbers
  BY <1>3, <1>4 DEF Init, Numbers
<1> QED
  BY <1>2, <1>5 DEF TypeInv

LEMMA JobType ==
    ASSUME TypeInv, NEW j \in Pictures \cup OpusPackets, Len(jobs) < Jobs
    PROVE  /\ Append(jobs, j) \in Seq(Pictures \cup OpusPackets)
           /\ Len(Append(jobs, j)) \in 1..Jobs
BY Appended, ConstantTypes DEF TypeInv, Lists

LEMMA StartType ==
    ASSUME TypeInv, NEW p \in Pictures, StartPicture(p)
    PROVE  TypeInv'
<1>1. Lists'
  BY JobType DEF StartPicture, TypeInv, Lists
<1>2. Numbers'
  BY HeaderType, Scans DEF StartPicture, TypeInv, Numbers
<1> QED
  BY <1>1, <1>2 DEF TypeInv

LEMMA FragmentType ==
    ASSUME TypeInv
    PROVE  Fragment \in Packet
<1>1. Len(jobs) \in Nat
  BY LenProperties DEF TypeInv, Lists
<1> QED
  BY <1>1, Taken DEF Fragment, Packet, TypeInv, Numbers, PacketHeader

LEMMA SendType ==
    ASSUME TypeInv, Underway, SendPacket
    PROVE  /\ TypeInv'
           /\ hdr' = [hdr EXCEPT !.off = hdr.off + DataLen,
                                 !.seq = (hdr.seq + 1) % SeqNumbers]
<1>1. Lists'
  BY FragmentType, Appended DEF SendPacket, TypeInv, Lists
<1>2. hdr \in PacketHeader /\ hdr.off \in Nat /\ hdr.seq \in Nat
  BY ConstantTypes DEF TypeInv, Numbers, PacketHeader
<1>3. hdr.off + DataLen \in 0..Offsets - 1
  <2>1. hdr.off + bytes_left \in 0..Offsets - 1
    BY Scans DEF SendPacket, Underway
  <2>2. bytes_left \in Nat
    BY ConstantTypes DEF TypeInv, Numbers
  <2> QED
    BY <1>2, <2>1, <2>2, Taken, ConstantTypes
<1>4. (hdr.off + DataLen) % Offsets = hdr.off + DataLen
  BY <1>3, Below, ConstantTypes, Zenon
<1>5. (hdr.seq + 1) % SeqNumbers \in 0..SeqNumbers - 1
  BY <1>2, ModType, ConstantTypes
<1>6. hdr' = [hdr EXCEPT !.off = hdr.off + DataLen, !.seq = (hdr.seq + 1) % SeqNumbers]
  BY <1>4 DEF SendPacket
<1>7. hdr' \in PacketHeader
  BY <1>2, <1>3, <1>5, <1>6 DEF PacketHeader
<1>8. bytes_left' \in 0..Offsets - 1
  BY Taken, ConstantTypes DEF SendPacket, TypeInv, Numbers
<1>9. Numbers'
  BY <1>7, <1>8 DEF SendPacket, TypeInv, Numbers
<1> QED
  BY <1>1, <1>6, <1>9 DEF TypeInv

LEMMA EndType ==
    ASSUME TypeInv, Underway, SendFails \/ FinishPicture
    PROVE  TypeInv'
<1>1. Len(jobs) \in 1..Jobs
  <2>1. DOMAIN jobs = 1..Len(jobs) /\ Len(jobs) \in Nat /\ Len(jobs) <= Jobs
    BY LenProperties DEF TypeInv, Lists
  <2> QED
    BY <2>1, ConstantTypes DEF SendFails, FinishPicture, Underway
<1>2. Lists'
  BY <1>1 DEF SendFails, FinishPicture, TypeInv, Lists
<1>3. video_seq' \in 0..SeqNumbers - 1
  BY DEF SendFails, FinishPicture, TypeInv, Numbers, PacketHeader
<1>4. Numbers'
  BY <1>3 DEF SendFails, FinishPicture, TypeInv, Numbers
<1> QED
  BY <1>2, <1>4 DEF TypeInv

LEMMA OpusType ==
    ASSUME TypeInv, NEW o \in OpusPackets, SendOpus(o)
    PROVE  TypeInv'
<1>1. /\ jobs' \in Seq(Pictures \cup OpusPackets)
      /\ Len(jobs') \in 1..Jobs
  BY JobType DEF SendOpus
<1>2. [frame |-> Len(jobs'), seq |-> audio_seq] \in OpusPacket
  BY <1>1 DEF OpusPacket, TypeInv, Numbers
<1>3. audio' \in Seq(OpusPacket)
  <2>1. audio \in Seq(OpusPacket)
    BY DEF TypeInv, Lists
  <2>2. Append(audio, [frame |-> Len(jobs'), seq |-> audio_seq]) \in Seq(OpusPacket)
    BY <1>2, <2>1, Appended
  <2> QED
    BY <2>1, <2>2 DEF SendOpus
<1>4. Lists'
  BY <1>1, <1>3, ConstantTypes DEF SendOpus, TypeInv, Lists
<1>5. audio_seq + 1 \in Int
  BY DEF TypeInv, Numbers
<1>6. audio_seq' \in 0..SeqNumbers - 1
  BY <1>5, ModType, ConstantTypes DEF SendOpus
<1>7. Numbers'
  BY <1>6 DEF SendOpus, TypeInv, Numbers
<1> QED
  BY <1>4, <1>7 DEF TypeInv

-----------------------------------------------------------------------------
(* The packets of the pictures                                             *)
VideoInv == Underway /\ Belongs /\ LastPacket /\ VideoContinues

LEMMA JobsGrow ==
    ASSUME TypeInv, NEW j \in Pictures \cup OpusPackets, jobs' = Append(jobs, j)
    PROVE  /\ Len(jobs) \in Nat /\ Len(jobs') = Len(jobs) + 1
           /\ DOMAIN jobs = 1..Len(jobs) /\ DOMAIN jobs' = 1..Len(jobs) + 1
           /\ jobs'[Len(jobs')] = j
           /\ \A i \in DOMAIN jobs : jobs'[i] = jobs[i] /\ i \in DOMAIN jobs'
BY Appended DEF TypeInv, Lists

LEMMA VideoShape ==
    ASSUME TypeInv
    PROVE  /\ Len(video) \in Nat /\ DOMAIN video = 1..Len(video)
           /\ \A i \in 1..Len(video) : video[i] \in Packet
           /\ video = <<>> <=> Len(video) = 0
           /\ Len(jobs) \in Nat /\ DOMAIN jobs = 1..Len(jobs)
<1>1. video \in Seq(Packet) /\ jobs \in Seq(Pictures \cup OpusPackets)
  BY DEF TypeInv, Lists
<1> QED
  BY <1>1, LenProperties, EmptySeq

(* A new frame leaves the packets as they are, and where the next picture  *)
(* starts.                                                                 *)
LEMMA NewFrameVideo ==
    ASSUME TypeInv, VideoInv, NEW j \in Pictures \cup OpusPackets,
           jobs' = Append(jobs, j), ~sending,
           UNCHANGED <<video, video_seq, broken>>,
           sending' => /\ j \in Pictures
                       /\ hdr'.off = 0 /\ hdr'.seq = video_seq
                       /\ bytes_left' = ScanLength(j)
    PROVE  VideoInv'
<1> USE DEF VideoInv
<1>1. Underway'
  <2>1. Len(jobs') \notin broken
    BY JobsGrow DEF Belongs
  <2>2. sending' => hdr'.off + bytes_left' = ScanLength(j)
    BY Scans, ConstantTypes
  <2> QED
    BY <2>1, <2>2, JobsGrow DEF Underway
<1>2. Belongs'
  BY JobsGrow DEF Belongs
<1>3. LastPacket'
  <2>1. video # <<>> => video[Len(video)].frame \in DOMAIN jobs
    BY VideoShape DEF Belongs
  <2>2. video # <<>> => video[Len(video)].frame # Len(jobs')
    BY <2>1, JobsGrow
  <2>3. video # <<>> => Ended(video[Len(video)])
    BY DEF LastPacket
  <2> QED
    BY <2>2, <2>3 DEF LastPacket, Ended
<1>4. VideoContinues'
  BY DEF VideoContinues
<1> QED
  BY <1>1, <1>2, <1>3, <1>4

LEMMA SendVideo ==
    ASSUME TypeInv, VideoInv, SendPacket
    PROVE  VideoInv'
<1> USE DEF VideoInv
<1> DEFINE n == Len(video)
           k == Len(jobs)
<1>1. /\ sending /\ UNCHANGED <<jobs, sending, video_seq, broken>>
      /\ video' = Append(video, Fragment)
      /\ bytes_left' = bytes_left - DataLen
      /\ hdr' = [hdr EXCEPT !.off = hdr.off + DataLen,
                            !.seq = (hdr.seq + 1) % SeqNumbers]
  BY SendType DEF SendPacket
<1>2. /\ n \in Nat /\ Len(video') = n + 1 /\ DOMAIN video' = 1..n + 1
      /\ DOMAIN video = 1..n /\ video'[n + 1] = Fragment
      /\ \A i \in 1..n : video'[i] = video[i]
      /\ video' # <<>>
  BY <1>1, FragmentType, Appended DEF TypeInv, Lists
<1>3. /\ hdr'.off = hdr.off + DataLen /\ hdr'.seq = (hdr.seq + 1) % SeqNumbers
      /\ hdr'.width = hdr.width /\ hdr'.height = hdr.height
      /\ hdr.off \in Nat /\ bytes_left \in Nat
  BY <1>1, ConstantTypes DEF TypeInv, Numbers, PacketHeader
<1>4. /\ Fragment.frame = k /\ Fragment.seq = hdr.seq /\ Fragment.off = hdr.off
      /\ Fragment.len = DataLen /\ Fragment.m = IsLast
      /\ Fragment.width = hdr.width /\ Fragment.height = hdr.height
  BY DEF Fragment
<1>5. Underway'
  BY <1>1, <1>3, Taken DEF Underway
<1>6. Belongs'
  <2>1. \A i \in 1..n : video[i].frame <= k
    BY <1>2, VideoShape DEF Belongs
  <2>2. \A i \in 1..n : video'[i].frame <= video'[i + 1].frame
    <3>1. \A i \in 1..n - 1 : video[i].frame <= video[i + 1].frame
      BY DEF Belongs
    <3>2. n \in Nat
      BY <1>2
    <3>3. \A i \in 1..n - 1 : i \in 1..n /\ i + 1 \in 1..n
      BY <1>2
    <3> HIDE DEF n
    <3>4. \A i \in 1..n : i \in 1..n - 1 \/ i = n
      BY <3>2
    <3> QED
      BY <1>2, <1>4, <2>1, <3>1, <3>2, <3>3, <3>4
  <2>3. \A i \in 1..n + 1 : /\ video'[i].frame \in DOMAIN jobs
                           /\ jobs[video'[i].frame] \in Pictures
    BY <1>1, <1>2, <1>4 DEF Belongs, Underway
  <2> QED
    BY <1>1, <1>2, <2>2, <2>3 DEF Belongs
<1>7. LastPacket'
  <2>1. /\ hdr'.seq = (Fragment.seq + 1) % SeqNumbers
        /\ hdr'.off = Fragment.off + Fragment.len
        /\ Fragment.m <=> bytes_left' = 0
    BY <1>1, <1>3, <1>4, Taken
  <2> QED
    BY <1>1, <1>2, <1>4, <2>1 DEF LastPacket, Follows
<1>8. VideoContinues'
  <2> DEFINE Joined(p, q) ==
          /\ q.seq = (p.seq + 1) % SeqNumbers
          /\ IF q.frame = p.frame THEN ~p.m /\ q.off = p.off + p.len
             ELSE q.off = 0 /\ (p.m <=> p.frame \notin broken)
  <2>1. \A i \in 1..n - 1 : Joined(video[i], video[i + 1])
    BY DEF VideoContinues
  <2>2. n # 0 => Joined(video[n], Fragment)
    BY <1>1, <1>2, <1>3, <1>4, VideoShape DEF SendPacket, LastPacket, Follows, Ended
  <2>3. \A i \in 1..n : Joined(video'[i], video'[i + 1])
    BY <1>2, <2>1, <2>2
  <2> QED
    BY <1>1, <1>2, <2>3 DEF VideoContinues
<1> QED
  BY <1>5, <1>6, <1>7, <1>8

LEMMA EndVideo ==
    ASSUME TypeInv, VideoInv, SendFails \/ FinishPicture
    PROVE  VideoInv'
<1> USE DEF VideoInv
<1> DEFINE n == Len(video)
           k == Len(jobs)
<1>1. /\ sending /\ ~sending' /\ UNCHANGED <<jobs, video, bytes_left>>
      /\ video_seq' = hdr.seq
  BY DEF SendFails, FinishPicture
<1>2. /\ broken' \in {broken, broken \cup {k}}
      /\ k \in broken' <=> bytes_left # 0
  <2>1. bytes_left \in Nat
    BY ConstantTypes DEF TypeInv, Numbers
  <2> QED
    BY <2>1 DEF SendFails, FinishPicture, Underway
<1>3. Underway'
  BY <1>1 DEF Underway
<1>4. Belongs'
  BY <1>1, <1>2 DEF Belongs, Underway
<1>5. LastPacket'
  <2>1. CASE video[n].frame = k
    BY <1>1, <1>2, <2>1 DEF LastPacket, Follows, Ended
  <2>2. CASE video[n].frame # k
    BY <1>1, <1>2, <2>2 DEF LastPacket, Ended
  <2> QED
    BY <2>1, <2>2
<1>6. VideoContinues'
  <2>1. ASSUME NEW i \in 1..n - 1, video[i + 1].frame # video[i].frame
        PROVE  video[i].frame # k
    <3>1. video[i].frame <= video[i + 1].frame
      BY <2>1 DEF Belongs
    <3>2. i \in DOMAIN video /\ i + 1 \in DOMAIN video
      BY <2>1, VideoShape
    <3>3. video[i].frame \in 1..k /\ video[i + 1].frame \in 1..k
      BY <3>2, VideoShape DEF Belongs
    <3> QED
      BY <2>1, <3>1, <3>3
  <2> QED
    BY <1>1, <1>2, <2>1 DEF VideoContinues
<1> QED
  BY <1>3, <1>4, <1>5, <1>6

-----------------------------------------------------------------------------
(* The numbers of the Opus packets                                         *)
LEMMA CountsFinite ==
    ASSUME NEW n \in Nat
    PROVE  IsFiniteSet({i \in 1..n : ~IsPicture(i)}) /\ OpusBefore(n + 1) \in Nat
<1>1. IsFiniteSet(1..n)
  BY FS_Interval
<1>2. IsFiniteSet({i \in 1..n : ~IsPicture(i)})
  BY <1>1, FS_Subset
<1>3. 1..(n + 1) - 1 = 1..n
  OBVIOUS
<1> QED
  BY <1>2, <1>3, FS_CardinalityType DEF OpusBefore

(* What was received before does not count again.                          *)
LEMMA CountsKept ==
    ASSUME TypeInv, NEW j \in Pictures \cup OpusPackets, jobs' = Append(jobs, j),
           NEW i \in 1..Len(jobs) + 1
    PROVE  OpusBefore(i)' = OpusBefore(i)
<1>1. Len(jobs) \in Nat
  BY JobsGrow
<1>2. \A h \in 1..i - 1 : IsPicture(h)' <=> IsPicture(h)
  <2>1. \A h \in 1..i - 1 : h \in DOMAIN jobs
    BY <1>1, JobsGrow
  <2> QED
    BY <2>1, JobsGrow DEF IsPicture
<1>3. {h \in 1..i - 1 : ~IsPicture(h)}' = {h \in 1..i - 1 : ~IsPicture(h)}
  BY <1>2
<1> QED
  BY <1>3 DEF OpusBefore

LEMMA CountsOne ==
    ASSUME TypeInv, NEW j \in Pictures \cup OpusPackets, jobs' = Append(jobs, j),
           NEW n \in Nat, n = Len(jobs)
    PROVE  OpusBefore(n + 2)' = IF j \in Pictures THEN OpusBefore(n + 1)
                                                  ELSE OpusBefore(n + 1) + 1
<1> DEFINE Old == {i \in 1..n : ~IsPicture(i)}
           New == {i \in 1..n + 1 : ~IsPicture(i)'}
<1>1. /\ Len(jobs') = n + 1 /\ DOMAIN jobs = 1..n /\ DOMAIN jobs' = 1..n + 1
      /\ (n + 1) - 1 = n /\ (n + 2) - 1 = n + 1
  BY JobsGrow
<1>2. OpusBefore(n + 1) = Cardinality(Old) /\ OpusBefore(n + 2)' = Cardinality(New)
  BY <1>1 DEF OpusBefore
<1>3. \A i \in 1..n : IsPicture(i)' <=> IsPicture(i)
  BY <1>1, JobsGrow DEF IsPicture
<1>4. \A i \in 1..n + 1 : i = n + 1 => (IsPicture(i)' <=> j \in Pictures)
  BY <1>1, JobsGrow DEF IsPicture
<1>5. New = IF j \in Pictures THEN Old ELSE Old \cup {n + 1}
  BY <1>1, <1>3, <1>4
<1>6. IsFiniteSet(Old) /\ n + 1 \notin Old
  BY <1>1, CountsFinite
<1>7. Cardinality(Old \cup {n + 1}) = Cardinality(Old) + 1
  BY <1>6, FS_AddElement
<1> QED
  BY <1>1, <1>2, <1>5, <1>7

LEMMA AudioStep ==
    ASSUME TypeInv, AudioCount, NEW j \in Pictures \cup OpusPackets,
           jobs' = Append(jobs, j),
           IF j \in Pictures THEN UNCHANGED <<audio, audio_seq>>
           ELSE /\ audio_seq' = (audio_seq + 1) % SeqNumbers
                /\ \/ UNCHANGED audio
                   \/ audio' = Append(audio, [frame |-> Len(jobs'), seq |-> audio_seq])
    PROVE  AudioCount'
<1>1. PICK n \in Nat : n = Len(jobs)
  BY JobsGrow
<1>2. Len(jobs') = n + 1 /\ DOMAIN jobs = 1..n /\ DOMAIN jobs' = 1..n + 1
  BY <1>1, JobsGrow
<1>3. OpusBefore(n + 1) \in Nat
  BY CountsFinite
<1>4. audio_seq' = OpusBefore(n + 2)' % SeqNumbers
  <2>1. CASE j \in Pictures
    BY <1>1, <2>1, CountsOne DEF AudioCount
  <2>2. CASE j \notin Pictures
    <3>1. audio_seq' = ((OpusBefore(n + 1) % SeqNumbers) + 1) % SeqNumbers
      BY <1>1, <2>2 DEF AudioCount
    <3>2. audio_seq' = (OpusBefore(n + 1) + 1) % SeqNumbers
      <4>1. PICK a \in Int : a = OpusBefore(n + 1)
        BY <1>3
      <4>2. ((a % SeqNumbers) + 1) % SeqNumbers = (a + 1) % SeqNumbers
        BY ModNext, ConstantTypes
      <4> QED
        BY <3>1, <4>1, <4>2
    <3> QED
      BY <1>1, <2>2, <3>2, CountsOne
  <2> QED
    BY <2>1, <2>2
<1>5. \A i \in DOMAIN audio : \A f \in 1..n : f = audio[i].frame =>
         audio[i].seq = OpusBefore(f)' % SeqNumbers
  <2>1. \A f \in 1..n : f \in 1..Len(jobs) + 1
    BY <1>1
  <2>2. \A f \in 1..n : OpusBefore(f)' = OpusBefore(f)
    BY <2>1, CountsKept
  <2> QED
    BY <2>2 DEF AudioCount
<1>6. \A f \in 1..n + 1 : f = n + 1 => audio_seq = OpusBefore(f)' % SeqNumbers
  <2>1. \A f \in 1..n + 1 : OpusBefore(f)' = OpusBefore(f)
    BY <1>1, CountsKept
  <2> QED
    BY <1>1, <2>1 DEF AudioCount
<1>7. \A i \in DOMAIN audio' : \E f \in 1..n + 1 :
         audio'[i].frame = f /\ audio'[i].seq = OpusBefore(f)' % SeqNumbers
  <2>1. \A i \in DOMAIN audio : audio[i].frame \in 1..n
    BY <1>2 DEF AudioCount
  <2>2. CASE UNCHANGED audio
    BY <1>5, <2>1, <2>2
  <2>3. CASE audio' = Append(audio, [frame |-> Len(jobs'), seq |-> audio_seq])
    <3>1. [frame |-> Len(jobs'), seq |-> audio_seq] \in OpusPacket
      BY <1>2 DEF OpusPacket, TypeInv, Numbers
    <3>2. /\ Len(audio) \in Nat /\ DOMAIN audio = 1..Len(audio)
          /\ DOMAIN audio' = 1..Len(audio) + 1
          /\ audio'[Len(audio) + 1] = [frame |-> Len(jobs'), seq |-> audio_seq]
          /\ \A i \in 1..Len(audio) : audio'[i] = audio[i]
      BY <2>3, <3>1, Appended DEF TypeInv, Lists
    <3>3. /\ audio'[Len(audio) + 1].frame = n + 1
          /\ audio'[Len(audio) + 1].seq = audio_seq
      BY <1>2, <3>2
    <3>4. \A i \in DOMAIN audio' : i \in DOMAIN audio \/ i = Len(audio) + 1
      BY <3>2
    <3> QED
      BY <1>5, <1>6, <2>1, <3>2, <3>3, <3>4
  <2> QED
    BY <2>2, <2>3
<1>8. AudioCount' <=>
        /\ audio_seq' = OpusBefore(n + 2)' % SeqNumbers
        /\ \A i \in DOMAIN audio' :
              /\ audio'[i].frame \in DOMAIN jobs'
              /\ audio'[i].seq = OpusBefore(audio[i].frame)' % SeqNumbers
  <2>1. Len(jobs') + 1 = n + 2
    BY <1>2
  <2> QED
    BY <2>1 DEF AudioCount, OpusBefore
<1> QED
  BY <1>2, <1>4, <1>7, <1>8 DEF OpusBefore

-----------------------------------------------------------------------------
(* The inductive invariant                                                 *)
IInv == TypeInv /\ VideoInv /\ AudioCount

LEMMA InitIInv == ASSUME Init PROVE IInv
<1>1. TypeInv
  BY InitType
<1>2. /\ ~sending /\ jobs = <<>> /\ video = <<>> /\ audio = <<>> /\ broken = {}
      /\ audio_seq = 0
  BY DEF Init
<1>3. DOMAIN video = {} /\ DOMAIN audio = {} /\ Len(video) = 0 /\ Len(jobs) = 0
  BY <1>2
<1>4. VideoInv
  BY <1>2, <1>3 DEF VideoInv, Underway, Belongs, LastPacket, VideoContinues
<1>5. OpusBefore(Len(jobs) + 1) = 0
  <2>1. {i \in 1..(0 + 1) - 1 : ~IsPicture(i)} = {}
    OBVIOUS
  <2> QED
    BY <1>3, <2>1, FS_EmptySet DEF OpusBefore
<1>6. 0 % SeqNumbers = 0
  <2>1. 0 \in 0..SeqNumbers - 1
    BY ConstantTypes
  <2> QED
    BY <2>1, Below, ConstantTypes
<1>7. AudioCount
  BY <1>2, <1>3, <1>5, <1>6 DEF AudioCount
<1> QED
  BY <1>1, <1>4, <1>7 DEF IInv

(* A step that receives no frame leaves the audio stream alone.            *)
LEMMA AudioKept ==
    ASSUME AudioCount, UNCHANGED <<jobs, audio, audio_seq>>
    PROVE  AudioCount'
BY DEF AudioCount, OpusBefore, IsPicture

LEMMA NextIInv == ASSUME IInv, [Next]_vars PROVE IInv'
<1> USE DEF IInv
<1>1. ASSUME NEW p \in Pictures, StartPicture(p)
      PROVE  IInv'
  <2>1. TypeInv'
    BY <1>1, StartType
  <2>2. sending' => /\ hdr'.off = 0 /\ hdr'.seq = video_seq
                    /\ bytes_left' = ScanLength(p)
    BY <1>1, HeaderType DEF StartPicture, TypeInv, Numbers
  <2>3. VideoInv'
    BY <1>1, <2>2, NewFrameVideo DEF StartPicture
  <2>4. AudioCount'
    BY <1>1, AudioStep DEF StartPicture
  <2> QED
    BY <2>1, <2>3, <2>4
<1>2. CASE SendPacket
  BY <1>2, SendType, SendVideo, AudioKept DEF SendPacket, VideoInv
<1>3. CASE SendFails \/ FinishPicture
  BY <1>3, EndType, EndVideo, AudioKept DEF SendFails, FinishPicture, VideoInv
<1>4. ASSUME NEW o \in OpusPackets, SendOpus(o)
      PROVE  IInv'
  <2>1. TypeInv'
    BY <1>4, OpusType
  <2>2. VideoInv'
    BY <1>4, NewFrameVideo DEF SendOpus
  <2>3. o \notin Pictures
    BY RtpSenderAssumption
  <2>4. AudioCount'
    BY <1>4, <2>3, AudioStep DEF SendOpus
  <2> QED
    BY <2>1, <2>2, <2>4
<1>5. CASE UNCHANGED vars
  <2>1. TypeInv'
    BY <1>5 DEF vars, TypeInv, Numbers, Lists
  <2>2. VideoInv'
    BY <1>5 DEF vars, VideoInv, Underway, Belongs, LastPacket, Follows, Ended,
                VideoContinues
  <2>3. AudioCount'
    BY <1>5, AudioKept DEF vars
  <2> QED
    BY <2>1, <2>2, <2>3
<1> QED
  BY <1>1, <1>2, <1>3, <1>4, <1>5 DEF Next

THEOREM Invariance == Spec => []IInv
BY InitIInv, NextIInv, PTL DEF Spec

(* The counters stay in their widths and the offset in its field, and the  *)
(* loop never takes more of a scan than is left.                           *)
THEOREM TypeCorrect == Spec => []TypeOK
<1>1. IInv => TypeOK
  BY TypeInvTypeOK DEF IInv
<1> QED
  BY <1>1, Invariance, PTL

(* The numbers of the video stream go on without a gap or a repetition,    *)
(* within a picture, from one to the next and past one broken off; the     *)
(* offsets go on within a picture, and the marker is on a last packet.     *)
THEOREM VideoNumbersContinue == Spec => []VideoContinues
<1>1. IInv => VideoContinues
  BY DEF IInv, VideoInv
<1> QED
  BY <1>1, Invariance, PTL

(* The number of an audio packet tells how many Opus packets stream_task   *)
(* received before it, those that were dropped included.                   *)
THEOREM AudioNumbersCount == Spec => []AudioGapsAreDrops
<1>1. IInv => AudioGapsAreDrops
  BY DEF IInv, AudioCount, AudioGapsAreDrops
<1> QED
  BY <1>1, Invariance, PTL

-----------------------------------------------------------------------------
(* What the loop sends of a picture                                        *)
LEMMA Times ==
    ASSUME NEW F \in Nat, NEW k \in Int, NEW l \in Int, k <= l
    PROVE  k * F <= l * F
<1>1. (l - k) * F >= 0
  OBVIOUS
<1> QED
  BY <1>1

(* A quotient rounded up is the least number of parts that is enough.      *)
LEMMA Ceiling ==
    ASSUME NEW F \in Nat \ {0}, NEW a \in Nat \ {0}, NEW c, c = (a + F - 1) \div F
    PROVE  c \in Nat /\ \A k \in Int : k * F >= a <=> k >= c
<1>1. ASSUME NEW b, b = a + F - 1, NEW m, m = b % F
      PROVE  c \in Int /\ m \in Int /\ 0 <= m /\ m < F /\ b = F * c + m /\ b \in Nat
  <2>1. b \in Nat /\ c = b \div F
    BY <1>1
  <2>2. c \in Int /\ m \in Int /\ 0 <= m /\ m < F
    BY <1>1, <2>1
  <2>3. m = b - F * c
    BY <1>1, <2>1
  <2> QED
    BY <2>1, <2>2, <2>3
<1>2. c \in Int /\ F * c < a + F /\ F * c >= a
  BY <1>1
<1>3. c >= 1
  <2>1. c <= 0 => c * F <= 0 * F
    BY <1>2, Times
  <2> QED
    BY <1>2, <2>1
<1>4. ASSUME NEW k \in Int, k >= c PROVE k * F >= a
  BY <1>2, <1>4, Times
<1>5. ASSUME NEW k \in Int, k < c PROVE k * F < a
  <2>1. k + 1 <= c /\ k + 1 \in Int
    BY <1>2, <1>5
  <2>2. (k + 1) * F <= c * F
    BY <1>2, <2>1, Times
  <2>3. (k + 1) * F = k * F + F
    OBVIOUS
  <2> QED
    BY <1>2, <2>2, <2>3
<1> QED
  BY <1>2, <1>3, <1>4, <1>5

LEMMA Rooms ==
    ASSUME NEW p
    PROVE  /\ FullRoom \in Nat \ {0} /\ TablesLen \in Nat \ {0}
           /\ Before(p) \in Nat /\ Before(p) < FullRoom
BY RtpSenderAssumption DEF FullRoom, Before

(* A picture has as many fragments as its scan and its tables take.        *)
LEMMA CountIs ==
    ASSUME NEW p \in Pictures
    PROVE  /\ Count(p) \in Nat
           /\ ScanLength(p) = 0 => Count(p) = 0
           /\ ScanLength(p) # 0 =>
                 \A k \in Int \ {0} : Cut(p, k) >= ScanLength(p) <=> k >= Count(p)
<1>1. ScanLength(p) \in Nat
  BY Scans, ConstantTypes
<1>2. CASE ScanLength(p) = 0
  BY <1>2 DEF Count
<1>3. CASE ScanLength(p) # 0
  <2>1. ScanLength(p) + Before(p) \in Nat \ {0}
    BY <1>1, <1>3, Rooms
  <2>2. Count(p) = (ScanLength(p) + Before(p) + FullRoom - 1) \div FullRoom
    BY <1>3 DEF Count
  <2>3. /\ Count(p) \in Nat
        /\ \A k \in Int : k * FullRoom >= ScanLength(p) + Before(p) <=> k >= Count(p)
    BY <2>1, <2>2, Rooms, Ceiling
  <2>4. ASSUME NEW k \in Int, k # 0
        PROVE  Cut(p, k) >= ScanLength(p) <=> k * FullRoom >= ScanLength(p) + Before(p)
    <3>1. Cut(p, k) = k * FullRoom - Before(p)
      BY <2>4 DEF Cut
    <3>2. k * FullRoom \in Int
      BY Rooms
    <3> QED
      BY <1>1, <3>1, <3>2, Rooms
  <2> QED
    BY <1>3, <2>3, <2>4
<1> QED
  BY <1>2, <1>3

Sends ==
    \A i \in DOMAIN video :
        LET j == video[i].frame
        IN  /\ IsPicture(j) /\ Parses(jobs[j])
            /\ Place(i) <= Count(jobs[j])
            /\ Part(video[i]) = Fragments(jobs[j])[Place(i)]
Complete ==
    \A j \in DOMAIN jobs : IsPicture(j) /\ Parses(jobs[j]) =>
        \/ j \in broken
        \/ sending /\ j = Len(jobs)
        \/ Cardinality(PacketsOf(j)) = Count(jobs[j])

(* With n packets of picture p sent, the loop is at the cut after them, or *)
(* it has sent all.                                                        *)
At(p, n) == /\ Parses(p)
            /\ hdr.q = IF HasTables(p) THEN 128 ELSE 0
            /\ IF bytes_left = 0 THEN n = Count(p)
                                 ELSE n < Count(p) /\ hdr.off = Cut(p, n)
Loop == sending => At(jobs[Len(jobs)], Cardinality(PacketsOf(Len(jobs))))

SentInv == Sends /\ Complete /\ Loop

(* One turn of the loop cuts off the next fragment.                        *)
LEMMA NextFragment ==
    ASSUME TypeInv, Underway, sending, bytes_left > 0,
           NEW p, p = jobs[Len(jobs)], NEW n \in Nat, At(p, n)
    PROVE  /\ Part(Fragment) = Fragments(p)[n + 1]
           /\ n + 1 <= Count(p)
           /\ bytes_left - DataLen = 0 => n + 1 = Count(p)
           /\ bytes_left - DataLen # 0 => n + 1 < Count(p) /\ hdr.off + DataLen = Cut(p, n + 1)
<1>1. /\ p \in Pictures
      /\ hdr.off + bytes_left = ScanLength(p)
      /\ bytes_left \in Nat /\ hdr.off \in Nat
  BY ConstantTypes DEF Underway, TypeInv, Numbers, PacketHeader
<1>2. /\ hdr.q = IF HasTables(p) THEN 128 ELSE 0
      /\ n < Count(p) /\ hdr.off = Cut(p, n)
  BY <1>1 DEF At
<1>3. Count(p) \in Nat
  BY <1>1, CountIs
<1>4. ScanLength(p) # 0 /\ ScanLength(p) \in Nat
  BY <1>1
<1>5. hdr.off = 0 <=> n = 0
  <2>1. CASE n = 0
    BY <1>2, <2>1 DEF Cut
  <2>2. CASE n # 0
    <3>1. hdr.off = n * FullRoom - Before(p)
      BY <1>2, <2>2 DEF Cut
    <3>2. FullRoom <= n * FullRoom
      <4>1. FullRoom \in Nat /\ 1 \in Int /\ n \in Int /\ 1 <= n
        BY <2>2, Rooms
      <4>2. 1 * FullRoom <= n * FullRoom
        BY <4>1, Times
      <4> QED
        BY <4>1, <4>2
    <3> QED
      BY <1>1, <2>2, <3>1, <3>2, Rooms
  <2> QED
    BY <2>1, <2>2
<1>6. WithTables <=> HasTables(p) /\ n = 0
  <2>1. hdr.q >= 128 <=> HasTables(p)
    BY <1>2
  <2> QED
    BY <1>5, <2>1 DEF WithTables
<1>7. Cut(p, n + 1) = hdr.off + Room
  <2>1. Cut(p, n + 1) = (n + 1) * FullRoom - Before(p)
    BY DEF Cut
  <2>2. (n + 1) * FullRoom = n * FullRoom + FullRoom /\ n * FullRoom \in Int
    <3>1. FullRoom \in Int
      BY Rooms
    <3> QED
      BY <3>1
  <2>3. CASE n = 0
    <3>1. Room = FullRoom - Before(p) /\ hdr.off = 0
      BY <1>5, <1>6, <2>3 DEF Room, Before
    <3>2. (n + 1) * FullRoom = FullRoom
      BY <2>3, Rooms
    <3> QED
      BY <2>1, <3>1, <3>2, Rooms
  <2>4. CASE n # 0
    <3>1. Room = FullRoom
      BY <1>6, <2>4, Rooms DEF Room
    <3>2. hdr.off = n * FullRoom - Before(p)
      BY <1>2, <2>4 DEF Cut
    <3> QED
      BY <2>1, <2>2, <3>1, <3>2, Rooms
  <2> QED
    BY <2>3, <2>4
<1>8. Room \in Nat
  BY RtpSenderAssumption DEF Room, FullRoom
<1>9. IsLast <=> n + 1 = Count(p)
  <2>1. IsLast <=> Cut(p, n + 1) >= ScanLength(p)
    BY <1>1, <1>7, <1>8 DEF IsLast
  <2>2. Cut(p, n + 1) >= ScanLength(p) <=> n + 1 >= Count(p)
    <3>1. n + 1 \in Int /\ n + 1 # 0
      OBVIOUS
    <3> QED
      BY <1>1, <1>4, <3>1, CountIs
  <2> QED
    BY <1>2, <1>3, <2>1, <2>2
<1>10. DataLen = (IF n + 1 = Count(p) THEN ScanLength(p) ELSE Cut(p, n + 1)) - hdr.off
  BY <1>1, <1>7, <1>8, <1>9 DEF DataLen
<1>11. Fragments(p)[n + 1] =
         [off |-> Cut(p, n),
          len |-> (IF n + 1 = Count(p) THEN ScanLength(p) ELSE Cut(p, n + 1)) - Cut(p, n),
          m |-> n + 1 = Count(p), tables |-> HasTables(p) /\ n = 0]
  <2>1. n + 1 \in 1..Count(p) /\ (n + 1) - 1 = n /\ (n + 1 = 1 <=> n = 0)
    BY <1>2, <1>3
  <2> QED
    BY <2>1 DEF Fragments
<1>12. Part(Fragment) = [off |-> hdr.off, len |-> DataLen, m |-> IsLast, tables |-> WithTables]
  BY DEF Part, Fragment
<1>13. Part(Fragment) = Fragments(p)[n + 1]
  <2>1. IsLast = (n + 1 = Count(p)) /\ WithTables = (HasTables(p) /\ n = 0)
    BY <1>6, <1>9, Taken DEF HasTables, Visits
  <2> QED
    BY <1>2, <1>10, <1>11, <1>12, <2>1
<1>14. /\ bytes_left - DataLen = 0 => n + 1 = Count(p)
       /\ bytes_left - DataLen # 0 => /\ n + 1 < Count(p)
                                      /\ hdr.off + DataLen = Cut(p, n + 1)
  BY <1>1, <1>2, <1>3, <1>7, <1>8, <1>9, Taken DEF DataLen
<1> QED
  BY <1>2, <1>3, <1>13, <1>14

LEMMA PacketsFinite ==
    ASSUME TypeInv, NEW j
    PROVE  /\ IsFiniteSet(PacketsOf(j)) /\ Cardinality(PacketsOf(j)) \in Nat
           /\ PacketsOf(j) \subseteq 1..Len(video)
<1>1. PacketsOf(j) \subseteq 1..Len(video) /\ Len(video) \in Nat
  BY VideoShape DEF PacketsOf
<1>2. IsFiniteSet(1..Len(video))
  BY <1>1, FS_Interval
<1> QED
  BY <1>1, <1>2, FS_Subset, FS_CardinalityType

(* A packet more is one more of its frame, and the last of them.           *)
LEMMA OnePacket ==
    ASSUME TypeInv, NEW f \in Packet, video' = Append(video, f),
           NEW n, n = Len(video), NEW k, k = f.frame
    PROVE  /\ Cardinality(PacketsOf(k))' = Cardinality(PacketsOf(k)) + 1
           /\ \A j : j # k => PacketsOf(j)' = PacketsOf(j)
           /\ \A i \in 1..n : Place(i)' = Place(i)
           /\ Place(n + 1)' = Cardinality(PacketsOf(k)) + 1
<1>1. /\ n \in Nat /\ DOMAIN video = 1..n /\ DOMAIN video' = 1..n + 1
      /\ video'[n + 1] = f /\ \A i \in 1..n : video'[i] = video[i]
  BY Appended DEF TypeInv, Lists
<1>2. 1..n + 1 = (1..n) \cup {n + 1} /\ n + 1 \notin 1..n
  BY <1>1
<1>3. PacketsOf(k)' = PacketsOf(k) \cup {n + 1}
  BY <1>1, <1>2 DEF PacketsOf
<1>4. \A j : j # k => PacketsOf(j)' = PacketsOf(j)
  BY <1>1, <1>2 DEF PacketsOf
<1>5. Cardinality(PacketsOf(k))' = Cardinality(PacketsOf(k)) + 1
  <2>1. IsFiniteSet(PacketsOf(k)) /\ n + 1 \notin PacketsOf(k)
    BY <1>2, PacketsFinite
  <2> QED
    BY <1>3, <2>1, FS_AddElement
<1>6. ASSUME NEW i \in 1..n PROVE Place(i)' = Place(i)
  <2>1. \A h \in 1..i : h \in 1..n
    BY <1>1
  <2>2. {h \in 1..i : video'[h].frame = video'[i].frame}
          = {h \in 1..i : video[h].frame = video[i].frame}
    BY <1>1, <2>1
  <2> QED
    BY <2>2 DEF Place
<1>7. Place(n + 1)' = Cardinality(PacketsOf(k))'
  BY <1>1 DEF Place, PacketsOf
<1> QED
  BY <1>4, <1>5, <1>6, <1>7

(* No frame is received twice: a new one has no packets yet, and the old   *)
(* ones keep theirs.                                                       *)
LEMMA NewFrameSent ==
    ASSUME TypeInv, VideoInv, SentInv, ~sending,
           NEW j \in Pictures \cup OpusPackets, jobs' = Append(jobs, j),
           UNCHANGED <<video, broken>>,
           IF j \in Pictures /\ Parses(j)
              THEN sending' /\ hdr' = Header(j) /\ bytes_left' = ScanLength(j)
              ELSE ~sending'
    PROVE  SentInv'
<1>0. PICK k : k = Len(jobs) + 1
  OBVIOUS
<1>1. /\ Len(jobs) \in Nat /\ DOMAIN jobs = 1..Len(jobs) /\ DOMAIN jobs' = 1..k
      /\ Len(jobs') = k /\ jobs'[k] = j
      /\ \A i \in DOMAIN jobs : jobs'[i] = jobs[i] /\ i \in DOMAIN jobs'
  BY <1>0, JobsGrow
<1>2. \A i \in DOMAIN jobs : IsPicture(i)' <=> IsPicture(i)
  BY <1>1 DEF IsPicture
<1>3. \A i \in DOMAIN video : video[i].frame \in DOMAIN jobs
  BY DEF VideoInv, Belongs
<1>4. \A i : PacketsOf(i)' = PacketsOf(i)
  BY DEF PacketsOf
<1>5. PacketsOf(k) = {}
  BY <1>0, <1>1, <1>3 DEF PacketsOf
<1>6. Cardinality(PacketsOf(k))' = 0
  BY <1>4, <1>5, FS_EmptySet
<1>7. Sends'
  <2>1. \A i \in DOMAIN video : Place(i)' = Place(i)
    BY DEF Place
  <2> QED
    BY <1>1, <1>2, <1>3, <2>1 DEF Sends, SentInv
<1>8. ASSUME j \in Pictures, Parses(j)
      PROVE  At(j, 0)'
  <2>1. hdr'.q = IF HasTables(j) THEN 128 ELSE 0
    BY <1>8 DEF Header
  <2>2. hdr'.off = 0 /\ bytes_left' = ScanLength(j)
    BY <1>8 DEF Header
  <2>3. CASE bytes_left' = 0
    BY <1>8, <2>1, <2>2, <2>3, CountIs DEF At
  <2>4. CASE bytes_left' # 0
    <3>1. 0 < Count(j) /\ Count(j) \in Nat
      <4>1. Count(j) \in Nat /\ ScanLength(j) \in Nat
        BY <1>8, CountIs, Scans, ConstantTypes
      <4>2. ScanLength(j) + Before(j) \in Nat \ {0} /\ FullRoom \in Nat \ {0}
        BY <2>2, <2>4, <4>1, Rooms
      <4>3. \A h \in Int : h * FullRoom >= ScanLength(j) + Before(j) <=> h >= Count(j)
        BY <2>2, <2>4, <4>2, Ceiling DEF Count
      <4>4. ~(0 * FullRoom >= ScanLength(j) + Before(j))
        BY <4>2
      <4>5. ~(0 >= Count(j))
        BY <4>3, <4>4
      <4> QED
        BY <4>1, <4>5
    <3> QED
      BY <1>8, <2>1, <2>2, <2>4, <3>1 DEF At, Cut
  <2> QED
    BY <2>3, <2>4
<1>9. Loop'
  <2>1. sending' => j \in Pictures /\ Parses(j)
    OBVIOUS
  <2>2. sending' => At(j, 0)'
    BY <1>8, <2>1
  <2> QED
    BY <1>1, <1>6, <2>2 DEF Loop, At
<1>10. Complete'
  <2>1. ASSUME NEW i \in DOMAIN jobs, IsPicture(i)', Parses(jobs'[i])
        PROVE  i \in broken \/ Cardinality(PacketsOf(i)) = Count(jobs[i])
    BY <1>1, <1>2, <2>1 DEF Complete, SentInv
  <2>2. ASSUME IsPicture(k)', Parses(j) PROVE sending'
    BY <1>1, <2>2 DEF IsPicture
  <2>3. ASSUME NEW i \in DOMAIN jobs', IsPicture(i)', Parses(jobs'[i])
        PROVE  \/ i \in broken'
               \/ sending' /\ i = Len(jobs')
               \/ Cardinality(PacketsOf(i))' = Count(jobs'[i])
    <3>1. CASE i = k
      BY <1>1, <2>2, <2>3, <3>1
    <3>2. CASE i # k
      <4>1. i \in DOMAIN jobs
        BY <1>0, <1>1, <3>2
      <4> QED
        BY <1>1, <1>4, <2>1, <2>3, <4>1
    <3> QED
      BY <3>1, <3>2
  <2> QED
    BY <2>3 DEF Complete, PacketsOf
<1> QED
  BY <1>7, <1>9, <1>10 DEF SentInv

LEMMA SendSent ==
    ASSUME TypeInv, VideoInv, SentInv, SendPacket
    PROVE  SentInv'
<1> DEFINE p == jobs[Len(jobs)]
<1>1. /\ sending /\ bytes_left > 0
      /\ UNCHANGED <<jobs, sending, broken>>
      /\ video' = Append(video, Fragment)
      /\ bytes_left' = bytes_left - DataLen
      /\ hdr' = [hdr EXCEPT !.off = hdr.off + DataLen,
                            !.seq = (hdr.seq + 1) % SeqNumbers]
  BY SendType DEF SendPacket, VideoInv
<1>2. PICK k, n, l : k = Len(jobs) /\ n = Cardinality(PacketsOf(k)) /\ l = Len(video)
  OBVIOUS
<1>3. /\ k \in DOMAIN jobs /\ p \in Pictures /\ jobs[k] = p
      /\ n \in Nat /\ l \in Nat /\ DOMAIN video = 1..l
      /\ Fragment \in Packet /\ Fragment.frame = k
  BY <1>1, <1>2, PacketsFinite, VideoShape, FragmentType DEF VideoInv, Underway, Fragment
<1>4. At(p, n)
  BY <1>1, <1>2 DEF SentInv, Loop
<1>5. /\ Part(Fragment) = Fragments(p)[n + 1]
      /\ n + 1 <= Count(p)
      /\ bytes_left' = 0 => n + 1 = Count(p)
      /\ bytes_left' # 0 => n + 1 < Count(p) /\ hdr.off + DataLen = Cut(p, n + 1)
  BY <1>1, <1>3, <1>4, NextFragment DEF VideoInv
<1>6. /\ Cardinality(PacketsOf(k))' = n + 1
      /\ \A j : j # k => PacketsOf(j)' = PacketsOf(j)
      /\ \A i \in 1..l : Place(i)' = Place(i)
      /\ Place(l + 1)' = n + 1
  BY <1>1, <1>2, <1>3, OnePacket
<1>7. /\ DOMAIN video' = 1..l + 1 /\ video'[l + 1] = Fragment
      /\ \A i \in 1..l : video'[i] = video[i]
  BY <1>1, <1>2, <1>3, Appended DEF TypeInv, Lists
<1>8. \A i : IsPicture(i)' <=> IsPicture(i)
  BY <1>1 DEF IsPicture
<1>9. Sends'
  <2> DEFINE Good(f, j, i) == /\ IsPicture(j) /\ Parses(jobs[j])
                             /\ i <= Count(jobs[j])
                             /\ Part(f) = Fragments(jobs[j])[i]
  <2>1. \A i \in 1..l : Good(video[i], video[i].frame, Place(i))
    BY <1>3 DEF SentInv, Sends
  <2>2. Good(Fragment, k, n + 1)
    BY <1>3, <1>4, <1>5 DEF IsPicture, At
  <2>3. \A i \in 1..l + 1 : i \in 1..l \/ i = l + 1
    BY <1>3
  <2>4. \A i \in DOMAIN video' : Good(video'[i], video'[i].frame, Place(i)')
    <3> HIDE DEF Good
    <3> QED
      BY <1>3, <1>6, <1>7, <2>1, <2>2, <2>3
  <2> QED
    BY <1>1, <1>8, <2>4 DEF Sends
<1>10. Complete'
  <2>1. ASSUME NEW j \in DOMAIN jobs, IsPicture(j), Parses(jobs[j]), j # k
        PROVE  j \in broken \/ Cardinality(PacketsOf(j))' = Count(jobs[j])
    BY <1>2, <1>6, <2>1 DEF SentInv, Complete
  <2> QED
    BY <1>1, <1>2, <1>8, <2>1 DEF Complete, PacketsOf
<1>11. Loop'
  <2>1. hdr'.q = hdr.q /\ hdr'.off = hdr.off + DataLen
    BY <1>1 DEF TypeInv, Numbers, PacketHeader
  <2>2. At(p, n + 1)'
    BY <1>1, <1>4, <1>5, <2>1 DEF At
  <2> QED
    BY <1>1, <1>2, <1>6, <2>2 DEF Loop, At
<1> QED
  BY <1>9, <1>10, <1>11 DEF SentInv

LEMMA EndSent ==
    ASSUME TypeInv, VideoInv, SentInv, SendFails \/ FinishPicture
    PROVE  SentInv'
<1>1. /\ sending /\ ~sending' /\ UNCHANGED <<jobs, video>>
      /\ \/ broken' = broken \cup {Len(jobs)}
         \/ broken' = broken /\ bytes_left = 0
  BY DEF SendFails, FinishPicture
<1>2. /\ \A i : IsPicture(i)' <=> IsPicture(i)
      /\ \A i : Place(i)' = Place(i)
      /\ \A j : PacketsOf(j)' = PacketsOf(j)
  BY <1>1 DEF IsPicture, Place, PacketsOf
<1>3. Sends'
  BY <1>1, <1>2 DEF SentInv, Sends
<1>4. Complete'
  <2>1. \/ Len(jobs) \in broken'
        \/ Cardinality(PacketsOf(Len(jobs))) = Count(jobs[Len(jobs)])
    BY <1>1 DEF SentInv, Loop, At
  <2> QED
    BY <1>1, <1>2, <2>1 DEF SentInv, Complete, PacketsOf
<1> QED
  BY <1>1, <1>3, <1>4 DEF SentInv, Loop

LEMMA InitSent == ASSUME Init PROVE SentInv
<1>1. ~sending /\ jobs = <<>> /\ video = <<>>
  BY DEF Init
<1> QED
  BY <1>1 DEF SentInv, Sends, Complete, Loop

LEMMA NextSent == IInv /\ SentInv /\ [Next]_vars => SentInv'
<1> SUFFICES ASSUME IInv, SentInv, [Next]_vars PROVE SentInv'
  OBVIOUS
<1> USE DEF IInv
<1>1. ASSUME NEW p \in Pictures, StartPicture(p)
      PROVE  SentInv'
  BY <1>1, NewFrameSent DEF StartPicture
<1>2. CASE SendPacket
  BY <1>2, SendSent
<1>3. CASE SendFails \/ FinishPicture
  BY <1>3, EndSent
<1>4. ASSUME NEW o \in OpusPackets, SendOpus(o)
      PROVE  SentInv'
  <2>1. o \notin Pictures
    BY RtpSenderAssumption
  <2> QED
    BY <1>4, <2>1, NewFrameSent DEF SendOpus
<1>5. CASE UNCHANGED vars
  BY <1>5 DEF vars, SentInv, Sends, Complete, Loop, At, IsPicture, Place, PacketsOf
<1> QED
  BY <1>1, <1>2, <1>3, <1>4, <1>5 DEF Next

(* The loop of rtp_send_jpeg_data sends the fragments of RFC 2435, for     *)
(* every size of packets, tables and scans: the n-th packet of a picture   *)
(* is the n-th fragment, and all are sent unless the socket refused one.   *)
THEOREM PicturesAreFragments == Spec => []SentAsFragments
<1>1. IInv /\ SentInv /\ [Next]_vars => SentInv'
  BY NextSent
<1>2. SentInv => SentAsFragments
  BY DEF SentInv, Sends, Complete, SentAsFragments
<1> QED
  BY <1>1, <1>2, InitSent, Invariance, PTL DEF Spec
=============================================================================
